---------------------------- MODULE MCEspControl ----------------------------
(* The constants of the code, for TLC. *)
EXTENDS EspControl
==============================================================================
