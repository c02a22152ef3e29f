----------------------------- MODULE MCEspRelay -----------------------------
(* Small instances of EspRelay for TLC. *)
EXTENDS EspRelay
==============================================================================
