------------------------------ MODULE MCFat32 --------------------------------
(* A small card for TLC. *)
EXTENDS Fat32
==============================================================================
