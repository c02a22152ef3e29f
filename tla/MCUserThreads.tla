---------------------------- MODULE MCUserThreads ----------------------------
(* Small instances of UserThreads for TLC. *)
EXTENDS UserThreads
==============================================================================
