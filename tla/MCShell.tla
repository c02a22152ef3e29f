------------------------------- MODULE MCShell -------------------------------
(* Small instances of Shell for TLC. *)
EXTENDS Shell

(* Image 3 is too large to be loaded.                                       *)
MCSize == [p \in Images |-> CASE p = 1 -> 1 [] p = 2 -> 2 [] OTHER -> 4]
==============================================================================
