--------------------------- MODULE MCFileTableMem ---------------------------
(* Small instances of FileTableMem for TLC. *)
EXTENDS FileTableMem
==============================================================================
