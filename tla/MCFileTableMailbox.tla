------------------------- MODULE MCFileTableMailbox -------------------------
(* Small instances of FileTableMailbox for TLC. *)
EXTENDS FileTableMailbox

MCStatuses == {0, 3, 8, 9, 15}
==============================================================================
