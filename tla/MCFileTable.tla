----------------------------- MODULE MCFileTable -----------------------------
(* Small instances of FileTable for TLC. *)
EXTENDS FileTable

(* Two status values besides NONE, ACK and NOACK are enough to tell a reply *)
(* from no reply.                                                           *)
MCStatuses == {0, 3, 8, 9, 15}
==============================================================================
