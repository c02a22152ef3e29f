-------------------------- MODULE FileTableMailbox --------------------------
(***************************************************************************)
(* FileTable implements Mailbox as long as at most one packet of each peer *)
(* is lost.  A queued message stands for the number its sender gave it; a  *)
(* message that is not exactly one of the sender's stands for 0, which     *)
(* Mailbox never delivers.                                                 *)
(***************************************************************************)
EXTENDS FileTable

(* Which message of p a queued message is.                                  *)
Id(p, m) == IF Intact(p, m) THEN m.data[1].msg ELSE 0

Ids(p, q) == [n \in 1 .. Len(q) |-> Id(p, q[n])]

Sent == [p \in Peers |-> sender[p].msg]

Inbox == [f \in Fds |-> Ids(f, fileTable[f].msg_q)]

Hand == [box |-> fds.fnum, ids |-> Ids(fds.fnum, fds.msg_q)]

Box == INSTANCE Mailbox WITH
  Boxes <- Fds, Special <- MAXFILES, sent <- Sent, inbox <- Inbox, hand <- Hand

(* The program sees a mailbox: whatever the handler does between two of its *)
(* looks, messages appear whole, once and in the order they were sent.      *)
IsMailbox == Box!Spec
==============================================================================
