------------------------------ MODULE Mailbox ------------------------------
(***************************************************************************)
(* What the file table promises to the program: a box of whole messages    *)
(* per address.  A message is identified by its sender's running number.   *)
(* It is delivered at most once, after everything the sender delivered     *)
(* before it, and whole or not at all; it may be missed.  The program      *)
(* reads a copy of a box, newest message first.                            *)
(***************************************************************************)
EXTENDS Integers, Sequences

CONSTANTS
  Boxes,
  Peers,        (* the boxes that some peer sends to                        *)
  Special       (* the box a program looks at first                         *)

VARIABLES
  sent,         (* the number of messages p has begun to send               *)
  inbox,        (* inbox[b]: numbers of the messages delivered, newest first *)
  hand          (* the copy of a box the program holds                      *)

vars == <<sent, inbox, hand>>

Init ==
  /\ sent = [p \in Peers |-> 0]
  /\ inbox = [b \in Boxes |-> <<>>]
  /\ hand = [box |-> Special, ids |-> <<>>]

Send(p) ==
  /\ sent' = [sent EXCEPT ![p] = @ + 1]
  /\ UNCHANGED <<inbox, hand>>

Deliver(p, k) ==
  /\ inbox[p] # <<>> => Head(inbox[p]) < k
  /\ inbox' = [inbox EXCEPT ![p] = <<k>> \o @]
  /\ UNCHANGED <<sent, hand>>

Open(b) ==
  /\ hand' = [box |-> b, ids |-> inbox[b]]
  /\ UNCHANGED <<sent, inbox>>

Take ==
  /\ hand.ids # <<>>
  /\ hand' = [hand EXCEPT !.ids = Tail(@)]
  /\ UNCHANGED <<sent, inbox>>

Next ==
  \/ \E p \in Peers : Send(p)
  \/ \E p \in Peers : \E k \in 1 .. sent[p] : Deliver(p, k)
  \/ \E b \in Boxes : Open(b)
  \/ Take

Spec == Init /\ [][Next]_vars
==============================================================================
