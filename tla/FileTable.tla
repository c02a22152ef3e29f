------------------------------ MODULE FileTable ------------------------------
(***************************************************************************)
(* The file table of a Pi (project/sw-uart/fds.c): one entry per 4-bit     *)
(* address, filled by the interrupt handler recieveMsgHandler from the     *)
(* packets its ESP relays, and read by the program through copies of an    *)
(* entry (get_fd, get_msg, get_status).                                    *)
(*                                                                         *)
(* A sender (send_cmd of pi-esp.c on another Pi) puts one command packet   *)
(* and then its data packets on the wire, in order and without             *)
(* acknowledgement.  A packet reaches the handler whole or not at all: a   *)
(* packet of which fewer than 32 bytes arrive in time is dropped.  Packets *)
(* of different senders interleave freely.                                 *)
(*                                                                         *)
(* The payload of a data packet is abstracted to a Piece: who sent it, in  *)
(* which of its messages, and which of how many pieces it is.              *)
(***************************************************************************)
EXTENDS Integers, Sequences

CONSTANTS
  MAXFILES,     (* 16 in the code: entry MAXFILES is the ESP's own          *)
  NONE,         (* the status of an entry that has none                     *)
  ESP_ACK,      (* the two commands that only set the status                *)
  ESP_NOACK,
  Statuses,     (* the values of a status byte                              *)
  Replies,      (* those the ESP answers on the special entry               *)
  Peers,        (* the addresses that send to this Pi                       *)
  DATA_NBYTES,  (* payload bytes of a data packet: 30 in the code           *)
  Sizes,        (* the message sizes, in bytes, the peers send              *)
  MsgSpan,      (* entries an initial message reaches over: FileTableMem    *)
  MaxMsgs,      (* bound: messages each peer sends                          *)
  MaxLoss       (* bound: packets lost on the way from each peer            *)

ASSUME FileTableAssumption ==
  /\ MAXFILES \in Nat \ {0}
  /\ Peers \subseteq 0 .. MAXFILES - 1
  (* the initial messages of the entries in use do not overlap in memory    *)
  /\ MsgSpan \in Nat
  /\ \A p, q \in Peers : p < q => q - p >= MsgSpan
  /\ {NONE, ESP_ACK, ESP_NOACK} \subseteq Statuses
  /\ Replies \subseteq Statuses
  /\ DATA_NBYTES \in Nat \ {0}
  /\ Sizes \subseteq Nat
  /\ MaxMsgs \in Nat
  /\ MaxLoss \in Nat

VARIABLES
  fileTable,    (* the global of constants.h: address -> entry              *)
  fds,          (* the program's local copy of an entry                     *)
  sender,       (* sender[p]: the message peer p is in the middle of        *)
  lost          (* history: packets lost so far, per peer                   *)

vars == <<fileTable, fds, sender, lost>>

------------------------------------------------------------------------------
Fds == 0 .. MAXFILES

(* Packets needed for a message of s bytes; the same ceiling division is    *)
(* written out in send_cmd and in the handler.                              *)
NPckts(s) == (s \div DATA_NBYTES) + (IF s % DATA_NBYTES > 0 THEN 1 ELSE 0)

(* The i-th of the n data packets of the k-th message of p.                 *)
Piece(p, k, i, n) == [from |-> p, msg |-> k, idx |-> i, of |-> n]

Blank == Piece(0, 0, 0, 0)      (* what zero-filled memory holds *)

(* A zero-filled buffer of n packets.                                       *)
Buffer(n) == [i \in 1 .. n |-> Blank]

(* Mutant: -1 for "none yet". *)
EmptyMsg_MinusOne == [has_cmd |-> FALSE, totPckts |-> -1, curPckts |-> 0, data |-> <<>>]

(* Mutant: has_cmd left as it was found, which add_msg does not assign. *)
EmptyMsg_CmdLeft == [has_cmd |-> TRUE, totPckts |-> 0, curPckts |-> 0, data |-> <<>>]

EmptyMsg == [has_cmd |-> FALSE, totPckts |-> 0, curPckts |-> 0, data |-> <<>>]

------------------------------------------------------------------------------
(* The handler.                                                             *)

(* Change cur_msg of entry f.                                               *)
SetCur(f, m) == fileTable' = [fileTable EXCEPT ![f].cur_msg = m]

(* A reply of the ESP itself: From and To are both 0xf.                     *)
RecieveReply(c) == fileTable' = [fileTable EXCEPT ![MAXFILES].status = c]

(* An ACK or a NOACK of p: it never reaches the message being assembled.    *)
RecieveAck(p, c) == fileTable' = [fileTable EXCEPT ![p].status = c]

(* Mutant: the message is cleared, has_cmd is not. *)
SeenCmdAlready_CmdKept(p) ==
  /\ fileTable[p].cur_msg.has_cmd
  /\ SetCur(p, [EmptyMsg EXCEPT !.has_cmd = TRUE])

(* Mutant: only the command is ignored, as the comment in the code says. *)
SeenCmdAlready_Ignored(p) ==
  /\ fileTable[p].cur_msg.has_cmd
  /\ UNCHANGED fileTable

(* A command with a message announced already: command and message are both *)
(* given up.                                                                *)
SeenCmdAlready(p) ==
  /\ fileTable[p].cur_msg.has_cmd
  /\ SetCur(p, EmptyMsg)

(* A command that announces a message of size bytes.                        *)
AcceptCmd(p, size) ==
  /\ ~ fileTable[p].cur_msg.has_cmd
  /\ SetCur(p, [has_cmd  |-> TRUE,
                totPckts |-> NPckts(size),
                curPckts |-> 0,
                data     |-> Buffer(NPckts(size))])

RecieveCmd(p, size) == SeenCmdAlready(p) \/ AcceptCmd(p, size)

(* A data packet nothing announced.                                         *)
DropData(p) ==
  /\ ~ fileTable[p].cur_msg.has_cmd
  /\ SetCur(p, EmptyMsg)

(* Mutant: the copy always goes to the start of the buffer. *)
Stored_NoOffset(m, piece) ==
  [m EXCEPT !.data = [@ EXCEPT ![1] = piece], !.curPckts = @ + 1]

(* memcpy of the packet to slot curPckts.                                   *)
Stored(m, piece) ==
  [m EXCEPT !.data = [@ EXCEPT ![m.curPckts + 1] = piece],
            !.curPckts = @ + 1]

StoreData(p, piece) ==
  LET m == Stored(fileTable[p].cur_msg, piece)
  IN /\ fileTable[p].cur_msg.has_cmd
     /\ m.curPckts # m.totPckts
     /\ SetCur(p, m)

(* Mutant: Q_append for Q_push. *)
add_msg_Append(p, m) ==
  fileTable' = [fileTable EXCEPT ![p].msg_q   = Append(@, m),
                                 ![p].cur_msg = EmptyMsg]

(* The last packet: add_msg pushes the message on the FRONT of the queue    *)
(* and starts an empty one.                                                 *)
add_msg(p, m) ==
  fileTable' = [fileTable EXCEPT ![p].msg_q   = <<m>> \o @,
                                 ![p].cur_msg = EmptyMsg]

CompleteData(p, piece) ==
  LET m == Stored(fileTable[p].cur_msg, piece)
  IN /\ fileTable[p].cur_msg.has_cmd
     /\ m.curPckts = m.totPckts
     /\ add_msg(p, m)

RecieveData(p, piece) ==
  DropData(p) \/ StoreData(p, piece) \/ CompleteData(p, piece)

------------------------------------------------------------------------------
(* The senders: sender[p].idx is 0 between two messages, and the number of  *)
(* the next data packet inside one.                                         *)

(* p starts its next message: its command packet leaves.                    *)
StartMsg(p, size) ==
  /\ sender[p].idx = 0
  /\ sender[p].msg < MaxMsgs
  /\ sender' = [sender EXCEPT
       ![p] = [msg |-> @.msg + 1,
               idx |-> IF NPckts(size) = 0 THEN 0 ELSE 1,
               of  |-> NPckts(size)]]

(* p's next data packet leaves.                                             *)
NextData(p) ==
  /\ sender[p].idx # 0
  /\ sender' = [sender EXCEPT ![p].idx = IF @ = sender[p].of THEN 0 ELSE @ + 1]

Outgoing(p) == Piece(p, sender[p].msg, sender[p].idx, sender[p].of)

Lose(p) ==
  /\ lost[p] < MaxLoss
  /\ lost' = [lost EXCEPT ![p] = @ + 1]
  /\ UNCHANGED fileTable

Cmd(p, size) ==
  /\ StartMsg(p, size)
  /\ \/ RecieveCmd(p, size) /\ UNCHANGED lost
     \/ Lose(p)
  /\ UNCHANGED fds

Data(p) ==
  /\ NextData(p)
  /\ \/ RecieveData(p, Outgoing(p)) /\ UNCHANGED lost
     \/ Lose(p)
  /\ UNCHANGED fds

Ack(p, c) == RecieveAck(p, c) /\ UNCHANGED <<fds, sender, lost>>

Reply(c) == RecieveReply(c) /\ UNCHANGED <<fds, sender, lost>>

------------------------------------------------------------------------------
(* The program.  get_fd returns a copy of the entry, and get_msg and        *)
(* get_status work on that copy: the table itself is never popped.          *)

get_fd(f) ==
  /\ fds' = [fnum |-> f, msg_q |-> fileTable[f].msg_q, status |-> fileTable[f].status]
  /\ UNCHANGED <<fileTable, sender, lost>>

get_msg ==
  /\ fds.msg_q # <<>>
  /\ fds' = [fds EXCEPT !.msg_q = Tail(@)]
  /\ UNCHANGED <<fileTable, sender, lost>>

get_status ==
  /\ fds.status # NONE
  /\ fds' = [fds EXCEPT !.status = NONE]
  /\ UNCHANGED <<fileTable, sender, lost>>

------------------------------------------------------------------------------
(* init_fileTable; the first entry a program copies is the special one.     *)
Init ==
  /\ fileTable = [f \in Fds |-> [cur_msg |-> EmptyMsg, msg_q |-> <<>>, status |-> NONE]]
  /\ fds = [fnum |-> MAXFILES, msg_q |-> <<>>, status |-> NONE]
  /\ sender = [p \in Peers |-> [msg |-> 0, idx |-> 0, of |-> 0]]
  /\ lost = [p \in Peers |-> 0]

Next ==
  \/ \E p \in Peers, size \in Sizes : Cmd(p, size)
  \/ \E p \in Peers : Data(p)
  \/ \E p \in Peers, c \in {ESP_ACK, ESP_NOACK} : Ack(p, c)
  \/ \E c \in Replies : Reply(c)
  \/ \E f \in Fds : get_fd(f)
  \/ get_msg
  \/ get_status

Spec == Init /\ [][Next]_vars

------------------------------------------------------------------------------
(* The type invariant.                                                      *)
PieceType == [from : Nat, msg : Nat, idx : Nat, of : Nat]

MsgType ==
  [has_cmd : BOOLEAN, totPckts : Nat, curPckts : Nat, data : Seq(PieceType)]

TypeOK ==
  /\ fileTable \in [Fds -> [cur_msg : MsgType, msg_q : Seq(MsgType), status : Statuses]]
  /\ fds \in [fnum : Fds, msg_q : Seq(MsgType), status : Statuses]
  /\ sender \in [Peers -> [msg : Nat, idx : Nat, of : Nat]]
  /\ lost \in [Peers -> Nat]

(* Whenever a message is announced, the slot the next data packet is copied *)
(* to lies inside the buffer kmalloc'ed for the message: the handler's      *)
(* memcpy never runs past it, however packets are lost and interleaved.     *)
InBounds ==
  \A p \in Peers :
    LET m == fileTable[p].cur_msg
    IN m.has_cmd => m.curPckts < m.totPckts /\ Len(m.data) = m.totPckts

(* Piece a left its sender before piece b.                                  *)
Before(a, b) == a.msg < b.msg \/ (a.msg = b.msg /\ a.idx < b.idx)

(* The pieces of a message come from p, in the order p sent them.           *)
Ordered(p, m) ==
  /\ \A i \in 1 .. m.curPckts : m.data[i].from = p
  /\ \A i, j \in 1 .. m.curPckts : i < j => Before(m.data[i], m.data[j])

(* Every piece of message m left before every piece of message n.           *)
AllBefore(m, n) ==
  \A i \in 1 .. m.curPckts, j \in 1 .. n.curPckts : Before(m.data[i], n.data[j])

(* Whatever is lost: an entry holds pieces of its own peer only, no piece   *)
(* twice, in sending order inside a message, and messages newest first on   *)
(* the queue with the one being assembled newer than all of them.           *)
Chronological ==
  \A p \in Peers :
    LET q == fileTable[p].msg_q
        c == fileTable[p].cur_msg
    IN /\ Ordered(p, c)
       /\ \A i \in 1 .. Len(q) : Ordered(p, q[i]) /\ AllBefore(q[i], c)
       /\ \A i, j \in 1 .. Len(q) : i < j => AllBefore(q[j], q[i])

(* m is one message of p, complete and unmixed.                             *)
Intact(p, m) ==
  /\ m.totPckts > 0
  /\ \A i \in 1 .. m.totPckts : m.data[i] = Piece(p, m.data[1].msg, i, m.totPckts)

AllIntact(p) ==
  \A i \in 1 .. Len(fileTable[p].msg_q) : Intact(p, fileTable[p].msg_q[i])

(* One lost packet never corrupts: as long as at most one packet of a peer  *)
(* was lost, every message queued for the program is exactly one of the     *)
(* messages that peer sent, although the handler checks no checksum.        *)
IntactUnderOneLoss == \A p \in Peers : lost[p] <= 1 => AllIntact(p)

(* What a loss costs: between two messages of a peer, all of its messages   *)
(* are on the queue but at most two for each lost packet (the damaged one,  *)
(* and the next one, whose command the handler takes for a repeated one).   *)
LossCost ==
  \A p \in Peers :
    LET n == Len(fileTable[p].msg_q)
    IN /\ n <= sender[p].msg
       /\ sender[p].idx = 0 => sender[p].msg <= n + 2 * lost[p]

(* The copy a program holds stays a valid view of the table it was copied   *)
(* from: the messages it still has to pop are the oldest ones of the entry, *)
(* in the entry's order, whatever the handler pushed meanwhile.             *)
SnapshotValid ==
  LET q == fileTable[fds.fnum].msg_q
  IN \E k \in 0 .. Len(q) : fds.msg_q = SubSeq(q, k + 1, Len(q))
==============================================================================
