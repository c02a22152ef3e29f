--------------------------- MODULE FileTable_proofs ---------------------------
(***************************************************************************)
(* Proofs about FileTable, for every number of peers, every packet size    *)
(* and every bound: the invariants of the runs, and, as long as at most    *)
(* one packet of each peer is lost and no message is empty, that it        *)
(* implements Mailbox.                                                     *)
(***************************************************************************)
EXTENDS FileTableMailbox, SequenceTheorems, TLAPS

(* What pushing on the front of a queue does (Q_push). *)
LEMMA Push ==
  ASSUME NEW S, NEW m \in S, NEW q \in Seq(S)
  PROVE  /\ <<m>> \o q \in Seq(S)
         /\ Len(<<m>> \o q) = Len(q) + 1
         /\ (<<m>> \o q)[1] = m
         /\ \A i \in 2 .. Len(q) + 1 : (<<m>> \o q)[i] = q[i - 1]
<1>1. <<m>> \in Seq(S) /\ Len(<<m>>) = 1 /\ <<m>>[1] = m
  OBVIOUS
<1> QED
  BY <1>1, ConcatProperties

(* A message that has data needs at least one packet. *)
LEMMA NPcktsPositive ==
  ASSUME NEW s \in Nat \ {0}
  PROVE  NPckts(s) \in Nat \ {0}
<1>1. s % DATA_NBYTES \in Nat /\ s \div DATA_NBYTES \in Nat
      /\ s = (DATA_NBYTES * (s \div DATA_NBYTES)) + (s % DATA_NBYTES)
  BY FileTableAssumption
<1>2. CASE s % DATA_NBYTES > 0
  BY <1>1, <1>2 DEF NPckts
<1>3. CASE s % DATA_NBYTES = 0
  <2>1. s \div DATA_NBYTES # 0
    BY <1>1, <1>3, FileTableAssumption
  <2> QED
    BY <2>1, <1>1, <1>3 DEF NPckts
<1> QED
  BY <1>1, <1>2, <1>3

LEMMA NPcktsNat ==
  ASSUME NEW s \in Nat
  PROVE  NPckts(s) \in Nat
<1>1. s % DATA_NBYTES \in Nat /\ s \div DATA_NBYTES \in Nat
  BY FileTableAssumption
<1> QED
  BY <1>1 DEF NPckts

LEMMA BlankType == Blank \in PieceType
BY DEF Blank, Piece, PieceType

LEMMA EmptyMsgType == EmptyMsg \in MsgType
BY DEF EmptyMsg, MsgType

LEMMA BufferType ==
  ASSUME NEW n \in Nat
  PROVE  Buffer(n) \in Seq(PieceType) /\ Len(Buffer(n)) = n
BY BlankType DEF Buffer

LEMMA StoredType ==
  ASSUME NEW m \in MsgType, NEW x \in PieceType
  PROVE  /\ Stored(m, x) \in MsgType
         /\ Stored(m, x).has_cmd = m.has_cmd
         /\ Stored(m, x).totPckts = m.totPckts
         /\ Stored(m, x).curPckts = m.curPckts + 1
         /\ Len(Stored(m, x).data) = Len(m.data)
         /\ \A i \in 1 .. Len(m.data) :
              Stored(m, x).data[i] = IF i = m.curPckts + 1 THEN x ELSE m.data[i]
<1> DEFINE d == [m.data EXCEPT ![m.curPckts + 1] = x]
<1>1. m.data \in Seq(PieceType) /\ m.curPckts \in Nat /\ m.totPckts \in Nat
      /\ m.has_cmd \in BOOLEAN
  BY DEF MsgType
<1>2. d \in Seq(PieceType) /\ Len(d) = Len(m.data)
      /\ \A i \in 1 .. Len(m.data) :
           d[i] = IF i = m.curPckts + 1 THEN x ELSE m.data[i]
  <2>1. CASE m.curPckts + 1 \in 1 .. Len(m.data)
    BY <2>1, <1>1, ExceptSeq
  <2>2. CASE m.curPckts + 1 \notin 1 .. Len(m.data)
    <3>1. DOMAIN m.data = 1 .. Len(m.data) /\ m.data \in [1 .. Len(m.data) -> PieceType]
      BY <1>1, LenProperties
    <3>2. d = m.data
      BY <3>1, <2>2
    <3> QED
      BY <3>2, <2>2, <1>1
  <2> QED
    BY <2>1, <2>2
<1>3. /\ Stored(m, x).has_cmd = m.has_cmd
      /\ Stored(m, x).totPckts = m.totPckts
      /\ Stored(m, x).curPckts = m.curPckts + 1
      /\ Stored(m, x).data = d
  BY DEF Stored, MsgType
<1> HIDE DEF d
<1>4. Stored(m, x) \in MsgType
  <2>1. Stored(m, x) = [m EXCEPT !.data = d, !.curPckts = @ + 1]
    BY DEF Stored, d
  <2>2. d \in Seq(PieceType) /\ m.curPckts + 1 \in Nat
    BY <1>1, <1>2
  <2> QED
    BY <2>1, <2>2 DEF MsgType
<1> QED
  BY <1>1, <1>2, <1>3, <1>4

------------------------------------------------------------------------------
(* Type correctness. *)

LEMMA PieceInType ==
  ASSUME NEW p \in Nat, NEW k \in Nat, NEW i \in Nat, NEW n \in Nat
  PROVE  Piece(p, k, i, n) \in PieceType
BY DEF Piece, PieceType

LEMMA OutgoingType ==
  ASSUME TypeOK, NEW p \in Peers
  PROVE  Outgoing(p) \in PieceType
<1>1. p \in Nat
  BY FileTableAssumption
<1>2. sender[p].msg \in Nat /\ sender[p].idx \in Nat /\ sender[p].of \in Nat
  BY DEF TypeOK
<1> QED
  BY <1>1, <1>2, PieceInType DEF Outgoing

LEMMA PeersAreFds == Peers \subseteq Fds /\ MAXFILES \in Fds /\ MAXFILES \notin Peers
BY FileTableAssumption DEF Fds

EntryType == [cur_msg : MsgType, msg_q : Seq(MsgType), status : Statuses]

LEMMA SetCurType ==
  ASSUME TypeOK, NEW f \in Fds, NEW m \in MsgType, SetCur(f, m)
  PROVE  fileTable' \in [Fds -> EntryType]
BY DEF TypeOK, EntryType, SetCur

LEMMA RecieveCmdType ==
  ASSUME TypeOK, NEW p \in Peers, NEW size \in Sizes, RecieveCmd(p, size)
  PROVE  fileTable' \in [Fds -> EntryType]
<1>1. p \in Fds
  BY PeersAreFds
<1>2. CASE SeenCmdAlready(p)
  BY <1>1, <1>2, EmptyMsgType, SetCurType DEF SeenCmdAlready
<1>3. CASE AcceptCmd(p, size)
  <2> DEFINE m == [has_cmd |-> TRUE, totPckts |-> NPckts(size),
                   curPckts |-> 0, data |-> Buffer(NPckts(size))]
  <2>1. NPckts(size) \in Nat
    BY FileTableAssumption, NPcktsNat
  <2>2. m \in MsgType
    BY <2>1, BufferType DEF MsgType
  <2>3. SetCur(p, m)
    BY <1>3 DEF AcceptCmd
  <2> QED
    BY <1>1, <2>2, <2>3, SetCurType
<1> QED
  BY <1>2, <1>3 DEF RecieveCmd

LEMMA RecieveDataType ==
  ASSUME TypeOK, NEW p \in Peers, RecieveData(p, Outgoing(p))
  PROVE  fileTable' \in [Fds -> EntryType]
<1> DEFINE m == Stored(fileTable[p].cur_msg, Outgoing(p))
<1>1. p \in Fds
  BY PeersAreFds
<1>2. fileTable[p].cur_msg \in MsgType /\ fileTable[p].msg_q \in Seq(MsgType)
  BY <1>1 DEF TypeOK
<1>3. m \in MsgType
  BY <1>2, OutgoingType, StoredType
<1>4. CASE DropData(p)
  BY <1>1, <1>4, EmptyMsgType, SetCurType DEF DropData
<1>5. CASE StoreData(p, Outgoing(p))
  BY <1>1, <1>3, <1>5, SetCurType DEF StoreData
<1>6. CASE CompleteData(p, Outgoing(p))
  <2>1. <<m>> \o fileTable[p].msg_q \in Seq(MsgType)
    BY <1>2, <1>3, Push
  <2>2. fileTable' = [fileTable EXCEPT ![p].msg_q = <<m>> \o @, ![p].cur_msg = EmptyMsg]
    BY <1>6 DEF CompleteData, add_msg
  <2> HIDE DEF m
  <2> QED
    BY <1>1, <2>1, <2>2, EmptyMsgType DEF TypeOK, EntryType
<1> QED
  BY <1>4, <1>5, <1>6 DEF RecieveData

LEMMA LoseType ==
  ASSUME TypeOK, NEW p \in Peers, Lose(p)
  PROVE  fileTable' \in [Fds -> EntryType] /\ lost' \in [Peers -> Nat]
BY DEF Lose, TypeOK, EntryType

(* The variables keep their types for every value of the constants. *)
THEOREM TypeCorrect == Spec => []TypeOK
<1>1. Init => TypeOK
  BY EmptyMsgType, PeersAreFds, FileTableAssumption DEF Init, TypeOK
<1>2. TypeOK /\ [Next]_vars => TypeOK'
  <2> SUFFICES ASSUME TypeOK, [Next]_vars PROVE TypeOK'
    OBVIOUS
  <2>1. ASSUME NEW p \in Peers, NEW size \in Sizes, Cmd(p, size)
        PROVE  TypeOK'
    <3>1. NPckts(size) \in Nat
      BY FileTableAssumption, NPcktsNat
    <3>2. sender' \in [Peers -> [msg : Nat, idx : Nat, of : Nat]]
      BY <2>1, <3>1 DEF Cmd, StartMsg, TypeOK
    <3>3. fileTable' \in [Fds -> EntryType] /\ lost' \in [Peers -> Nat]
      <4>1. CASE RecieveCmd(p, size) /\ UNCHANGED lost
        BY <4>1, RecieveCmdType DEF TypeOK
      <4>2. CASE Lose(p)
        BY <4>2, LoseType
      <4> QED
        BY <2>1, <4>1, <4>2 DEF Cmd
    <3> QED
      BY <2>1, <3>2, <3>3 DEF Cmd, TypeOK, EntryType
  <2>2. ASSUME NEW p \in Peers, Data(p)
        PROVE  TypeOK'
    <3>1. sender' \in [Peers -> [msg : Nat, idx : Nat, of : Nat]]
      <4> DEFINE i == IF sender[p].idx = sender[p].of THEN 0 ELSE sender[p].idx + 1
      <4>1. i \in Nat
        BY DEF TypeOK
      <4>2. sender' = [sender EXCEPT ![p].idx = i]
        BY <2>2 DEF Data, NextData, TypeOK
      <4> HIDE DEF i
      <4> QED
        BY <4>1, <4>2 DEF TypeOK
    <3>2. fileTable' \in [Fds -> EntryType] /\ lost' \in [Peers -> Nat]
      <4>1. CASE RecieveData(p, Outgoing(p)) /\ UNCHANGED lost
        BY <4>1, RecieveDataType DEF TypeOK
      <4>2. CASE Lose(p)
        BY <4>2, LoseType
      <4> QED
        BY <2>2, <4>1, <4>2 DEF Data
    <3> QED
      BY <2>2, <3>1, <3>2 DEF Data, TypeOK, EntryType
  <2>3. ASSUME NEW p \in Peers, NEW c \in {ESP_ACK, ESP_NOACK}, Ack(p, c)
        PROVE  TypeOK'
    BY <2>3, FileTableAssumption DEF Ack, RecieveAck, TypeOK
  <2>4. ASSUME NEW c \in Replies, Reply(c)
        PROVE  TypeOK'
    BY <2>4, FileTableAssumption DEF Reply, RecieveReply, TypeOK
  <2>5. ASSUME NEW f \in Fds, get_fd(f)
        PROVE  TypeOK'
    BY <2>5 DEF get_fd, TypeOK
  <2>6. CASE get_msg
    <3>1. Tail(fds.msg_q) \in Seq(MsgType)
      BY <2>6, HeadTailProperties DEF get_msg, TypeOK
    <3> QED
      BY <2>6, <3>1 DEF get_msg, TypeOK
  <2>7. CASE get_status
    BY <2>7, FileTableAssumption DEF get_status, TypeOK
  <2>8. CASE UNCHANGED vars
    BY <2>8 DEF vars, TypeOK
  <2> QED
    BY <2>1, <2>2, <2>3, <2>4, <2>5, <2>6, <2>7, <2>8 DEF Next
<1> QED
  BY <1>1, <1>2, PTL DEF Spec

------------------------------------------------------------------------------
(* What a step does to one peer's entry.  The invariants below are all      *)
(* conjunctions over the peers, so it is enough to know how one peer's      *)
(* cur_msg, msg_q, sender and lost change together.                         *)

CurOf(p)   == fileTable[p].cur_msg
QueueOf(p) == fileTable[p].msg_q

Untouched(p) ==
  /\ CurOf(p)' = CurOf(p) /\ QueueOf(p)' = QueueOf(p)
  /\ sender'[p] = sender[p] /\ lost'[p] = lost[p]

LossAt(p) ==
  CurOf(p)' = CurOf(p) /\ QueueOf(p)' = QueueOf(p) /\ lost'[p] = lost[p] + 1

ResetAt(p) ==
  CurOf(p)' = EmptyMsg /\ QueueOf(p)' = QueueOf(p) /\ lost'[p] = lost[p]

Announced(size) ==
  [has_cmd |-> TRUE, totPckts |-> NPckts(size), curPckts |-> 0,
   data |-> Buffer(NPckts(size))]

(* The message once p's outgoing packet is stored in it. *)
Filled(p) == Stored(CurOf(p), Outgoing(p))

CmdAt(p, size) ==
  /\ StartMsg(p, size)
  /\ \/ LossAt(p)
     \/ CurOf(p).has_cmd /\ ResetAt(p)
     \/ /\ ~ CurOf(p).has_cmd
        /\ CurOf(p)' = Announced(size)
        /\ QueueOf(p)' = QueueOf(p) /\ lost'[p] = lost[p]

DataAt(p) ==
  /\ NextData(p)
  /\ \/ LossAt(p)
     \/ ~ CurOf(p).has_cmd /\ ResetAt(p)
     \/ /\ CurOf(p).has_cmd
        /\ Filled(p).curPckts # Filled(p).totPckts
        /\ CurOf(p)' = Filled(p)
        /\ QueueOf(p)' = QueueOf(p) /\ lost'[p] = lost[p]
     \/ /\ CurOf(p).has_cmd
        /\ Filled(p).curPckts = Filled(p).totPckts
        /\ CurOf(p)' = EmptyMsg
        /\ QueueOf(p)' = <<Filled(p)>> \o QueueOf(p)
        /\ lost'[p] = lost[p]

LEMMA SetCurEffect ==
  ASSUME TypeOK, NEW f \in Fds, NEW m, SetCur(f, m), NEW p \in Fds
  PROVE  /\ QueueOf(p)' = QueueOf(p)
         /\ CurOf(p)' = IF p = f THEN m ELSE CurOf(p)
BY DEF TypeOK, SetCur, QueueOf, CurOf

LEMMA CmdEffect ==
  ASSUME TypeOK, NEW r \in Peers, NEW size \in Sizes, Cmd(r, size), NEW p \in Peers
  PROVE  IF p = r THEN CmdAt(p, size) ELSE Untouched(p)
<1>1. r \in Fds /\ p \in Fds
  BY PeersAreFds
<1>2. StartMsg(r, size) /\ (p # r => sender'[p] = sender[p])
  BY DEF Cmd, StartMsg, TypeOK
<1>3. CASE Lose(r)
  BY <1>2, <1>3 DEF Lose, TypeOK, CmdAt, Untouched, LossAt, CurOf, QueueOf
<1>4. CASE SeenCmdAlready(r) /\ UNCHANGED lost
  <2>1. SetCur(r, EmptyMsg) /\ CurOf(r).has_cmd
    BY <1>4 DEF SeenCmdAlready, CurOf
  <2> QED
    BY <1>1, <1>2, <1>4, <2>1, SetCurEffect DEF CmdAt, Untouched, ResetAt
<1>5. CASE AcceptCmd(r, size) /\ UNCHANGED lost
  <2>1. SetCur(r, Announced(size)) /\ ~ CurOf(r).has_cmd
    BY <1>5 DEF AcceptCmd, CurOf, Announced
  <2> QED
    BY <1>1, <1>2, <1>5, <2>1, SetCurEffect DEF CmdAt, Untouched
<1> QED
  BY <1>3, <1>4, <1>5 DEF Cmd, RecieveCmd

LEMMA DataEffect ==
  ASSUME TypeOK, NEW r \in Peers, Data(r), NEW p \in Peers
  PROVE  IF p = r THEN DataAt(p) ELSE Untouched(p)
<1>1. r \in Fds /\ p \in Fds
  BY PeersAreFds
<1>2. NextData(r) /\ (p # r => sender'[p] = sender[p])
  BY DEF Data, NextData, TypeOK
<1>3. CASE Lose(r)
  BY <1>2, <1>3 DEF Lose, TypeOK, DataAt, Untouched, LossAt, CurOf, QueueOf
<1>4. CASE DropData(r) /\ UNCHANGED lost
  <2>1. SetCur(r, EmptyMsg) /\ ~ CurOf(r).has_cmd
    BY <1>4 DEF DropData, CurOf
  <2> QED
    BY <1>1, <1>2, <1>4, <2>1, SetCurEffect DEF DataAt, Untouched, ResetAt
<1>5. CASE StoreData(r, Outgoing(r)) /\ UNCHANGED lost
  <2>1. SetCur(r, Filled(r)) /\ CurOf(r).has_cmd
        /\ Filled(r).curPckts # Filled(r).totPckts
    BY <1>5 DEF StoreData, CurOf, Filled
  <2> QED
    BY <1>1, <1>2, <1>5, <2>1, SetCurEffect DEF DataAt, Untouched
<1>6. CASE CompleteData(r, Outgoing(r)) /\ UNCHANGED lost
  <2>1. CurOf(r).has_cmd /\ Filled(r).curPckts = Filled(r).totPckts
    BY <1>6 DEF CompleteData, CurOf, Filled
  <2>2. add_msg(r, Filled(r))
    BY <1>6 DEF CompleteData, CurOf, Filled
  <2>3. /\ CurOf(p)' = IF p = r THEN EmptyMsg ELSE CurOf(p)
        /\ QueueOf(p)' = IF p = r THEN <<Filled(r)>> \o QueueOf(r) ELSE QueueOf(p)
    BY <2>2, <1>1 DEF add_msg, TypeOK, CurOf, QueueOf
  <2> QED
    BY <1>1, <1>2, <1>6, <2>1, <2>3 DEF DataAt, Untouched
<1> QED
  BY <1>3, <1>4, <1>5, <1>6 DEF Data, RecieveData

LEMMA StepOfPeer ==
  ASSUME TypeOK, [Next]_vars, NEW p \in Peers
  PROVE  Untouched(p) \/ (\E size \in Sizes : CmdAt(p, size)) \/ DataAt(p)
<1>1. p \in Fds /\ p # MAXFILES /\ MAXFILES \in Fds
  BY PeersAreFds
<1>2. ASSUME NEW r \in Peers, NEW size \in Sizes, Cmd(r, size)
      PROVE  Untouched(p) \/ CmdAt(p, size)
  BY <1>2, CmdEffect
<1>3. ASSUME NEW r \in Peers, Data(r)
      PROVE  Untouched(p) \/ DataAt(p)
  BY <1>3, DataEffect
<1>4. ASSUME NEW r \in Peers, NEW c \in {ESP_ACK, ESP_NOACK}, Ack(r, c)
      PROVE  Untouched(p)
  BY <1>4, <1>1, PeersAreFds DEF Ack, RecieveAck, TypeOK, Untouched, CurOf, QueueOf
<1>5. ASSUME NEW c \in Replies, Reply(c)
      PROVE  Untouched(p)
  BY <1>5, <1>1 DEF Reply, RecieveReply, TypeOK, Untouched, CurOf, QueueOf
<1>6. CASE (\E f \in Fds : get_fd(f)) \/ get_msg \/ get_status \/ UNCHANGED vars
  BY <1>6 DEF get_fd, get_msg, get_status, vars, Untouched, CurOf, QueueOf
<1> QED
  BY <1>2, <1>3, <1>4, <1>5, <1>6 DEF Next

------------------------------------------------------------------------------
(* The buffer bound.  It needs messages that are not empty: the handler     *)
(* takes the command of an empty one for the start of a message.            *)

BoundsAt(p) ==
  /\ CurOf(p).has_cmd => /\ CurOf(p).curPckts < CurOf(p).totPckts
                         /\ Len(CurOf(p).data) = CurOf(p).totPckts
  /\ ~ CurOf(p).has_cmd => CurOf(p).curPckts = 0
  /\ sender[p].idx <= sender[p].of

LEMMA PeerTypes ==
  ASSUME TypeOK, NEW p \in Peers
  PROVE  /\ CurOf(p) \in MsgType /\ QueueOf(p) \in Seq(MsgType)
         /\ CurOf(p).totPckts \in Nat /\ CurOf(p).curPckts \in Nat
         /\ CurOf(p).has_cmd \in BOOLEAN
         /\ CurOf(p).data \in Seq(PieceType)
         /\ Len(CurOf(p).data) \in Nat /\ Len(QueueOf(p)) \in Nat
         /\ sender[p].msg \in Nat /\ sender[p].idx \in Nat /\ sender[p].of \in Nat
         /\ lost[p] \in Nat
<1>1. CurOf(p) \in MsgType /\ QueueOf(p) \in Seq(MsgType)
  BY PeersAreFds DEF TypeOK, CurOf, QueueOf
<1>2. CurOf(p).data \in Seq(PieceType)
  BY <1>1 DEF MsgType
<1>3. Len(CurOf(p).data) \in Nat /\ Len(QueueOf(p)) \in Nat
  BY <1>1, <1>2
<1> QED
  BY <1>1, <1>2, <1>3 DEF TypeOK, MsgType

(* The fields of the message once the outgoing packet is stored. *)
LEMMA FilledFields ==
  ASSUME TypeOK, NEW p \in Peers
  PROVE  /\ Filled(p) \in MsgType
         /\ Filled(p).has_cmd = CurOf(p).has_cmd
         /\ Filled(p).totPckts = CurOf(p).totPckts
         /\ Filled(p).curPckts = CurOf(p).curPckts + 1
         /\ Len(Filled(p).data) = Len(CurOf(p).data)
         /\ \A i \in 1 .. Len(CurOf(p).data) :
              Filled(p).data[i] =
                IF i = CurOf(p).curPckts + 1 THEN Outgoing(p) ELSE CurOf(p).data[i]
BY PeerTypes, OutgoingType, StoredType DEF Filled

(* How the position of the sender moves. *)
LEMMA StartMsgEffect ==
  ASSUME TypeOK, 0 \notin Sizes, NEW p \in Peers, NEW size \in Sizes, StartMsg(p, size)
  PROVE  /\ sender[p].idx = 0
         /\ sender'[p].msg = sender[p].msg + 1
         /\ sender'[p].idx = 1
         /\ sender'[p].of = NPckts(size)
         /\ NPckts(size) \in Nat \ {0}
<1>1. NPckts(size) \in Nat \ {0}
  BY FileTableAssumption, NPcktsPositive
<1> QED
  BY <1>1 DEF StartMsg, TypeOK

LEMMA NextDataEffect ==
  ASSUME TypeOK, NEW p \in Peers, NextData(p)
  PROVE  /\ sender[p].idx # 0
         /\ sender'[p].msg = sender[p].msg
         /\ sender'[p].of = sender[p].of
         /\ sender'[p].idx = IF sender[p].idx = sender[p].of THEN 0 ELSE sender[p].idx + 1
BY DEF NextData, TypeOK

LEMMA AnnouncedFields ==
  ASSUME NEW size \in Nat
  PROVE  /\ Announced(size).has_cmd
         /\ Announced(size).curPckts = 0
         /\ Announced(size).totPckts = NPckts(size)
         /\ Len(Announced(size).data) = NPckts(size)
BY NPcktsNat, BufferType DEF Announced

LEMMA EmptyMsgFields ==
  ~ EmptyMsg.has_cmd /\ EmptyMsg.curPckts = 0 /\ EmptyMsg.totPckts = 0
BY DEF EmptyMsg

LEMMA BoundsInit == Init => \A p \in Peers : BoundsAt(p)
BY PeersAreFds, EmptyMsgFields DEF Init, BoundsAt, CurOf

LEMMA BoundsStep ==
  ASSUME TypeOK, 0 \notin Sizes, [Next]_vars, NEW p \in Peers, BoundsAt(p)
  PROVE  BoundsAt(p)'
<1>1. CASE Untouched(p)
  BY <1>1 DEF Untouched, BoundsAt
<1>2. ASSUME NEW size \in Sizes, CmdAt(p, size)
      PROVE  BoundsAt(p)'
  <2>1. sender'[p].idx <= sender'[p].of
    BY <1>2, StartMsgEffect DEF CmdAt
  <2>2. CASE LossAt(p) \/ ResetAt(p)
    BY <2>1, <2>2, EmptyMsgFields DEF LossAt, ResetAt, BoundsAt
  <2>3. CASE CurOf(p)' = Announced(size)
    <3>1. NPckts(size) \in Nat \ {0} /\ size \in Nat
      BY <1>2, StartMsgEffect, FileTableAssumption DEF CmdAt
    <3> QED
      BY <2>1, <2>3, <3>1, AnnouncedFields DEF BoundsAt
  <2> QED
    BY <1>2, <2>2, <2>3 DEF CmdAt
<1>3. CASE DataAt(p)
  <2>1. sender'[p].idx <= sender'[p].of
    BY <1>3, NextDataEffect, PeerTypes DEF DataAt, BoundsAt
  <2>2. CASE LossAt(p) \/ ResetAt(p)
    BY <2>1, <2>2, EmptyMsgFields DEF LossAt, ResetAt, BoundsAt
  <2>3. CASE CurOf(p)' = EmptyMsg
    BY <2>1, <2>3, EmptyMsgFields DEF BoundsAt
  <2>4. CASE /\ CurOf(p).has_cmd
             /\ Filled(p).curPckts # Filled(p).totPckts
             /\ CurOf(p)' = Filled(p)
    BY <2>1, <2>4, FilledFields, PeerTypes DEF BoundsAt
  <2> QED
    BY <1>3, <2>2, <2>3, <2>4 DEF DataAt
<1> QED
  BY <1>1, <1>2, <1>3, StepOfPeer

(* The memcpy of the handler stays inside the buffer of the message, if no  *)
(* peer sends an empty message.                                             *)
THEOREM BoundsRespected ==
  ASSUME 0 \notin Sizes
  PROVE  Spec => []InBounds
<1> DEFINE Inv == \A p \in Peers : BoundsAt(p)
<1>1. Init => Inv
  BY BoundsInit
<1>2. TypeOK /\ Inv /\ [Next]_vars => Inv'
  BY BoundsStep
<1>3. Inv => InBounds
  BY DEF InBounds, BoundsAt, CurOf
<1> QED
  BY <1>1, <1>2, <1>3, TypeCorrect, PTL DEF Spec

------------------------------------------------------------------------------
(* What a loss costs.  LossCost speaks of a sender between two messages; to *)
(* carry it through a message, CostAt weighs what the announced message can *)
(* still become: with at least as many packets to come as free slots, it    *)
(* will be queued; with fewer, it stays behind and the next command drops   *)
(* it together with the message that command announces.                     *)

Missing(p) == sender[p].msg - Len(QueueOf(p))

ToCome(p) == IF sender[p].idx = 0 THEN 0 ELSE sender[p].of - sender[p].idx + 1

Free(p) == CurOf(p).totPckts - CurOf(p).curPckts

CostAt(p) ==
  /\ CurOf(p).has_cmd => Missing(p) >= 1
  /\ Missing(p) >= 0
  /\ ~ CurOf(p).has_cmd => Missing(p) <= 2 * lost[p]
  /\ CurOf(p).has_cmd =>
       /\ ToCome(p) < Free(p)  => Missing(p) <= 2 * lost[p] - 1
       /\ ToCome(p) >= Free(p) => Missing(p) <= 2 * lost[p] + 1

LEMMA CostTypes ==
  ASSUME TypeOK, NEW p \in Peers
  PROVE  /\ Missing(p) \in Int /\ ToCome(p) \in Int /\ Free(p) \in Int
         /\ lost[p] \in Nat
BY PeerTypes DEF Missing, ToCome, Free

(* Missing and Free only depend on what the entry holds. *)
LEMMA SameEntry ==
  ASSUME TypeOK, NEW p \in Peers, CurOf(p)' = CurOf(p)
  PROVE  Free(p)' = Free(p) /\ (CurOf(p).has_cmd)' = CurOf(p).has_cmd
BY DEF Free

LEMMA SameQueue ==
  ASSUME TypeOK, NEW p \in Peers, NEW d \in Int, QueueOf(p)' = QueueOf(p),
         sender'[p].msg = sender[p].msg + d
  PROVE  Missing(p)' = Missing(p) + d
BY PeerTypes DEF Missing

LEMMA CostStep ==
  ASSUME TypeOK, 0 \notin Sizes, [Next]_vars, NEW p \in Peers, BoundsAt(p), CostAt(p)
  PROVE  CostAt(p)'
<1>1. CASE Untouched(p)
  BY <1>1 DEF Untouched, CostAt, Missing, ToCome, Free
<1>2. ASSUME NEW size \in Sizes, CmdAt(p, size)
      PROVE  CostAt(p)'
  <2>1. /\ sender[p].idx = 0 /\ sender'[p].msg = sender[p].msg + 1
        /\ sender'[p].idx = 1 /\ sender'[p].of = NPckts(size)
        /\ NPckts(size) \in Nat \ {0} /\ size \in Nat
    BY <1>2, StartMsgEffect, FileTableAssumption DEF CmdAt
  <2>2. ToCome(p) = 0 /\ ToCome(p)' = NPckts(size)
    BY <2>1 DEF ToCome
  <2>3. Missing(p)' = Missing(p) + 1
    BY <1>2, <2>1, SameQueue DEF CmdAt, LossAt, ResetAt
  <2>4. CurOf(p).has_cmd => Free(p) > 0
    BY PeerTypes DEF BoundsAt, Free
  <2>5. CASE LossAt(p)
    <3>1. Free(p)' = Free(p) /\ (CurOf(p).has_cmd)' = CurOf(p).has_cmd
          /\ lost'[p] = lost[p] + 1
      BY <2>5, SameEntry DEF LossAt
    <3> QED
      BY <2>1, <2>2, <2>3, <2>4, <3>1, CostTypes DEF CostAt
  <2>6. CASE CurOf(p).has_cmd /\ ResetAt(p)
    <3>1. ~ (CurOf(p).has_cmd)' /\ lost'[p] = lost[p]
      BY <2>6, EmptyMsgFields DEF ResetAt
    <3> QED
      BY <2>1, <2>2, <2>3, <2>4, <2>6, <3>1, CostTypes DEF CostAt
  <2>7. CASE /\ ~ CurOf(p).has_cmd
             /\ CurOf(p)' = Announced(size)
             /\ QueueOf(p)' = QueueOf(p) /\ lost'[p] = lost[p]
    <3>1. (CurOf(p).has_cmd)' /\ Free(p)' = NPckts(size)
      BY <2>1, <2>7, AnnouncedFields DEF Free
    <3> QED
      BY <2>1, <2>2, <2>3, <2>7, <3>1, CostTypes DEF CostAt
  <2> QED
    BY <1>2, <2>5, <2>6, <2>7 DEF CmdAt
<1>3. CASE DataAt(p)
  <2>1. /\ sender[p].idx # 0 /\ sender'[p].msg = sender[p].msg
        /\ sender'[p].of = sender[p].of
        /\ sender'[p].idx = IF sender[p].idx = sender[p].of THEN 0 ELSE sender[p].idx + 1
    BY <1>3, NextDataEffect DEF DataAt
  <2>2. ToCome(p) >= 1 /\ ToCome(p)' = ToCome(p) - 1
    <3>1. sender[p].idx \in Nat /\ sender[p].of \in Nat /\ sender[p].idx <= sender[p].of
      BY PeerTypes DEF BoundsAt
    <3> QED
      BY <2>1, <3>1 DEF ToCome
  <2>3. QueueOf(p)' = QueueOf(p) => Missing(p)' = Missing(p)
    BY <2>1, PeerTypes DEF Missing
  <2>4. CurOf(p).has_cmd => Free(p) > 0
    BY PeerTypes DEF BoundsAt, Free
  <2>5. CASE LossAt(p)
    <3>1. Free(p)' = Free(p) /\ (CurOf(p).has_cmd)' = CurOf(p).has_cmd
          /\ lost'[p] = lost[p] + 1 /\ QueueOf(p)' = QueueOf(p)
      BY <2>5, SameEntry DEF LossAt
    <3> QED
      BY <2>2, <2>3, <2>4, <3>1, CostTypes DEF CostAt
  <2>6. CASE ~ CurOf(p).has_cmd /\ ResetAt(p)
    <3>1. ~ (CurOf(p).has_cmd)' /\ lost'[p] = lost[p] /\ QueueOf(p)' = QueueOf(p)
      BY <2>6, EmptyMsgFields DEF ResetAt
    <3> QED
      BY <2>2, <2>3, <2>6, <3>1, CostTypes DEF CostAt
  <2>7. CASE /\ CurOf(p).has_cmd
             /\ Filled(p).curPckts # Filled(p).totPckts
             /\ CurOf(p)' = Filled(p)
             /\ QueueOf(p)' = QueueOf(p) /\ lost'[p] = lost[p]
    <3>1. (CurOf(p).has_cmd)' /\ Free(p)' = Free(p) - 1
      BY <2>7, FilledFields, PeerTypes DEF Free
    <3> QED
      BY <2>2, <2>3, <2>7, <3>1, CostTypes DEF CostAt
  <2>8. CASE /\ CurOf(p).has_cmd
             /\ Filled(p).curPckts = Filled(p).totPckts
             /\ CurOf(p)' = EmptyMsg
             /\ QueueOf(p)' = <<Filled(p)>> \o QueueOf(p)
             /\ lost'[p] = lost[p]
    <3>1. Len(QueueOf(p)') = Len(QueueOf(p)) + 1
      BY <2>8, FilledFields, PeerTypes, Push
    <3>2. Missing(p)' = Missing(p) - 1
      BY <2>1, <3>1, PeerTypes DEF Missing
    <3>3. Free(p) = 1 /\ ~ (CurOf(p).has_cmd)'
      BY <2>8, FilledFields, PeerTypes, EmptyMsgFields DEF Free
    <3> QED
      BY <2>2, <2>8, <3>2, <3>3, CostTypes DEF CostAt
  <2> QED
    BY <1>3, <2>5, <2>6, <2>7, <2>8 DEF DataAt
<1> QED
  BY <1>1, <1>2, <1>3, StepOfPeer

(* Each lost packet costs the program at most two messages, however many    *)
(* are lost and wherever.                                                   *)
THEOREM LossCostBounded ==
  ASSUME 0 \notin Sizes
  PROVE  Spec => []LossCost
<1> DEFINE Inv == \A p \in Peers : BoundsAt(p) /\ CostAt(p)
<1>1. Init => Inv
  BY BoundsInit, PeersAreFds, EmptyMsgFields
     DEF Init, CostAt, Missing, CurOf, QueueOf
<1>2. TypeOK /\ Inv /\ [Next]_vars => Inv'
  BY BoundsStep, CostStep
<1>3. TypeOK /\ Inv => LossCost
  <2> SUFFICES ASSUME TypeOK, Inv, NEW p \in Peers
               PROVE  LET n == Len(fileTable[p].msg_q)
                      IN /\ n <= sender[p].msg
                         /\ sender[p].idx = 0 => sender[p].msg <= n + 2 * lost[p]
    BY DEF LossCost
  <2>1. /\ Len(QueueOf(p)) <= sender[p].msg
        /\ sender[p].idx = 0 => sender[p].msg <= Len(QueueOf(p)) + 2 * lost[p]
    BY PeerTypes DEF BoundsAt, CostAt, Missing, ToCome, Free
  <2> QED
    BY <2>1 DEF QueueOf
<1> QED
  BY <1>1, <1>2, <1>3, TypeCorrect, PTL DEF Spec

------------------------------------------------------------------------------
(* Order.  Chronological alone is not inductive: that the next packet comes *)
(* after everything stored is a fact about the sender, added by Past.       *)

(* Every piece of m left before the next packet of a sender in state s. *)
Past(s, m) ==
  \A i \in 1 .. m.curPckts :
    \/ m.data[i].msg < s.msg
    \/ m.data[i].msg = s.msg /\ (s.idx # 0 => m.data[i].idx < s.idx)

(* The slots filled are slots of the buffer. *)
Slots(m) == m.curPckts <= Len(m.data)

MsgOK(p, s, m) == Slots(m) /\ Ordered(p, m) /\ Past(s, m)

OrderAt(p) ==
  /\ MsgOK(p, sender[p], CurOf(p))
  /\ \A i \in 1 .. Len(QueueOf(p)) :
       MsgOK(p, sender[p], QueueOf(p)[i]) /\ AllBefore(QueueOf(p)[i], CurOf(p))
  /\ \A i, j \in 1 .. Len(QueueOf(p)) :
       i < j => AllBefore(QueueOf(p)[j], QueueOf(p)[i])

(* A message nothing is stored in is in order, and after any other. *)
LEMMA NothingStored ==
  ASSUME NEW p, NEW m \in MsgType, m.curPckts = 0
  PROVE  /\ \A s : MsgOK(p, s, m)
         /\ \A n \in MsgType : AllBefore(n, m)
<1>1. 1 .. m.curPckts = {} /\ m.data \in Seq(PieceType)
  BY DEF MsgType
<1> QED
  BY <1>1 DEF MsgOK, Slots, Ordered, Past, AllBefore, MsgType

(* What is past stays past as the sender moves on. *)
LEMMA PastPersists ==
  ASSUME TypeOK, NEW p \in Peers, NEW m \in MsgType, MsgOK(p, sender[p], m),
         \/ sender'[p].msg = sender[p].msg + 1
         \/ /\ sender[p].idx # 0 /\ sender'[p].msg = sender[p].msg
            /\ sender'[p].idx \in {0, sender[p].idx + 1}
  PROVE  MsgOK(p, sender'[p], m)
<1>1. Slots(m) /\ Ordered(p, m) /\ Past(sender[p], m)
  BY DEF MsgOK
<1> SUFFICES ASSUME NEW i \in 1 .. m.curPckts
             PROVE  \/ m.data[i].msg < sender'[p].msg
                    \/ /\ m.data[i].msg = sender'[p].msg
                       /\ sender'[p].idx # 0 => m.data[i].idx < sender'[p].idx
  BY <1>1 DEF MsgOK, Past
<1>2. m.data \in Seq(PieceType) /\ m.curPckts \in Nat /\ i \in 1 .. Len(m.data)
  BY <1>1 DEF MsgType, Slots
<1>3. m.data[i] \in PieceType
  BY <1>2, ElementOfSeq
<1>4. m.data[i].msg \in Nat /\ m.data[i].idx \in Nat
  BY <1>3 DEF PieceType
<1>5. sender[p].msg \in Nat /\ sender[p].idx \in Nat
  BY DEF TypeOK
<1> QED
  BY <1>1, <1>4, <1>5 DEF Past

(* Storing the outgoing packet keeps a message in order. *)
LEMMA StoreKeepsOrder ==
  ASSUME TypeOK, NEW p \in Peers, BoundsAt(p), CurOf(p).has_cmd,
         MsgOK(p, sender[p], CurOf(p)), DataAt(p)
  PROVE  /\ MsgOK(p, sender'[p], Filled(p))
         /\ \A n \in MsgType :
              MsgOK(p, sender[p], n) /\ AllBefore(n, CurOf(p)) => AllBefore(n, Filled(p))
<1> DEFINE c == CurOf(p)
           k == CurOf(p).curPckts
           f == Filled(p)
<1>1. /\ c \in MsgType /\ k \in Nat /\ k + 1 <= Len(c.data)
      /\ Len(c.data) \in Nat /\ c.data \in Seq(PieceType)
  BY PeerTypes DEF BoundsAt
<1>2. /\ f.curPckts = k + 1
      /\ Len(f.data) = Len(c.data)
      /\ \A i \in 1 .. k : f.data[i] = c.data[i]
      /\ f.data[k + 1] = Outgoing(p)
  <2>1. \A i \in 1 .. Len(c.data) : f.data[i] = IF i = k + 1 THEN Outgoing(p) ELSE c.data[i]
    BY FilledFields
  <2>2. k + 1 \in 1 .. Len(c.data) /\ \A i \in 1 .. k : i \in 1 .. Len(c.data) /\ i # k + 1
    BY <1>1
  <2>3. f.curPckts = k + 1 /\ Len(f.data) = Len(c.data)
    BY FilledFields
  <2> HIDE DEF c, k, f
  <2> QED
    BY <2>1, <2>2, <2>3
<1>3. /\ Outgoing(p).from = p
      /\ Outgoing(p).msg = sender[p].msg
      /\ Outgoing(p).idx = sender[p].idx
  BY DEF Outgoing, Piece
<1>4. /\ sender[p].msg \in Nat /\ sender[p].idx \in Nat /\ sender[p].idx # 0
      /\ sender'[p].msg = sender[p].msg
      /\ sender'[p].idx \in {0, sender[p].idx + 1}
  BY NextDataEffect, PeerTypes DEF DataAt
<1>5. \A i \in 1 .. k : c.data[i].msg \in Nat /\ c.data[i].idx \in Nat
  <2> SUFFICES ASSUME NEW i \in 1 .. k
               PROVE  c.data[i].msg \in Nat /\ c.data[i].idx \in Nat
    OBVIOUS
  <2>1. c.data[i] \in PieceType
    BY <1>1, ElementOfSeq
  <2> QED
    BY <2>1 DEF PieceType
<1>6. \A i \in 1 .. k : Before(c.data[i], Outgoing(p))
  BY <1>3, <1>4, <1>5 DEF MsgOK, Past, Before
<1>7. Slots(f)
  BY <1>1, <1>2 DEF Slots
<1>8. Ordered(p, f)
  <2>1. \A i \in 1 .. f.curPckts : f.data[i].from = p
    BY <1>1, <1>2, <1>3 DEF MsgOK, Ordered
  <2>2. \A i, j \in 1 .. f.curPckts : i < j => Before(f.data[i], f.data[j])
    <3> SUFFICES ASSUME NEW i \in 1 .. k + 1, NEW j \in 1 .. k + 1, i < j
                 PROVE  Before(f.data[i], f.data[j])
      BY <1>2
    <3>1. i \in 1 .. k /\ f.data[i] = c.data[i]
      BY <1>1, <1>2
    <3>2. CASE j = k + 1
      BY <1>2, <1>6, <3>1, <3>2
    <3>3. CASE j \in 1 .. k
      BY <1>2, <3>1, <3>3 DEF MsgOK, Ordered
    <3>4. j = k + 1 \/ j \in 1 .. k
      <4>1. k \in Nat /\ j \in 1 .. k + 1
        BY <1>1
      <4> HIDE DEF k
      <4> QED
        BY <4>1
    <3> QED
      BY <3>2, <3>3, <3>4
  <2> QED
    BY <2>1, <2>2 DEF Ordered
<1>9. ASSUME NEW i \in 1 .. f.curPckts
      PROVE  \/ f.data[i].msg < sender'[p].msg
             \/ /\ f.data[i].msg = sender'[p].msg
                /\ sender'[p].idx # 0 => f.data[i].idx < sender'[p].idx
  <2>1. CASE i = k + 1
    BY <1>2, <1>3, <1>4, <2>1
  <2>2. CASE i \in 1 .. k
    BY <1>2, <1>4, <1>5, <2>2 DEF MsgOK, Past
  <2> QED
    BY <1>1, <1>2, <2>1, <2>2
<1>10. ASSUME NEW n \in MsgType, MsgOK(p, sender[p], n), AllBefore(n, c)
       PROVE  AllBefore(n, f)
  <2> SUFFICES ASSUME NEW i \in 1 .. n.curPckts, NEW j \in 1 .. k + 1
               PROVE  Before(n.data[i], f.data[j])
    BY <1>2 DEF AllBefore
  <2>1. n.data[i] \in PieceType
    BY <1>10, ElementOfSeq DEF MsgOK, Slots, MsgType
  <2>2. CASE j = k + 1
    <3>1. n.data[i].msg \in Nat /\ n.data[i].idx \in Nat
      BY <2>1 DEF PieceType
    <3>2. Before(n.data[i], Outgoing(p))
      BY <1>3, <1>4, <1>10, <3>1 DEF MsgOK, Past, Before
    <3> QED
      BY <1>2, <2>2, <3>2
  <2>3. CASE j \in 1 .. k
    BY <1>2, <1>10, <2>3 DEF AllBefore
  <2> QED
    BY <1>1, <2>2, <2>3
<1> QED
  BY <1>7, <1>8, <1>9, <1>10 DEF MsgOK, Past

LEMMA OrderStep ==
  ASSUME TypeOK, 0 \notin Sizes, [Next]_vars, NEW p \in Peers, BoundsAt(p), OrderAt(p)
  PROVE  OrderAt(p)'
<1> DEFINE c == CurOf(p)
           q == QueueOf(p)
<1>1. /\ c \in MsgType /\ q \in Seq(MsgType) /\ Len(q) \in Nat
      /\ \A i \in 1 .. Len(q) : q[i] \in MsgType
  BY PeerTypes, ElementOfSeq
<1>2. CASE Untouched(p)
  BY <1>2 DEF Untouched, OrderAt, MsgOK, Slots, Ordered, Past, AllBefore
<1>3. ASSUME \/ sender'[p].msg = sender[p].msg + 1
             \/ /\ sender[p].idx # 0 /\ sender'[p].msg = sender[p].msg
                /\ sender'[p].idx \in {0, sender[p].idx + 1},
             q' = q,
             \/ c' = c
             \/ c' \in MsgType /\ c'.curPckts = 0
      PROVE  OrderAt(p)'
  <2>1. \A i \in 1 .. Len(q) : MsgOK(p, sender'[p], q[i])
    BY <1>1, <1>3, PastPersists DEF OrderAt
  <2>2. /\ MsgOK(p, sender'[p], c')
        /\ \A i \in 1 .. Len(q) : AllBefore(q[i], c')
    <3>1. CASE c' = c
      BY <1>1, <1>3, <3>1, PastPersists DEF OrderAt
    <3>2. CASE c' \in MsgType /\ c'.curPckts = 0
      BY <1>1, <3>2, NothingStored
    <3> QED
      BY <1>3, <3>1, <3>2
  <2> QED
    BY <1>3, <2>1, <2>2 DEF OrderAt, MsgOK, Slots, Ordered, Past, AllBefore
<1>4. ASSUME NEW size \in Sizes, CmdAt(p, size)
      PROVE  OrderAt(p)'
  <2>1. sender'[p].msg = sender[p].msg + 1
    BY <1>4, StartMsgEffect DEF CmdAt
  <2>2. Announced(size) \in MsgType /\ Announced(size).curPckts = 0
    <3>1. size \in Nat /\ NPckts(size) \in Nat
      BY FileTableAssumption, NPcktsNat
    <3> QED
      BY <3>1, BufferType DEF Announced, MsgType
  <2> QED
    BY <1>3, <1>4, <2>1, <2>2, EmptyMsgType, EmptyMsgFields DEF CmdAt, LossAt, ResetAt
<1>5. CASE DataAt(p)
  <2>1. /\ sender[p].idx # 0 /\ sender'[p].msg = sender[p].msg
        /\ sender'[p].idx \in {0, sender[p].idx + 1}
    BY <1>5, NextDataEffect DEF DataAt
  <2>2. CASE LossAt(p) \/ ResetAt(p)
    BY <1>3, <2>1, <2>2, EmptyMsgType, EmptyMsgFields DEF LossAt, ResetAt
  <2>3. ASSUME c.has_cmd
        PROVE  /\ MsgOK(p, sender'[p], Filled(p))
               /\ \A i \in 1 .. Len(q) : MsgOK(p, sender'[p], q[i])
               /\ \A i \in 1 .. Len(q) : AllBefore(q[i], Filled(p))
    BY <1>1, <1>5, <2>1, <2>3, StoreKeepsOrder, PastPersists DEF OrderAt
  <2>4. CASE c.has_cmd /\ c' = Filled(p) /\ q' = q
    BY <2>3, <2>4 DEF OrderAt, MsgOK, Slots, Ordered, Past, AllBefore
  <2>5. CASE c.has_cmd /\ c' = EmptyMsg /\ q' = <<Filled(p)>> \o q
    <3> DEFINE r == <<Filled(p)>> \o q
    <3>1. /\ Filled(p) \in MsgType
          /\ r \in Seq(MsgType) /\ Len(r) = Len(q) + 1 /\ r[1] = Filled(p)
          /\ \A i \in 2 .. Len(q) + 1 : r[i] = q[i - 1]
      BY <1>1, FilledFields, Push
    <3>2. \A i \in 2 .. Len(q) + 1 : i - 1 \in 1 .. Len(q)
      BY <1>1
    <3>3. \A i \in 1 .. Len(r) : i = 1 \/ i \in 2 .. Len(q) + 1
      BY <1>1, <3>1
    <3>4. \A i \in 1 .. Len(r) : r[i] \in MsgType /\ MsgOK(p, sender'[p], r[i])
      BY <1>1, <2>3, <2>5, <3>1, <3>2, <3>3
    <3>5. MsgOK(p, sender'[p], EmptyMsg) /\ \A n \in MsgType : AllBefore(n, EmptyMsg)
      BY NothingStored, EmptyMsgType, EmptyMsgFields
    <3>6. ASSUME NEW i \in 1 .. Len(r), NEW j \in 1 .. Len(r), i < j
          PROVE  AllBefore(r[j], r[i])
      <4>1. j \in 2 .. Len(q) + 1 /\ j - 1 \in 1 .. Len(q) /\ r[j] = q[j - 1]
        BY <1>1, <3>1, <3>6
      <4>2. CASE i = 1
        BY <2>3, <2>5, <3>1, <4>1, <4>2
      <4>3. CASE i \in 2 .. Len(q) + 1
        <5>1. r[i] = q[i - 1] /\ i - 1 \in 1 .. Len(q) /\ i - 1 < j - 1
          BY <1>1, <3>1, <3>6, <4>3, <4>1
        <5> QED
          BY <4>1, <5>1 DEF OrderAt
      <4> QED
        BY <3>3, <4>2, <4>3
    <3>7. q' = r /\ c' = EmptyMsg
      BY <2>5
    <3> HIDE DEF r
    <3> QED
      BY <3>4, <3>5, <3>6, <3>7 DEF OrderAt, MsgOK, Slots, Ordered, Past, AllBefore
  <2> QED
    BY <1>5, <2>2, <2>4, <2>5 DEF DataAt
<1> QED
  BY <1>2, <1>4, <1>5, StepOfPeer

(* An entry holds its own peer's packets only, none twice, in sending order *)
(* inside a message and newest message first on the queue.                  *)
THEOREM OrderPreserved ==
  ASSUME 0 \notin Sizes
  PROVE  Spec => []Chronological
<1> DEFINE Inv == \A p \in Peers : BoundsAt(p) /\ OrderAt(p)
<1>1. Init => Inv
  <2> SUFFICES ASSUME Init, NEW p \in Peers PROVE OrderAt(p)
    BY BoundsInit
  <2>1. CurOf(p) = EmptyMsg /\ QueueOf(p) = <<>>
    BY PeersAreFds DEF Init, CurOf, QueueOf
  <2> QED
    BY <2>1, NothingStored, EmptyMsgType, EmptyMsgFields DEF OrderAt
<1>2. TypeOK /\ Inv /\ [Next]_vars => Inv'
  BY BoundsStep, OrderStep
<1>3. Inv => Chronological
  BY DEF Chronological, OrderAt, MsgOK, CurOf, QueueOf
<1> QED
  BY <1>1, <1>2, <1>3, TypeCorrect, PTL DEF Spec

------------------------------------------------------------------------------
(* Intact messages.  With no packet of p lost, the message being assembled  *)
(* is exactly what p has sent of its message; after one loss it is that, or *)
(* the message's command was lost (or taken for a repeated one) and there   *)
(* is nothing to assemble, or the assembled message is one packet behind    *)
(* and can no longer be completed by its own sender's packets.              *)

Prefix(p, k) ==
  /\ CurOf(p).has_cmd
  /\ CurOf(p).totPckts = sender[p].of
  /\ CurOf(p).curPckts = k
  /\ \A i \in 1 .. k : CurOf(p).data[i] = Piece(p, sender[p].msg, i, sender[p].of)

InSync(p) ==
  IF sender[p].idx = 0 THEN ~ CurOf(p).has_cmd ELSE Prefix(p, sender[p].idx - 1)

Dropped(p) == sender[p].idx # 0 /\ ~ CurOf(p).has_cmd

Behind(p) ==
  /\ CurOf(p).has_cmd
  /\ sender[p].idx # 1
  /\ sender[p].idx # 0 => /\ CurOf(p).totPckts = sender[p].of
                         /\ CurOf(p).curPckts + 2 = sender[p].idx

IntactAt(p) ==
  lost[p] <= 1 =>
    /\ AllIntact(p)
    /\ InSync(p) \/ (lost[p] = 1 /\ (Dropped(p) \/ Behind(p)))

LEMMA IntactQueue ==
  ASSUME TypeOK, NEW p \in Peers, AllIntact(p), QueueOf(p)' = QueueOf(p)
  PROVE  AllIntact(p)'
BY DEF AllIntact, QueueOf, Intact

LEMMA IntactStep ==
  ASSUME TypeOK, 0 \notin Sizes, [Next]_vars, NEW p \in Peers, BoundsAt(p), IntactAt(p)
  PROVE  IntactAt(p)'
<1>1. CASE Untouched(p)
  <2>1. AllIntact(p) => AllIntact(p)'
    BY <1>1, IntactQueue DEF Untouched
  <2> QED
    BY <1>1, <2>1 DEF Untouched, IntactAt, InSync, Prefix, Dropped, Behind
<1>2. ASSUME lost'[p] <= 1
      PROVE  /\ lost[p] \in Nat
             /\ LossAt(p) => lost[p] = 0 /\ lost'[p] = 1
             /\ lost'[p] = lost[p] => lost[p] <= 1
  BY <1>2, PeerTypes DEF LossAt
<1>3. ASSUME NEW size \in Sizes, CmdAt(p, size), lost'[p] <= 1
      PROVE  IntactAt(p)'
  <2>1. /\ sender[p].idx = 0 /\ sender'[p].idx = 1 /\ sender'[p].of = NPckts(size)
        /\ size \in Nat
    BY <1>3, StartMsgEffect, FileTableAssumption DEF CmdAt
  <2>2. AllIntact(p)' /\ lost[p] <= 1
    BY <1>2, <1>3, IntactQueue DEF CmdAt, LossAt, ResetAt, IntactAt
  <2>3. CASE LossAt(p)
    BY <1>2, <1>3, <2>1, <2>2, <2>3 DEF LossAt, IntactAt, InSync, Dropped
  <2>4. CASE CurOf(p).has_cmd /\ ResetAt(p)
    <3>1. lost[p] = 1
      BY <2>1, <2>2, <2>4 DEF IntactAt, InSync
    <3> QED
      BY <2>1, <2>2, <2>4, <3>1, EmptyMsgFields DEF ResetAt, IntactAt, Dropped
  <2>5. CASE CurOf(p)' = Announced(size)
    <3>1. InSync(p)'
      BY <2>1, <2>5, AnnouncedFields DEF InSync, Prefix
    <3> QED
      BY <2>2, <3>1 DEF IntactAt
  <2> QED
    BY <1>3, <2>3, <2>4, <2>5 DEF CmdAt
<1>4. ASSUME DataAt(p), lost'[p] <= 1
      PROVE  IntactAt(p)'
  <2>1. /\ sender[p].idx \in Nat \ {0} /\ sender[p].of \in Nat
        /\ sender[p].idx <= sender[p].of
        /\ sender'[p].msg = sender[p].msg /\ sender'[p].of = sender[p].of
        /\ sender'[p].idx = IF sender[p].idx = sender[p].of THEN 0 ELSE sender[p].idx + 1
    BY <1>4, NextDataEffect, PeerTypes DEF DataAt, BoundsAt
  <2>2. lost[p] <= 1 /\ AllIntact(p)
    BY <1>2, <1>4 DEF DataAt, LossAt, ResetAt, IntactAt
  <2>3. CASE LossAt(p)
    <3>1. lost[p] = 0 /\ lost'[p] = 1 /\ CurOf(p)' = CurOf(p) /\ AllIntact(p)'
      BY <1>2, <1>4, <2>2, <2>3, IntactQueue DEF LossAt
    <3>2. Prefix(p, sender[p].idx - 1)
      BY <2>1, <2>2, <3>1 DEF IntactAt, InSync
    <3>3. Behind(p)'
      BY <2>1, <3>1, <3>2 DEF Prefix, Behind
    <3> QED
      BY <3>1, <3>3 DEF IntactAt
  <2>4. CASE ~ CurOf(p).has_cmd /\ ResetAt(p)
    <3>1. lost[p] = 1 /\ lost'[p] = 1 /\ ~ (CurOf(p).has_cmd)' /\ AllIntact(p)'
      BY <2>1, <2>2, <2>4, IntactQueue, EmptyMsgFields
         DEF ResetAt, IntactAt, InSync, Prefix
    <3> QED
      BY <2>1, <3>1 DEF IntactAt, InSync, Dropped
  <2>5. CASE /\ CurOf(p).has_cmd
             /\ Filled(p).curPckts # Filled(p).totPckts
             /\ CurOf(p)' = Filled(p)
             /\ QueueOf(p)' = QueueOf(p) /\ lost'[p] = lost[p]
    <3>1. AllIntact(p)'
      BY <2>2, <2>5, IntactQueue
    <3>2. /\ (CurOf(p).has_cmd)'
          /\ (CurOf(p).totPckts)' = CurOf(p).totPckts
          /\ (CurOf(p).curPckts)' = CurOf(p).curPckts + 1
          /\ CurOf(p).curPckts + 1 # CurOf(p).totPckts
      BY <2>5, FilledFields
    <3>3. CASE Prefix(p, sender[p].idx - 1)
      <4> DEFINE k == sender[p].idx
      <4>1. CurOf(p).curPckts = k - 1 /\ k < CurOf(p).totPckts
            /\ Len(CurOf(p).data) = CurOf(p).totPckts /\ k # sender[p].of
        BY <2>1, <2>5, <3>2, <3>3, PeerTypes DEF Prefix, BoundsAt
      <4>2. \A i \in 1 .. k : Filled(p).data[i] = Piece(p, sender[p].msg, i, sender[p].of)
        <5> SUFFICES ASSUME NEW i \in 1 .. k
                     PROVE  Filled(p).data[i] = Piece(p, sender[p].msg, i, sender[p].of)
          OBVIOUS
        <5>1. i \in 1 .. Len(CurOf(p).data)
          BY <2>1, <4>1, PeerTypes
        <5>2. Filled(p).data[i] = IF i = k THEN Outgoing(p) ELSE CurOf(p).data[i]
          BY <2>1, <4>1, <5>1, FilledFields
        <5> QED
          BY <2>1, <3>3, <5>2 DEF Prefix, Outgoing
      <4>3. /\ sender'[p].idx = k + 1 /\ k \in Nat
            /\ sender'[p].msg = sender[p].msg /\ sender'[p].of = sender[p].of
            /\ (CurOf(p).totPckts)' = sender[p].of
            /\ (CurOf(p).curPckts)' = k
        BY <2>1, <3>2, <3>3, <4>1 DEF Prefix
      <4>4. \A i \in 1 .. k :
              (CurOf(p).data)'[i] = Piece(p, sender'[p].msg, i, sender'[p].of)
        BY <2>5, <4>2, <4>3
      <4>5. sender'[p].idx # 0 /\ sender'[p].idx - 1 = k
        BY <4>3
      <4>6. InSync(p)'
        BY <3>2, <4>3, <4>4, <4>5 DEF InSync, Prefix
      <4> QED
        BY <3>1, <4>6 DEF IntactAt
    <3>4. CASE lost[p] = 1 /\ Behind(p)
      <4>1. CurOf(p).curPckts \in Nat
        BY PeerTypes
      <4>2. Behind(p)'
        BY <2>1, <3>2, <3>4, <4>1 DEF Behind
      <4> QED
        BY <2>5, <3>1, <3>4, <4>2 DEF IntactAt
    <3> QED
      BY <2>1, <2>2, <2>5, <3>3, <3>4 DEF IntactAt, InSync, Dropped
  <2>6. CASE /\ CurOf(p).has_cmd
             /\ Filled(p).curPckts = Filled(p).totPckts
             /\ CurOf(p)' = EmptyMsg
             /\ QueueOf(p)' = <<Filled(p)>> \o QueueOf(p)
             /\ lost'[p] = lost[p]
    <3> DEFINE f == Filled(p)
               n == sender[p].of
    <3>1. CurOf(p).curPckts + 1 = CurOf(p).totPckts /\ f.totPckts = CurOf(p).totPckts
      BY <2>6, FilledFields
    <3>2. Prefix(p, sender[p].idx - 1)
      <4>1. ~ Behind(p) /\ ~ Dropped(p)
        BY <2>1, <2>6, <3>1, PeerTypes DEF Behind, Dropped
      <4> QED
        BY <2>1, <2>2, <4>1 DEF IntactAt, InSync
    <3>3. f.totPckts = n /\ sender[p].idx = n /\ CurOf(p).curPckts = n - 1
          /\ Len(CurOf(p).data) = n /\ n \in Nat \ {0}
      BY <2>1, <2>6, <3>1, <3>2, PeerTypes DEF Prefix, BoundsAt
    <3>4. \A i \in 1 .. n : f.data[i] = Piece(p, sender[p].msg, i, n)
      <4> SUFFICES ASSUME NEW i \in 1 .. n
                   PROVE  f.data[i] = Piece(p, sender[p].msg, i, n)
        OBVIOUS
      <4>1. f.data[i] = IF i = n THEN Outgoing(p) ELSE CurOf(p).data[i]
        BY <3>3, FilledFields
      <4> QED
        BY <3>2, <3>3, <4>1 DEF Prefix, Outgoing
    <3>5. Intact(p, f)
      <4>1. f.data[1] = Piece(p, sender[p].msg, 1, n)
        BY <3>3, <3>4
      <4>2. f.data[1].msg = sender[p].msg
        BY <4>1 DEF Piece
      <4> HIDE DEF f, n
      <4> QED
        BY <3>3, <3>4, <4>2 DEF Intact
    <3>6. AllIntact(p)'
      <4> DEFINE q == QueueOf(p)
                 r == <<f>> \o q
      <4>1. /\ f \in MsgType /\ q \in Seq(MsgType) /\ Len(q) \in Nat
            /\ Len(r) = Len(q) + 1 /\ r[1] = f
            /\ \A i \in 2 .. Len(q) + 1 : r[i] = q[i - 1]
        BY FilledFields, PeerTypes, Push
      <4>2. \A i \in 1 .. Len(q) : Intact(p, q[i])
        BY <2>2 DEF AllIntact, QueueOf
      <4>3. ASSUME NEW i \in 1 .. Len(r) PROVE Intact(p, r[i])
        <5>1. CASE i = 1
          BY <3>5, <4>1, <5>1
        <5>2. CASE i \in 2 .. Len(q) + 1
          <6>1. i - 1 \in 1 .. Len(q) /\ r[i] = q[i - 1]
            BY <4>1, <5>2
          <6> QED
            BY <4>2, <6>1
        <5> QED
          BY <4>1, <5>1, <5>2
      <4>4. fileTable'[p].msg_q = r
        BY <2>6 DEF QueueOf
      <4> HIDE DEF r
      <4> QED
        BY <4>3, <4>4 DEF AllIntact, Intact
    <3>7. InSync(p)'
      BY <2>1, <2>6, <3>3, EmptyMsgFields DEF InSync
    <3> QED
      BY <3>6, <3>7 DEF IntactAt
  <2> QED
    BY <1>4, <2>3, <2>4, <2>5, <2>6 DEF DataAt
<1> QED
  BY <1>1, <1>3, <1>4, StepOfPeer DEF IntactAt

(* One lost packet of a peer never corrupts a message the program gets from *)
(* it, however many messages the peer sends.                                *)
THEOREM OneLossIsHarmless ==
  ASSUME 0 \notin Sizes
  PROVE  Spec => []IntactUnderOneLoss
<1> DEFINE Inv == \A p \in Peers : BoundsAt(p) /\ IntactAt(p)
<1>1. Init => Inv
  <2> SUFFICES ASSUME Init, NEW p \in Peers PROVE IntactAt(p)
    BY BoundsInit
  <2>1. /\ CurOf(p) = EmptyMsg /\ fileTable[p].msg_q = <<>>
        /\ sender[p].idx = 0
    BY PeersAreFds DEF Init, CurOf
  <2> QED
    BY <2>1, EmptyMsgFields DEF IntactAt, AllIntact, InSync
<1>2. TypeOK /\ Inv /\ [Next]_vars => Inv'
  BY BoundsStep, IntactStep
<1>3. Inv => IntactUnderOneLoss
  BY DEF IntactUnderOneLoss, IntactAt
<1> QED
  BY <1>1, <1>2, <1>3, TypeCorrect, PTL DEF Spec

------------------------------------------------------------------------------
(* The program's copy.  The handler only ever pushes on the front of a      *)
(* queue, so what was a suffix of it stays one.                             *)

LEMMA QueueGrows ==
  ASSUME TypeOK, [Next]_vars, NEW f \in Fds
  PROVE  \/ QueueOf(f)' = QueueOf(f)
         \/ \E m \in MsgType : QueueOf(f)' = <<m>> \o QueueOf(f)
<1>1. CASE f \in Peers
  <2>1. Filled(f) \in MsgType
    BY <1>1, FilledFields
  <2> QED
    BY <1>1, <2>1, StepOfPeer DEF Untouched, CmdAt, DataAt, LossAt, ResetAt
<1>2. CASE f \notin Peers
  <2>1. ASSUME NEW r \in Peers, NEW m, SetCur(r, m)
        PROVE  QueueOf(f)' = QueueOf(f)
    BY <2>1, PeersAreFds, SetCurEffect
  <2>2. ASSUME NEW r \in Peers, NEW size \in Sizes, Cmd(r, size)
        PROVE  QueueOf(f)' = QueueOf(f)
    BY <2>1, <2>2 DEF Cmd, RecieveCmd, SeenCmdAlready, AcceptCmd, Lose, QueueOf
  <2>3. ASSUME NEW r \in Peers, Data(r)
        PROVE  QueueOf(f)' = QueueOf(f)
    <3>1. CASE CompleteData(r, Outgoing(r))
      <4>1. add_msg(r, Stored(fileTable[r].cur_msg, Outgoing(r)))
        BY <3>1 DEF CompleteData
      <4> QED
        BY <4>1, <1>2, PeersAreFds DEF add_msg, TypeOK, QueueOf
    <3>2. CASE DropData(r) \/ StoreData(r, Outgoing(r)) \/ Lose(r)
      BY <2>1, <3>2 DEF DropData, StoreData, Lose, QueueOf
    <3> QED
      BY <2>3, <3>1, <3>2 DEF Data, RecieveData
  <2>4. ASSUME NEW r \in Peers, NEW c \in {ESP_ACK, ESP_NOACK}, Ack(r, c)
        PROVE  QueueOf(f)' = QueueOf(f)
    BY <2>4, PeersAreFds DEF Ack, RecieveAck, TypeOK, QueueOf
  <2>5. ASSUME NEW c \in Replies, Reply(c)
        PROVE  QueueOf(f)' = QueueOf(f)
    BY <2>5, PeersAreFds DEF Reply, RecieveReply, TypeOK, QueueOf
  <2>6. CASE (\E g \in Fds : get_fd(g)) \/ get_msg \/ get_status \/ UNCHANGED vars
    BY <2>6 DEF get_fd, get_msg, get_status, vars, QueueOf
  <2> QED
    BY <2>2, <2>3, <2>4, <2>5, <2>6 DEF Next
<1> QED
  BY <1>1, <1>2

IsSuffix(s, q) == \E k \in 0 .. Len(q) : s = SubSeq(q, k + 1, Len(q))

LEMMA SuffixAfterPush ==
  ASSUME NEW S, NEW m \in S, NEW q \in Seq(S), NEW s, IsSuffix(s, q)
  PROVE  IsSuffix(s, <<m>> \o q)
<1> DEFINE r == <<m>> \o q
<1>1. PICK k \in 0 .. Len(q) : s = SubSeq(q, k + 1, Len(q))
  BY DEF IsSuffix
<1>2. /\ r \in Seq(S) /\ Len(r) = Len(q) + 1 /\ Len(q) \in Nat
      /\ \A i \in 2 .. Len(q) + 1 : r[i] = q[i - 1]
  BY Push
<1> HIDE DEF r
<1>3. /\ \A i \in k + 1 .. Len(q) : q[i] \in S
      /\ \A i \in k + 2 .. Len(q) + 1 : r[i] \in S
  BY <1>2, ElementOfSeq
<1> DEFINE t == SubSeq(r, k + 2, Len(q) + 1)
           u == SubSeq(q, k + 1, Len(q))
<1>4. /\ u \in Seq(S)
      /\ Len(u) = IF k + 1 <= Len(q) THEN Len(q) - (k + 1) + 1 ELSE 0
      /\ \A i \in 1 .. Len(q) - (k + 1) + 1 : u[i] = q[(k + 1) + i - 1]
  BY <1>2, <1>3, SubSeqProperties
<1>5. /\ t \in Seq(S)
      /\ Len(t) = IF k + 2 <= Len(q) + 1 THEN (Len(q) + 1) - (k + 2) + 1 ELSE 0
      /\ \A i \in 1 .. (Len(q) + 1) - (k + 2) + 1 : t[i] = r[(k + 2) + i - 1]
  BY <1>2, <1>3, SubSeqProperties
<1> HIDE DEF t, u
<1>6. Len(t) = Len(u) /\ Len(t) = Len(q) - k
  BY <1>2, <1>4, <1>5
<1>7. \A i \in 1 .. Len(t) : t[i] = u[i]
  <2> SUFFICES ASSUME NEW i \in 1 .. Len(q) - k PROVE t[i] = u[i]
    BY <1>6
  <2>1. t[i] = r[k + i + 1] /\ u[i] = q[k + i]
    BY <1>2, <1>4, <1>5
  <2>2. k + i + 1 \in 2 .. Len(q) + 1 /\ (k + i + 1) - 1 = k + i
    BY <1>2
  <2> QED
    BY <1>2, <2>1, <2>2
<1>8. t = u
  BY <1>4, <1>5, <1>6, <1>7, SeqEqual
<1>9. s = SubSeq(r, (k + 1) + 1, Len(r)) /\ k + 1 \in 0 .. Len(r)
  BY <1>1, <1>2, <1>8 DEF t, u
<1> QED
  BY <1>9 DEF IsSuffix, r

LEMMA SuffixAfterTail ==
  ASSUME NEW S, NEW q \in Seq(S), NEW s, IsSuffix(s, q), s # <<>>
  PROVE  IsSuffix(Tail(s), q)
<1>1. PICK k \in 0 .. Len(q) : s = SubSeq(q, k + 1, Len(q))
  BY DEF IsSuffix
<1>2. Len(q) \in Nat
  OBVIOUS
<1>3. k # Len(q)
  BY <1>1, <1>2, SubSeqEmpty
<1>4. Tail(s) = SubSeq(q, (k + 1) + 1, Len(q))
  BY <1>1, <1>2, <1>3, HeadTailOfSubSeq
<1>5. k + 1 \in 0 .. Len(q)
  BY <1>2, <1>3
<1> QED
  BY <1>4, <1>5 DEF IsSuffix

LEMMA SuffixOfItself ==
  ASSUME NEW S, NEW q \in Seq(S)
  PROVE  IsSuffix(q, q)
BY SubSeqFull DEF IsSuffix

(* The copy of an entry a program works on stays a suffix of the entry.     *)
THEOREM SnapshotStaysValid == Spec => []SnapshotValid
<1> DEFINE Inv == IsSuffix(fds.msg_q, QueueOf(fds.fnum))
<1>1. TypeOK /\ Init => Inv
  <2> SUFFICES ASSUME TypeOK, Init PROVE Inv
    OBVIOUS
  <2>1. fds.msg_q = <<>> /\ QueueOf(fds.fnum) = <<>>
    BY PeersAreFds DEF Init, QueueOf
  <2>2. <<>> \in Seq(MsgType)
    OBVIOUS
  <2>3. IsSuffix(<<>>, <<>>)
    BY <2>2, SuffixOfItself
  <2> QED
    BY <2>1, <2>3
<1>2. TypeOK /\ Inv /\ [Next]_vars => Inv'
  <2> SUFFICES ASSUME TypeOK, Inv, [Next]_vars PROVE Inv'
    OBVIOUS
  <2>1. fds.fnum \in Fds /\ \A f \in Fds : QueueOf(f) \in Seq(MsgType)
    BY DEF TypeOK, QueueOf
  <2>2. CASE fds' = fds
    <3> DEFINE q == QueueOf(fds.fnum)
    <3>1. CASE QueueOf(fds.fnum)' = q
      BY <2>2, <3>1
    <3>2. ASSUME NEW m \in MsgType, q' = <<m>> \o q
          PROVE  IsSuffix(fds.msg_q, q')
      BY <2>1, <3>2, SuffixAfterPush
    <3>3. \A f \in Fds : \/ QueueOf(f)' = QueueOf(f)
                        \/ \E m \in MsgType : QueueOf(f)' = <<m>> \o QueueOf(f)
      BY QueueGrows
    <3>4. QueueOf(fds.fnum)' = fileTable'[fds.fnum].msg_q
      BY <2>2 DEF QueueOf
    <3> QED
      BY <2>1, <2>2, <3>1, <3>2, <3>3, <3>4 DEF QueueOf
  <2>3. ASSUME NEW f \in Fds, get_fd(f)
        PROVE  Inv'
    <3>1. fds'.msg_q = QueueOf(f) /\ QueueOf(fds.fnum)' = QueueOf(f)
      BY <2>3 DEF get_fd, QueueOf
    <3> QED
      BY <2>1, <3>1, SuffixOfItself
  <2>4. CASE get_msg
    <3>1. /\ fds.msg_q # <<>> /\ fds'.msg_q = Tail(fds.msg_q)
          /\ QueueOf(fds.fnum)' = QueueOf(fds.fnum)
      BY <2>4 DEF get_msg, TypeOK, QueueOf
    <3> QED
      BY <2>1, <3>1, SuffixAfterTail
  <2>5. CASE get_status
    BY <2>5 DEF get_status, TypeOK, QueueOf
  <2>6. (\E f \in Fds : get_fd(f)) \/ get_msg \/ get_status \/ fds' = fds
    BY DEF Next, Cmd, Data, Ack, Reply, vars
  <2> QED
    BY <2>2, <2>3, <2>4, <2>5, <2>6
<1>3. Inv => SnapshotValid
  BY DEF IsSuffix, SnapshotValid, QueueOf
<1> QED
  BY <1>1, <1>2, <1>3, TypeCorrect, PTL DEF Spec

------------------------------------------------------------------------------
(* What the refinement mapping does to queues.                              *)

IdRange(p) == {Id(p, m) : m \in MsgType}

LEMMA IdsType ==
  ASSUME NEW p, NEW q \in Seq(MsgType)
  PROVE  /\ Ids(p, q) \in Seq(IdRange(p))
         /\ Len(Ids(p, q)) = Len(q)
         /\ \A n \in 1 .. Len(q) : Ids(p, q)[n] = Id(p, q[n])
<1>1. Len(q) \in Nat /\ \A n \in 1 .. Len(q) : q[n] \in MsgType
  BY ElementOfSeq
<1>2. \A n \in 1 .. Len(q) : Id(p, q[n]) \in IdRange(p)
  BY <1>1 DEF IdRange
<1> QED
  BY <1>1, <1>2 DEF Ids

LEMMA IdsEmpty ==
  ASSUME NEW p, NEW q \in Seq(MsgType)
  PROVE  Ids(p, q) = <<>> <=> q = <<>>
BY IdsType, EmptySeq

LEMMA IdsTail ==
  ASSUME NEW p, NEW q \in Seq(MsgType), q # <<>>
  PROVE  Ids(p, Tail(q)) = Tail(Ids(p, q))
<1> DEFINE s == Ids(p, q)
           t == Ids(p, Tail(q))
<1>1. /\ Tail(q) \in Seq(MsgType) /\ Len(Tail(q)) = Len(q) - 1
      /\ \A n \in 1 .. Len(Tail(q)) : Tail(q)[n] = q[n + 1]
      /\ Len(q) \in Nat
  BY HeadTailProperties
<1>2. /\ s \in Seq(IdRange(p)) /\ Len(s) = Len(q) /\ s # <<>>
      /\ \A n \in 1 .. Len(q) : s[n] = Id(p, q[n])
  BY IdsType, IdsEmpty
<1>3. /\ t \in Seq(IdRange(p)) /\ Len(t) = Len(q) - 1
      /\ \A n \in 1 .. Len(q) - 1 : t[n] = Id(p, q[n + 1])
  <2>1. /\ t \in Seq(IdRange(p)) /\ Len(t) = Len(Tail(q))
        /\ \A n \in 1 .. Len(Tail(q)) : t[n] = Id(p, Tail(q)[n])
    BY <1>1, IdsType
  <2> QED
    BY <1>1, <2>1
<1> HIDE DEF s, t
<1>4. /\ Tail(s) \in Seq(IdRange(p)) /\ Len(Tail(s)) = Len(q) - 1
      /\ \A n \in 1 .. Len(q) - 1 : Tail(s)[n] = s[n + 1]
  BY <1>2, HeadTailProperties
<1>5. \A n \in 1 .. Len(q) - 1 : n + 1 \in 1 .. Len(q)
  BY <1>1
<1>6. t = Tail(s)
  BY <1>1, <1>2, <1>3, <1>4, <1>5, SeqEqual
<1> QED
  BY <1>6 DEF s, t

LEMMA IdsPush ==
  ASSUME NEW p, NEW m \in MsgType, NEW q \in Seq(MsgType)
  PROVE  Ids(p, <<m>> \o q) = <<Id(p, m)>> \o Ids(p, q)
<1> DEFINE r == <<m>> \o q
           s == Ids(p, q)
           t == Ids(p, r)
           u == <<Id(p, m)>> \o s
<1>1. /\ r \in Seq(MsgType) /\ Len(r) = Len(q) + 1 /\ r[1] = m
      /\ \A i \in 2 .. Len(q) + 1 : r[i] = q[i - 1]
      /\ Len(q) \in Nat
  BY Push
<1>2. /\ s \in Seq(IdRange(p)) /\ Len(s) = Len(q)
      /\ \A n \in 1 .. Len(q) : s[n] = Id(p, q[n])
  BY IdsType
<1> HIDE DEF r, s
<1>3. /\ t \in Seq(IdRange(p)) /\ Len(t) = Len(q) + 1
      /\ \A n \in 1 .. Len(q) + 1 : t[n] = Id(p, r[n])
  BY <1>1, IdsType
<1>4. Id(p, m) \in IdRange(p)
  BY DEF IdRange
<1>5. /\ u \in Seq(IdRange(p)) /\ Len(u) = Len(q) + 1 /\ u[1] = Id(p, m)
      /\ \A i \in 2 .. Len(q) + 1 : u[i] = s[i - 1]
  BY <1>2, <1>4, Push
<1> HIDE DEF t, u
<1>6. \A i \in 1 .. Len(q) + 1 : i = 1 \/ (i \in 2 .. Len(q) + 1 /\ i - 1 \in 1 .. Len(q))
  BY <1>1
<1>7. \A i \in 1 .. Len(q) + 1 : t[i] = u[i]
  BY <1>1, <1>2, <1>3, <1>5, <1>6
<1>8. t = u
  BY <1>1, <1>3, <1>5, <1>7, SeqEqual
<1> QED
  BY <1>8 DEF r, s, t, u

------------------------------------------------------------------------------
(* What a step does to all the queues.                                      *)

SameQueues == \A f \in Fds : QueueOf(f)' = QueueOf(f)

(* p's outgoing packet is the last one of the message being assembled.      *)
Completed(p) ==
  /\ CurOf(p).has_cmd
  /\ Filled(p).curPckts = Filled(p).totPckts
  /\ \A f \in Fds :
       QueueOf(f)' = IF f = p THEN <<Filled(p)>> \o QueueOf(p) ELSE QueueOf(f)

LEMMA QueuesAfterCmd ==
  ASSUME TypeOK, NEW p \in Peers, NEW size \in Sizes, Cmd(p, size)
  PROVE  SameQueues
<1>1. \A m : SetCur(p, m) => SameQueues
  BY PeersAreFds, SetCurEffect DEF SameQueues
<1>2. Lose(p) => SameQueues
  BY DEF Lose, SameQueues, QueueOf
<1> QED
  BY <1>1, <1>2 DEF Cmd, RecieveCmd, SeenCmdAlready, AcceptCmd

LEMMA QueuesAfterData ==
  ASSUME TypeOK, NEW p \in Peers, Data(p)
  PROVE  SameQueues \/ Completed(p)
<1>1. \A m : SetCur(p, m) => SameQueues
  BY PeersAreFds, SetCurEffect DEF SameQueues
<1>2. CASE Lose(p) \/ DropData(p) \/ StoreData(p, Outgoing(p))
  BY <1>1, <1>2 DEF Lose, DropData, StoreData, SameQueues, QueueOf
<1>3. CASE CompleteData(p, Outgoing(p))
  <2>1. add_msg(p, Filled(p)) /\ CurOf(p).has_cmd
        /\ Filled(p).curPckts = Filled(p).totPckts
    BY <1>3 DEF CompleteData, CurOf, Filled
  <2>2. \A f \in Fds :
          QueueOf(f)' = IF f = p THEN <<Filled(p)>> \o QueueOf(p) ELSE QueueOf(f)
    BY <2>1, PeersAreFds DEF add_msg, TypeOK, QueueOf
  <2> QED
    BY <2>1, <2>2 DEF Completed
<1> QED
  BY <1>2, <1>3 DEF Data, RecieveData

------------------------------------------------------------------------------
(* The invariant: that of the theorems about FileTable, and three facts the *)
(* mailbox needs besides: the losses stay within their bound, a sender in   *)
(* the middle of a message has begun one, and queued messages are full.     *)

Full(q) == \A i \in 1 .. Len(q) : q[i].curPckts = q[i].totPckts

CountsAt(p) ==
  /\ lost[p] <= MaxLoss
  /\ sender[p].idx # 0 => sender[p].msg > 0
  /\ Full(QueueOf(p))

BoxInv ==
  \A p \in Peers : BoundsAt(p) /\ OrderAt(p) /\ IntactAt(p) /\ CountsAt(p)

LEMMA CountsStep ==
  ASSUME TypeOK, 0 \notin Sizes, [Next]_vars, NEW p \in Peers, CountsAt(p)
  PROVE  CountsAt(p)'
<1>1. lost'[p] <= MaxLoss
  <2>1. ASSUME NEW r \in Peers, Lose(r)
        PROVE  lost'[p] <= MaxLoss
    <3>1. lost[r] \in Nat /\ lost[p] \in Nat /\ MaxLoss \in Nat /\ lost[p] <= MaxLoss
      BY FileTableAssumption DEF TypeOK, CountsAt
    <3> QED
      BY <2>1, <3>1 DEF Lose, TypeOK
  <2>2. UNCHANGED lost \/ \E r \in Peers : Lose(r)
    BY DEF Next, Cmd, Data, Ack, Reply, get_fd, get_msg, get_status, vars
  <2> QED
    BY <2>1, <2>2 DEF CountsAt
<1>2. sender'[p].idx # 0 => sender'[p].msg > 0
  <2>1. ASSUME NEW size \in Sizes, CmdAt(p, size)
        PROVE  sender'[p].msg > 0
    BY <2>1, StartMsgEffect, PeerTypes DEF CmdAt
  <2>2. CASE DataAt(p)
    BY <2>2, NextDataEffect DEF DataAt, CountsAt
  <2>3. CASE Untouched(p)
    BY <2>3 DEF Untouched, CountsAt
  <2> QED
    BY <2>1, <2>2, <2>3, StepOfPeer
<1>3. Full(QueueOf(p)')
  <2> DEFINE q == QueueOf(p)
  <2>1. CASE QueueOf(p)' = q
    BY <2>1 DEF CountsAt
  <2>2. CASE /\ Filled(p).curPckts = Filled(p).totPckts
             /\ QueueOf(p)' = <<Filled(p)>> \o q
    <3> DEFINE r == <<Filled(p)>> \o q
    <3>1. /\ Len(r) = Len(q) + 1 /\ r[1] = Filled(p)
          /\ \A i \in 2 .. Len(q) + 1 : r[i] = q[i - 1]
          /\ Len(q) \in Nat
      BY PeerTypes, FilledFields, Push
    <3> HIDE DEF r
    <3>2. \A i \in 1 .. Len(r) : i = 1 \/ (i \in 2 .. Len(q) + 1 /\ i - 1 \in 1 .. Len(q))
      BY <3>1
    <3>3. Full(r)
      BY <2>2, <3>1, <3>2 DEF Full, CountsAt
    <3> QED
      BY <2>2, <3>3 DEF r
  <2> QED
    BY <2>1, <2>2, StepOfPeer DEF Untouched, CmdAt, DataAt, LossAt, ResetAt
<1> QED
  BY <1>1, <1>2, <1>3 DEF CountsAt

LEMMA BoxInvInit == Init => BoxInv
<1> SUFFICES ASSUME Init, NEW p \in Peers
             PROVE  BoundsAt(p) /\ OrderAt(p) /\ IntactAt(p) /\ CountsAt(p)
  BY DEF BoxInv
<1>1. /\ CurOf(p) = EmptyMsg /\ QueueOf(p) = <<>> /\ fileTable[p].msg_q = <<>>
      /\ sender[p].idx = 0 /\ lost[p] = 0
  BY PeersAreFds DEF Init, CurOf, QueueOf
<1>2. OrderAt(p)
  <2>1. CurOf(p) = EmptyMsg /\ QueueOf(p) = <<>>
    BY <1>1
  <2>2. MsgOK(p, sender[p], EmptyMsg)
    BY NothingStored, EmptyMsgType, EmptyMsgFields
  <2>3. 1 .. Len(QueueOf(p)) = {}
    BY <2>1
  <2> QED
    BY <2>1, <2>2, <2>3 DEF OrderAt
<1>3. IntactAt(p)
  BY <1>1, EmptyMsgFields DEF IntactAt, AllIntact, InSync
<1>4. CountsAt(p)
  BY <1>1, FileTableAssumption DEF CountsAt, Full
<1> QED
  BY <1>2, <1>3, <1>4, BoundsInit

LEMMA BoxInvStep ==
  ASSUME TypeOK, 0 \notin Sizes, BoxInv, [Next]_vars
  PROVE  BoxInv'
BY BoundsStep, OrderStep, IntactStep, CountsStep DEF BoxInv

------------------------------------------------------------------------------
(* The steps of the mailbox.                                                *)

LEMMA InboxOf ==
  Inbox = [f \in Fds |-> Ids(f, QueueOf(f))]
BY DEF Inbox, QueueOf

LEMMA InboxStays ==
  ASSUME SameQueues
  PROVE  Inbox' = Inbox
<1>1. \A f \in Fds : fileTable'[f].msg_q = fileTable[f].msg_q
  BY DEF SameQueues, QueueOf
<1>2. \A f \in Fds : Ids(f, fileTable'[f].msg_q) = Ids(f, fileTable[f].msg_q)
  BY <1>1
<1> QED
  BY <1>2 DEF Inbox, Ids, Id, Intact

LEMMA HandStays ==
  ASSUME fds' = fds
  PROVE  Hand' = Hand
BY DEF Hand, Ids, Id, Intact

(* A packet that completes a message delivers the message its sender is in  *)
(* the middle of: the message is intact, and its last piece is that packet. *)
LEMMA CompletedIsCurrent ==
  ASSUME TypeOK, NEW p \in Peers, BoundsAt(p), Completed(p), AllIntact(p)'
  PROVE  /\ Intact(p, Filled(p))
         /\ Filled(p).data[1].msg = sender[p].msg
         /\ Filled(p).data[1].idx = 1
         /\ Filled(p).totPckts > 0
<1> DEFINE f == Filled(p)
           n == f.totPckts
<1>1. /\ f \in MsgType /\ n = CurOf(p).totPckts /\ n = Len(CurOf(p).data)
      /\ n = CurOf(p).curPckts + 1
      /\ n \in Nat /\ CurOf(p).curPckts \in Nat
  BY FilledFields, PeerTypes DEF Completed, BoundsAt
<1>2. n \in 1 .. Len(CurOf(p).data)
  BY <1>1
<1>3. f.data[n] = Outgoing(p)
  BY <1>1, <1>2, FilledFields
<1>4. Intact(p, f)
  <2>1. QueueOf(p)' = <<f>> \o QueueOf(p)
    BY PeersAreFds DEF Completed
  <2>2. Len(<<f>> \o QueueOf(p)) = Len(QueueOf(p)) + 1 /\ (<<f>> \o QueueOf(p))[1] = f
        /\ Len(QueueOf(p)) \in Nat
    BY <1>1, PeerTypes, Push
  <2>3. \A i \in 1 .. Len(QueueOf(p)') : Intact(p, (QueueOf(p)')[i])
    BY DEF AllIntact, QueueOf, Intact
  <2> QED
    BY <2>1, <2>2, <2>3
<1> HIDE DEF f
<1>5. n > 0 /\ f.data[n] = Piece(p, f.data[1].msg, n, n)
      /\ f.data[1] = Piece(p, f.data[1].msg, 1, n)
  BY <1>1, <1>2, <1>4 DEF Intact
<1>6. Outgoing(p).msg = sender[p].msg
  BY DEF Outgoing, Piece
<1>7. f.data[n].msg = f.data[1].msg /\ f.data[1].idx = 1
  <2>1. Piece(p, f.data[1].msg, n, n).msg = f.data[1].msg
    BY DEF Piece
  <2>2. Piece(p, f.data[1].msg, 1, n).idx = 1
    BY DEF Piece
  <2> QED
    BY <1>5, <2>1, <2>2
<1> QED
  BY <1>3, <1>4, <1>5, <1>6, <1>7 DEF f

LEMMA CompletedDelivers ==
  ASSUME TypeOK, TypeOK', BoxInv, BoxInv', MaxLoss <= 1,
         NEW p \in Peers, Data(p), Completed(p)
  PROVE  Box!Deliver(p, sender[p].msg) /\ sender[p].msg \in 1 .. Sent[p]
<1> DEFINE f == Filled(p)
           q == QueueOf(p)
           k == sender[p].msg
<1>1. BoundsAt(p) /\ AllIntact(p) /\ AllIntact(p)' /\ OrderAt(p)' /\ CountsAt(p)'
  BY FileTableAssumption DEF BoxInv, IntactAt, CountsAt, TypeOK
<1>2. /\ Intact(p, f) /\ f.data[1].msg = k /\ f.data[1].idx = 1
      /\ f.totPckts > 0 /\ f.curPckts = f.totPckts
  BY <1>1, CompletedIsCurrent DEF Completed
<1>3. f \in MsgType /\ q \in Seq(MsgType) /\ Len(q) \in Nat
  BY PeerTypes, FilledFields
<1>4. /\ QueueOf(p)' = <<f>> \o q
      /\ \A g \in Fds \ {p} : QueueOf(g)' = QueueOf(g)
  BY PeersAreFds DEF Completed
<1>5. Id(p, f) = k
  BY <1>2 DEF Id
<1>6. Inbox' = [Inbox EXCEPT ![p] = <<k>> \o @]
  <2>1. p \in Fds /\ Inbox[p] = Ids(p, q)
    BY PeersAreFds, InboxOf
  <2>2. Ids(p, <<f>> \o q) = <<k>> \o Inbox[p]
    BY <1>3, <1>5, <2>1, IdsPush
  <2>3. Inbox' = [g \in Fds |-> Ids(g, fileTable'[g].msg_q)]
    BY DEF Inbox, Ids, Id, Intact
  <2>4. /\ fileTable'[p].msg_q = <<f>> \o q
        /\ \A g \in Fds \ {p} : fileTable'[g].msg_q = QueueOf(g)
    BY <1>4 DEF QueueOf
  <2> HIDE DEF f, q, k
  <2> QED
    BY <2>1, <2>2, <2>3, <2>4, InboxOf
<1>7. Sent' = Sent /\ Hand' = Hand
  <2>1. fds' = fds /\ \A r \in Peers : sender'[r].msg = sender[r].msg
    BY NextDataEffect DEF Data, NextData, TypeOK
  <2> QED
    BY <2>1, HandStays DEF Sent
<1>8. ASSUME Inbox[p] # <<>>
      PROVE  Head(Inbox[p]) < k
  <2>1. q # <<>> /\ Inbox[p] = Ids(p, q)
    BY <1>3, <1>8, IdsEmpty, InboxOf, PeersAreFds
  <2>2. 1 \in 1 .. Len(q) /\ Len(q) # 0
    BY <1>3, <2>1, EmptySeq
  <2>3. Head(Inbox[p]) = Id(p, q[1])
    <3>1. Ids(p, q)[1] = Id(p, q[1])
      BY <1>3, <2>2, IdsType
    <3>2. Ids(p, q) # <<>> /\ Ids(p, q) \in Seq(IdRange(p))
      BY <1>3, <1>8, <2>1, IdsType
    <3> QED
      BY <2>1, <3>1, <3>2, HeadTailProperties
  <2>4. Intact(p, q[1])
    BY <1>1, <2>2 DEF AllIntact, QueueOf
  <2>5. q[1].totPckts > 0 /\ q[1].data[1].idx = 1 /\ q[1] \in MsgType
    <3>1. q[1] \in MsgType
      BY <1>3, <2>2, ElementOfSeq
    <3>2. q[1].totPckts > 0 /\ 1 \in 1 .. q[1].totPckts
      BY <2>4, <3>1 DEF Intact, MsgType
    <3>3. q[1].data[1] = Piece(p, q[1].data[1].msg, 1, q[1].totPckts)
      BY <2>4, <3>2 DEF Intact
    <3>4. Piece(p, q[1].data[1].msg, 1, q[1].totPckts).idx = 1
      BY DEF Piece
    <3> QED
      BY <3>1, <3>2, <3>3, <3>4
  <2>6. AllBefore(q[1], f) /\ q[1].curPckts = q[1].totPckts
    <3> DEFINE r == <<f>> \o q
    <3>1. Len(r) = Len(q) + 1 /\ r[1] = f /\ r[2] = q[1]
      BY <1>3, <2>2, Push
    <3>2. 1 \in 1 .. Len(r) /\ 2 \in 1 .. Len(r)
      BY <1>3, <2>2, <3>1
    <3>3. \A i, j \in 1 .. Len(r) : i < j => AllBefore(r[j], r[i])
      BY <1>1, <1>4 DEF OrderAt, AllBefore
    <3>4. \A i \in 1 .. Len(r) : r[i].curPckts = r[i].totPckts
      BY <1>1, <1>4 DEF CountsAt, Full
    <3> HIDE DEF r
    <3> QED
      BY <3>1, <3>2, <3>3, <3>4
  <2>7. Before(q[1].data[1], f.data[1])
    <3>1. 1 \in 1 .. q[1].curPckts /\ 1 \in 1 .. f.curPckts
      BY <1>2, <1>3, <2>5, <2>6 DEF MsgType
    <3> QED
      BY <2>6, <3>1 DEF AllBefore
  <2> QED
    BY <1>2, <2>3, <2>4, <2>5, <2>7 DEF Id, Before
<1>9. k \in 1 .. Sent[p]
  <2>1. k \in Nat /\ k > 0
    BY PeerTypes DEF Data, NextData, BoxInv, CountsAt
  <2> QED
    BY <2>1 DEF Sent
<1> QED
  BY <1>6, <1>7, <1>8, <1>9 DEF Box!Deliver

LEMMA CmdSends ==
  ASSUME TypeOK, 0 \notin Sizes, NEW p \in Peers, NEW size \in Sizes, Cmd(p, size)
  PROVE  Box!Send(p)
<1>1. Inbox' = Inbox /\ Hand' = Hand
  BY QueuesAfterCmd, InboxStays, HandStays DEF Cmd
<1>2. /\ sender'[p].msg = sender[p].msg + 1
      /\ \A r \in Peers \ {p} : sender'[r] = sender[r]
  BY StartMsgEffect DEF Cmd, StartMsg, TypeOK
<1>3. Sent' = [Sent EXCEPT ![p] = @ + 1]
  BY <1>2 DEF Sent
<1> QED
  BY <1>1, <1>3 DEF Box!Send

LEMMA MailboxStep ==
  ASSUME TypeOK, TypeOK', BoxInv, BoxInv', 0 \notin Sizes, MaxLoss <= 1, [Next]_vars
  PROVE  [Box!Next]_Box!vars
<1>1. ASSUME NEW p \in Peers, NEW size \in Sizes, Cmd(p, size)
      PROVE  Box!Next
  BY <1>1, CmdSends DEF Box!Next
<1>2. ASSUME NEW p \in Peers, Data(p)
      PROVE  [Box!Next]_Box!vars
  <2>1. CASE SameQueues
    <3>1. Inbox' = Inbox /\ Hand' = Hand
      BY <1>2, <2>1, InboxStays, HandStays DEF Data
    <3>2. Sent' = Sent
      BY <1>2 DEF Data, NextData, TypeOK, Sent
    <3> QED
      BY <3>1, <3>2 DEF Box!vars
  <2>2. CASE Completed(p)
    BY <1>2, <2>2, CompletedDelivers DEF Box!Next
  <2> QED
    BY <1>2, <2>1, <2>2, QueuesAfterData
<1>3. ASSUME SameQueues, UNCHANGED <<fds, sender>>
      PROVE  UNCHANGED Box!vars
  <2>1. Inbox' = Inbox /\ Hand' = Hand
    BY <1>3, InboxStays, HandStays
  <2> QED
    BY <1>3, <2>1 DEF Box!vars, Sent
<1>4. ASSUME NEW p \in Peers, NEW c \in {ESP_ACK, ESP_NOACK}, Ack(p, c)
      PROVE  UNCHANGED Box!vars
  <2>1. SameQueues
    BY <1>4, PeersAreFds DEF Ack, RecieveAck, TypeOK, SameQueues, QueueOf
  <2> QED
    BY <1>3, <1>4, <2>1 DEF Ack
<1>5. ASSUME NEW c \in Replies, Reply(c)
      PROVE  UNCHANGED Box!vars
  <2>1. SameQueues
    BY <1>5, PeersAreFds DEF Reply, RecieveReply, TypeOK, SameQueues, QueueOf
  <2> QED
    BY <1>3, <1>5, <2>1 DEF Reply
<1>6. ASSUME UNCHANGED fileTable
      PROVE  Inbox' = Inbox
  BY <1>6 DEF Inbox, Ids, Id, Intact
<1>7. ASSUME NEW f \in Fds, get_fd(f)
      PROVE  Box!Next
  <2>1. /\ fds'.fnum = f /\ fds'.msg_q = fileTable[f].msg_q
        /\ UNCHANGED <<fileTable, sender>>
    BY <1>7 DEF get_fd
  <2>2. Hand' = [box |-> f, ids |-> Ids(f, fileTable[f].msg_q)]
    BY <2>1 DEF Hand, Ids, Id, Intact
  <2>3. Hand' = [box |-> f, ids |-> Inbox[f]]
    BY <2>2 DEF Inbox
  <2>4. Box!Open(f)
    BY <1>6, <2>1, <2>3 DEF Box!Open, Sent
  <2> QED
    BY <2>4 DEF Box!Next
<1>8. CASE get_msg
  <2>1. /\ fds.msg_q # <<>> /\ fds.msg_q \in Seq(MsgType)
        /\ fds'.fnum = fds.fnum /\ fds'.msg_q = Tail(fds.msg_q)
        /\ UNCHANGED <<fileTable, sender>>
    BY <1>8 DEF get_msg, TypeOK
  <2>2. Hand' = [box |-> fds.fnum, ids |-> Ids(fds.fnum, Tail(fds.msg_q))]
    BY <2>1 DEF Hand, Ids, Id, Intact
  <2>3. Hand' = [box |-> fds.fnum, ids |-> Tail(Ids(fds.fnum, fds.msg_q))]
    BY <2>1, <2>2, IdsTail
  <2>4. Hand.ids # <<>> /\ Hand' = [Hand EXCEPT !.ids = Tail(@)]
    BY <2>1, <2>3, IdsEmpty DEF Hand
  <2>5. Box!Take
    BY <1>6, <2>1, <2>4 DEF Box!Take, Sent
  <2> QED
    BY <2>5 DEF Box!Next
<1>9. CASE get_status
  <2>1. /\ fds'.fnum = fds.fnum /\ fds'.msg_q = fds.msg_q
        /\ UNCHANGED <<fileTable, sender>>
    BY <1>9 DEF get_status, TypeOK
  <2>2. Hand' = Hand
    BY <2>1 DEF Hand, Ids, Id, Intact
  <2> QED
    BY <1>6, <2>1, <2>2 DEF Box!vars, Sent
<1>10. CASE UNCHANGED vars
  <2>1. SameQueues /\ UNCHANGED <<fds, sender>>
    BY <1>10 DEF vars, SameQueues, QueueOf
  <2> QED
    BY <1>3, <2>1
<1> QED
  BY <1>1, <1>2, <1>4, <1>5, <1>7, <1>8, <1>9, <1>10 DEF Next

LEMMA MailboxInit == Init => Box!Init
<1> SUFFICES ASSUME Init PROVE Box!Init
  OBVIOUS
<1>1. /\ \A f \in Fds : fileTable[f].msg_q = <<>>
      /\ fds.fnum = MAXFILES /\ fds.msg_q = <<>>
      /\ \A p \in Peers : sender[p].msg = 0
  BY DEF Init
<1>2. \A f : Ids(f, <<>>) = <<>>
  <2>1. <<>> \in Seq(MsgType)
    OBVIOUS
  <2> QED
    BY <2>1, IdsEmpty
<1>3. Inbox = [f \in Fds |-> <<>>] /\ Hand = [box |-> MAXFILES, ids |-> <<>>]
  BY <1>1, <1>2 DEF Inbox, Hand
<1>4. Sent = [p \in Peers |-> 0]
  BY <1>1 DEF Sent
<1> QED
  BY <1>3, <1>4 DEF Box!Init

(* As long as at most one packet of each peer is lost, the program sees a   *)
(* mailbox: the handler delivers every message whole, at most once and in   *)
(* the order its peer sent them, and what the program pops from its copy is *)
(* what the mailbox held when the copy was made.                            *)
THEOREM ImplementsMailbox ==
  ASSUME 0 \notin Sizes, MaxLoss <= 1
  PROVE  Spec => IsMailbox
<1>1. TypeOK /\ BoxInv /\ [Next]_vars => BoxInv'
  BY BoxInvStep
<1>2. TypeOK /\ TypeOK' /\ BoxInv /\ BoxInv' /\ [Next]_vars => [Box!Next]_Box!vars
  BY MailboxStep
<1> QED
  BY <1>1, <1>2, TypeCorrect, BoxInvInit, MailboxInit, PTL
     DEF Spec, IsMailbox, Box!Spec
==============================================================================
