------------------------- MODULE ProgramLine_proofs -------------------------
(***************************************************************************)
(* Proofs about ProgramLine, for all marks, programs, lengths of a frame   *)
(* and sizes of the client's buffer, and for any leftovers behind a        *)
(* program: the buffer is not left, and which program the client runs.     *)
(***************************************************************************)
EXTENDS ProgramLine, SequenceTheorems, TLAPS

Index == 0 .. buflen - 1

ClientRecord == [pc : {"off", "start", "data", "run", "lost"}, i : Index]

FrameRecord == [prog : Progs \cup {<<>>}, left : Seq(Leftover)]

(* Within a program the client has room for one byte and the final zero.    *)
ClientOK ==
  /\ client \in ClientRecord
  /\ client.pc = "start" => client.i < Len(start_seq)
  /\ client.pc = "data" => client.i < buflen - 1
  /\ buf \in [Index -> Byte]

ServerOK ==
  /\ out \in Seq(Byte) /\ Len(out) <= FrameLen
  /\ frames \in Seq(FrameRecord) /\ Len(frames) = 2

LineInv == ClientOK /\ ServerOK

LEMMA Constants ==
  /\ FrameLen \in Nat /\ buflen \in Nat /\ 1 < buflen
  /\ start_seq \in Seq(Byte) /\ 0 < Len(start_seq) /\ Len(start_seq) <= buflen
  /\ Len(start_seq) \in Nat /\ Zero \in Byte
BY ProgramLineAssumption

(* Pairs are sequences.                                                     *)
LEMMA SecondOf ==
  ASSUME NEW S, NEW s \in Seq(S), Len(s) = 2
  PROVE  s[2] \in S
OBVIOUS

LEMMA PairSeq ==
  ASSUME NEW S, NEW x \in S, NEW y \in S
  PROVE  <<x, y>> \in Seq(S) /\ Len(<<x, y>>) = 2
OBVIOUS

LEMMA InitLine == Init => LineInv
<1> SUFFICES ASSUME Init PROVE LineInv
  OBVIOUS
<1>1. client \in ClientRecord /\ client.pc = "off"
  BY Constants DEF Init, ClientRecord, Index
<1>2. buf \in [Index -> Byte]
  BY Constants DEF Init, Index
<1>3. out \in Seq(Byte) /\ Len(out) <= FrameLen
  BY Constants DEF Init
<1>4. frames \in Seq(FrameRecord) /\ Len(frames) = 2
  <2>1. NoFrame \in FrameRecord
    BY DEF NoFrame, FrameRecord
  <2> QED
    BY <2>1, PairSeq DEF Init
<1> QED
  BY <1>1, <1>2, <1>3, <1>4 DEF LineInv, ClientOK, ServerOK

LEMMA Joined ==
  ASSUME NEW s \in Seq(Byte), NEW t \in Seq(Byte)
  PROVE  /\ s \o t \in Seq(Byte) /\ Len(s \o t) = Len(s) + Len(t)
         /\ \A k \in 1 .. Len(s) : (s \o t)[k] = s[k]
         /\ \A k \in 1 .. Len(t) : (s \o t)[Len(s) + k] = t[k]
OBVIOUS

LEMMA Regrouped ==
  ASSUME NEW s \in Seq(Byte), NEW t \in Seq(Byte), NEW u \in Seq(Byte)
  PROVE  (s \o t) \o u = s \o (t \o u)
OBVIOUS

L == Len(start_seq)

(* What the server has sent, or sends.                                      *)
IsFrame(f) == f \in FrameRecord /\ f.prog \in Progs /\ f.left \in Lefts(f.prog)

(* The program with its mark, and the frame behind its start sequence.      *)
Core(f) == f.prog \o stop_seq
Body(f) == f.prog \o stop_seq \o f.left

LEMMA Marks ==
  /\ L \in Nat /\ L > 0 /\ FrameLen \in Nat /\ buflen \in Nat
  /\ FrameLen - L + 1 < buflen /\ buflen <= FrameLen + 1
  /\ start_seq \in Seq(Byte) /\ \A k \in 2 .. L : start_seq[k] # start_seq[1]
BY ProgramLineAssumption DEF L

(* The parts of a frame.                                                    *)
LEMMA Parts ==
  ASSUME NEW f, IsFrame(f)
  PROVE  /\ f.prog \in Seq(Byte) /\ f.prog # <<>> /\ Len(f.prog) < buflen
         /\ Core(f) \in Seq(Byte) /\ Len(Core(f)) = Len(f.prog) + Len(stop_seq)
         /\ \A k \in 1 .. Len(f.prog) : Core(f)[k] = f.prog[k]
         /\ f.left \in Seq(Byte) /\ Len(f.left) = FrameLen - (L + Len(Core(f)))
         /\ L + Len(Core(f)) <= FrameLen
         /\ Body(f) = Core(f) \o f.left /\ Frame(f) = start_seq \o Body(f)
<1> DEFINE h == start_seq \o f.prog \o stop_seq
<1>1. /\ start_seq \in Seq(Byte) /\ f.prog \in Seq(Byte) /\ stop_seq \in Seq(Byte)
      /\ f.prog # <<>> /\ Len(f.prog) < buflen /\ Len(h) <= FrameLen
      /\ FrameLen \in Nat /\ Leftover \subseteq Byte
  BY ProgramLineAssumption DEF IsFrame
<1>2. Core(f) \in Seq(Byte) /\ Len(Core(f)) = Len(f.prog) + Len(stop_seq)
      /\ \A k \in 1 .. Len(f.prog) : Core(f)[k] = f.prog[k]
  BY <1>1, Joined DEF Core
<1>3. h = start_seq \o Core(f)
  BY <1>1, Regrouped DEF Core
<1>4. f.left \in [1 .. FrameLen - Len(h) -> Leftover]
  BY DEF IsFrame, Lefts
<1>5. Frame(f) = h \o f.left /\ Body(f) = Core(f) \o f.left
  BY DEF Frame, Body, Core
<1> HIDE DEF h
<1>6. h \in Seq(Byte) /\ Len(h) = L + Len(Core(f)) /\ Len(h) \in Nat
  <2>1. start_seq \in Seq(Byte) /\ Core(f) \in Seq(Byte) /\ L = Len(start_seq)
    BY <1>1, <1>2 DEF L
  <2>2. h \in Seq(Byte) /\ Len(h) = Len(start_seq) + Len(Core(f))
    BY <1>3, <2>1, Joined
  <2> QED
    BY <2>1, <2>2
<1>7. f.left \in Seq(Byte) /\ Len(f.left) = FrameLen - Len(h)
  <2>1. FrameLen - Len(h) \in Nat
    BY <1>1, <1>6
  <2> QED
    <3> DEFINE n == FrameLen - Len(h)
    <3>1. n \in Nat /\ f.left \in [1 .. n -> Leftover] /\ Leftover \subseteq Byte
      BY <1>1, <1>4, <2>1
    <3> HIDE DEF n
    <3>2. f.left \in Seq(Byte) /\ Len(f.left) = n
      BY <3>1
    <3> QED
      BY <3>2 DEF n
<1>8. Frame(f) = start_seq \o Body(f)
  <2>1. start_seq \in Seq(Byte) /\ Core(f) \in Seq(Byte) /\ f.left \in Seq(Byte)
    BY <1>1, <1>2, <1>7
  <2>2. (start_seq \o Core(f)) \o f.left = start_seq \o (Core(f) \o f.left)
    BY <2>1, Regrouped
  <2> QED
    BY <1>3, <1>5, <2>2
<1> QED
  BY <1>1, <1>2, <1>5, <1>6, <1>7, <1>8

LEMMA FrameAt ==
  ASSUME NEW f, IsFrame(f)
  PROVE  /\ Frame(f) \in Seq(Byte) /\ Len(Frame(f)) = FrameLen
         /\ Body(f) \in Seq(Byte) /\ Len(Body(f)) = FrameLen - L /\ FrameLen - L \in Nat
         /\ \A k \in 1 .. L : Frame(f)[k] = start_seq[k]
         /\ \A k \in 1 .. FrameLen - L : Frame(f)[L + k] = Body(f)[k]
         /\ \A k \in 1 .. Len(Core(f)) : Body(f)[k] = Core(f)[k]
<1> DEFINE b == Body(f)
           c == Core(f)
           d == f.left
<1>1. /\ c \in Seq(Byte) /\ d \in Seq(Byte) /\ Len(d) = FrameLen - (L + Len(c))
      /\ L + Len(c) <= FrameLen /\ b = c \o d /\ Frame(f) = start_seq \o b
  BY Parts
<1>2. start_seq \in Seq(Byte) /\ L = Len(start_seq) /\ L \in Nat /\ FrameLen \in Nat
  BY Marks DEF L
<1> HIDE DEF b, c, d
<1>3. /\ b \in Seq(Byte) /\ Len(b) = Len(c) + Len(d) /\ Len(c) \in Nat
      /\ \A k \in 1 .. Len(c) : b[k] = c[k]
  <2>1. c \in Seq(Byte) /\ d \in Seq(Byte) /\ b = c \o d
    BY <1>1
  <2> QED
    BY <2>1, Joined
<1>4. Len(b) = FrameLen - L /\ FrameLen - L \in Nat
  <2>1. ASSUME NEW x \in Nat, NEW y \in Int, NEW l \in Nat, NEW n \in Nat,
               y = n - (l + x), l + x <= n
        PROVE  x + y = n - l /\ n - l \in Nat
    BY <2>1
  <2>2. Len(d) \in Int /\ Len(d) = FrameLen - (L + Len(c)) /\ L + Len(c) <= FrameLen
    BY <1>1
  <2> QED
    BY <1>2, <1>3, <2>1, <2>2
<1>5. /\ Frame(f) \in Seq(Byte) /\ Len(Frame(f)) = L + Len(b)
      /\ \A k \in 1 .. L : Frame(f)[k] = start_seq[k]
      /\ \A k \in 1 .. Len(b) : Frame(f)[L + k] = b[k]
  <2>1. /\ start_seq \o b \in Seq(Byte) /\ Len(start_seq \o b) = Len(start_seq) + Len(b)
        /\ \A k \in 1 .. Len(start_seq) : (start_seq \o b)[k] = start_seq[k]
        /\ \A k \in 1 .. Len(b) : (start_seq \o b)[Len(start_seq) + k] = b[k]
    <3>1. start_seq \in Seq(Byte) /\ b \in Seq(Byte)
      BY <1>2, <1>3
    <3> QED
      BY <3>1, Joined
  <2> QED
    BY <1>1, <1>2, <2>1
<1>6. L + Len(b) = FrameLen
  BY <1>2, <1>4
<1> QED
  BY <1>3, <1>4, <1>5, <1>6 DEF b, c

(* sw_uart_gets keeps to its buffer.                                        *)
LEMMA GetsKeeps ==
  ASSUME ClientOK, NEW c \in Byte,
         \/ SearchStart(c)
         \/ ReadData(c)
         \/ client.pc \in {"off", "run", "lost"} /\ UNCHANGED <<client, buf>>
  PROVE  ClientOK'
<1>0. client \in ClientRecord /\ buf \in [Index -> Byte] /\ client.i \in Index
  BY DEF ClientOK, ClientRecord
<1>1. CASE SearchStart(c)
  <2>1. client.pc = "start" /\ client.i < Len(start_seq) /\ buf' = buf
    BY <1>1 DEF SearchStart, ClientOK
  <2>2. \/ client' = [client EXCEPT !.i = 0]
        \/ client' = [pc |-> "data", i |-> 0]
        \/ client' = [client EXCEPT !.i = @ + 1] /\ client.i + 1 # Len(start_seq)
    BY <1>1 DEF SearchStart
  <2>3. /\ client' \in ClientRecord
        /\ client'.pc = "start" => client'.i < Len(start_seq)
        /\ client'.pc = "data" => client'.i < buflen - 1
        /\ client'.pc \in {"start", "data"}
    <3>1. CASE client' = [client EXCEPT !.i = 0]
      BY <1>0, <2>1, <3>1, Constants DEF ClientRecord, Index
    <3>2. CASE client' = [pc |-> "data", i |-> 0]
      BY <3>2, Constants DEF ClientRecord, Index
    <3>3. CASE client' = [client EXCEPT !.i = @ + 1] /\ client.i + 1 # Len(start_seq)
      <4>1. client.i + 1 \in Index /\ client.i + 1 < Len(start_seq)
        BY <1>0, <2>1, <3>3, Constants DEF Index
      <4>2. client' = [client EXCEPT !.i = client.i + 1]
        BY <1>0, <3>3
      <4> QED
        BY <1>0, <2>1, <4>1, <4>2 DEF ClientRecord
    <3> QED
      BY <2>2, <3>1, <3>2, <3>3
  <2> QED
    BY <1>0, <2>1, <2>3 DEF ClientOK
<1>2. CASE ReadData(c)
  <2>1. client.pc = "data" /\ client.i < buflen - 1
    BY <1>2 DEF ReadData, ClientOK
  <2>2. client.i \in Index /\ client.i + 1 \in Index
    BY <1>0, <2>1, Constants DEF Index
  <2>3. \/ client' = [client EXCEPT !.pc = "run"]
        \/ client' = [client EXCEPT !.i = @ + 1] /\ client.i + 1 < buflen - 1
        \/ client' = [pc |-> "run", i |-> client.i + 1]
    BY <1>2 DEF ReadData
  <2>4. \/ buf' = [buf EXCEPT ![client.i] = Zero]
        \/ buf' = [buf EXCEPT ![client.i] = c]
        \/ buf' = [buf EXCEPT ![client.i] = c, ![client.i + 1] = Zero]
    BY <1>2 DEF ReadData
  <2>5. buf' \in [Index -> Byte]
    BY <1>0, <2>4, Constants
  <2>6. /\ client' \in ClientRecord /\ client'.pc \in {"data", "run"}
        /\ client'.pc = "data" => client'.i < buflen - 1
    BY <1>0, <2>1, <2>2, <2>3 DEF ClientRecord
  <2> QED
    BY <2>5, <2>6 DEF ClientOK
<1>3. CASE UNCHANGED <<client, buf>>
  BY <1>3 DEF ClientOK
<1> QED
  BY <1>1, <1>2, <1>3

LEMMA Framed ==
  ASSUME run_prog
  PROVE  /\ out = <<>> /\ UNCHANGED <<client, buf>>
         /\ \E f : IsFrame(f) /\ out' = Frame(f) /\ frames' = <<frames[2], f>>
<1>1. PICK p \in Progs : \E left \in Lefts(p) :
        LET f == [prog |-> p, left |-> left]
        IN  out' = Frame(f) /\ frames' = <<frames[2], f>>
  BY DEF run_prog
<1>2. PICK left \in Lefts(p) :
        /\ out' = Frame([prog |-> p, left |-> left])
        /\ frames' = <<frames[2], [prog |-> p, left |-> left]>>
  BY <1>1
<1>3. left \in Seq(Leftover)
  <2>1. FrameLen - Len(start_seq \o p \o stop_seq) \in Nat
    <3>1. /\ start_seq \in Seq(Byte) /\ p \in Seq(Byte) /\ stop_seq \in Seq(Byte)
          /\ FrameLen \in Nat /\ Len(start_seq \o p \o stop_seq) <= FrameLen
      BY ProgramLineAssumption
    <3>2. Len(start_seq \o p \o stop_seq) \in Nat
      BY <3>1
    <3> QED
      BY <3>1, <3>2
  <2> QED
    BY <2>1 DEF Lefts
<1>4. IsFrame([prog |-> p, left |-> left])
  BY <1>3 DEF IsFrame, FrameRecord
<1> QED
  BY <1>2, <1>4 DEF run_prog

LEMMA NextLine == LineInv /\ [Next]_vars => LineInv'
<1> SUFFICES ASSUME LineInv, [Next]_vars PROVE LineInv'
  OBVIOUS
<1>0. ClientOK /\ ServerOK
  BY DEF LineInv
<1>1. CASE run_prog
  <2>1. PICK f : IsFrame(f) /\ out' = Frame(f) /\ frames' = <<frames[2], f>>
    BY <1>1, Framed
  <2>2. out' \in Seq(Byte) /\ Len(out') <= FrameLen
    BY <2>1, FrameAt, Constants
  <2>3. frames[2] \in FrameRecord
    BY <1>0, SecondOf DEF ServerOK
  <2>4. frames' \in Seq(FrameRecord) /\ Len(frames') = 2
    BY <2>1, <2>3, PairSeq DEF IsFrame
  <2>5. ClientOK'
    BY <1>0, <1>1 DEF run_prog, ClientOK
  <2> QED
    BY <2>2, <2>4, <2>5 DEF LineInv, ServerOK
<1>2. CASE sw_uart_put8
  <2>1. /\ out # <<>> /\ out' = Tail(out) /\ UNCHANGED frames
        /\ \/ SearchStart(Head(out))
           \/ ReadData(Head(out))
           \/ client.pc \in {"off", "run", "lost"} /\ UNCHANGED <<client, buf>>
    BY <1>2 DEF sw_uart_put8
  <2>2. out \in Seq(Byte) /\ Len(out) <= FrameLen
    BY <1>0 DEF ServerOK
  <2>3. Head(out) \in Byte /\ out' \in Seq(Byte) /\ Len(out') <= FrameLen
    BY <2>1, <2>2, Constants
  <2>4. ClientOK'
    BY <1>0, <2>1, <2>3, GetsKeeps
  <2> QED
    BY <1>0, <2>1, <2>3, <2>4 DEF LineInv, ServerOK
<1>3. CASE PowerOn \/ BRANCHTO
  <2>1. /\ \E pc \in {"start", "off", "lost"} : client' = [pc |-> pc, i |-> 0]
        /\ UNCHANGED <<out, frames>>
        /\ \/ buf' \in Memory \cup {buf}
           \/ \E p \in Progs :
                buf' = [k \in DOMAIN buf |-> IF k < Len(p) THEN buf[k] ELSE Zero]
    BY <1>3 DEF PowerOn, BRANCHTO, JobDone
  <2>2. buf' \in [Index -> Byte]
    BY <1>0, <2>1, Constants, ProgramLineAssumption DEF ClientOK, Index
  <2>3. client' \in ClientRecord
    BY <2>1, Constants DEF ClientRecord, Index
  <2>4. ClientOK'
    BY <2>1, <2>2, <2>3, Constants DEF ClientOK
  <2> QED
    BY <1>0, <2>1, <2>4 DEF LineInv, ServerOK
<1>4. CASE UNCHANGED vars
  BY <1>0, <1>4 DEF vars, LineInv, ClientOK, ServerOK
<1> QED
  BY <1>1, <1>2, <1>3, <1>4 DEF Next

(* sw_uart_gets stays within the buffer it is given, whatever the line      *)
(* brings and whenever it is listened to.                                   *)
THEOREM StaysInBuffer == Spec => []TypeOK
<1>1. LineInv => TypeOK
  BY DEF LineInv, ClientOK, ServerOK, TypeOK, ClientRecord, FrameRecord, Index
<1> QED
  BY <1>1, InitLine, NextLine, PTL DEF Spec


------------------------------------------------------------------------------
(* Which program is run.                                                    *)

(* What the client reads behind the start sequence.                         *)
LEMMA RestAt ==
  ASSUME NEW f, IsFrame(f)
  PROVE  /\ Rest(f) \in Seq(Byte) /\ Len(Rest(f)) = FrameLen
         /\ \A k \in 1 .. FrameLen - L : Rest(f)[k] = Frame(f)[L + k]
         /\ \A k \in 1 .. L : Rest(f)[FrameLen - L + k] = start_seq[k]
         /\ \A k \in 1 .. Len(Core(f)) : Rest(f)[k] = Core(f)[k]
<1> DEFINE b == Body(f)
<1>1. start_seq \in Seq(Byte) /\ L = Len(start_seq) /\ L \in Nat /\ FrameLen \in Nat
  BY Marks DEF L
<1>2. /\ b \in Seq(Byte) /\ Len(b) = FrameLen - L /\ FrameLen - L \in Nat
      /\ \A k \in 1 .. FrameLen - L : Frame(f)[L + k] = b[k]
      /\ \A k \in 1 .. Len(Core(f)) : b[k] = Core(f)[k]
  BY FrameAt
<1>3. Rest(f) = b \o start_seq
  BY DEF Rest, Body
<1>4. Len(Core(f)) \in Nat /\ Len(Core(f)) <= FrameLen - L
  <2>1. Core(f) \in Seq(Byte) /\ L + Len(Core(f)) <= FrameLen
    BY Parts
  <2>2. Len(Core(f)) \in Nat
    BY <2>1
  <2> QED
    BY <1>1, <2>1, <2>2
<1> HIDE DEF b
<1>5. /\ b \o start_seq \in Seq(Byte) /\ Len(b \o start_seq) = Len(b) + Len(start_seq)
      /\ \A k \in 1 .. Len(b) : (b \o start_seq)[k] = b[k]
      /\ \A k \in 1 .. Len(start_seq) : (b \o start_seq)[Len(b) + k] = start_seq[k]
  <2>1. b \in Seq(Byte) /\ start_seq \in Seq(Byte)
    BY <1>1, <1>2
  <2> QED
    BY <2>1, Joined
<1>6. FrameLen - L + L = FrameLen
  BY <1>1
<1>7. \A k \in 1 .. Len(Core(f)) : k \in 1 .. FrameLen - L
  BY <1>2, <1>4
<1> QED
  BY <1>1, <1>2, <1>3, <1>5, <1>6, <1>7

LEMMA FrontOf ==
  ASSUME NEW s \in Seq(Byte), s # <<>>
  PROVE  /\ Front(s) \in Seq(Byte) /\ Len(Front(s)) = Len(s) - 1
         /\ \A k \in 1 .. Len(s) - 1 : Front(s)[k] = s[k]
<1>1. Len(s) \in Nat /\ Len(s) > 0
  OBVIOUS
<1> DEFINE n == Len(s) - 1
<1>2. 1 \in Int /\ n \in Nat /\ n \in Int /\ \A k \in 1 .. n : s[k] \in Byte
  BY <1>1
<1> HIDE DEF n
<1>3. /\ SubSeq(s, 1, n) \in Seq(Byte) /\ Len(SubSeq(s, 1, n)) = IF 1 <= n THEN n - 1 + 1 ELSE 0
      /\ \A k \in 1 .. n - 1 + 1 : SubSeq(s, 1, n)[k] = s[1 + k - 1]
  BY <1>2, SubSeqProperties
<1>4. n - 1 + 1 = n /\ \A k \in 1 .. n : 1 + k - 1 = k
  BY <1>2
<1>5. Front(s) = SubSeq(s, 1, n)
  BY DEF Front, n
<1> QED
  BY <1>2, <1>3, <1>4, <1>5 DEF n

(* One sequence in another, position by position.                           *)
LEMMA HoldsAt ==
  ASSUME NEW s \in Seq(Byte), NEW t \in Seq(Byte), NEW m \in Nat, m + Len(t) <= Len(s), t # <<>>,
         \A k \in 1 .. Len(t) : s[m + k] = t[k]
  PROVE  Holds(s, t)
<1>1. Len(t) \in Nat \ {0} /\ Len(s) \in Nat
  OBVIOUS
<1> DEFINE u == SubSeq(s, m + 1, Len(s))
<1>2. m + 1 \in 1 .. Len(s) /\ m + 1 \in 1 .. Len(s) + 1 /\ Len(s) \in m .. Len(s)
  BY <1>1
<1>3. /\ u \in Seq(Byte) /\ Len(u) = Len(s) - m
      /\ \A k \in 1 .. Len(s) - m : u[k] = s[m + k]
  BY <1>1, <1>2, SubSeqProperties
<1> HIDE DEF u
<1>4. Len(t) <= Len(u) /\ \A k \in 1 .. Len(t) : u[k] = t[k]
  BY <1>1, <1>3
<1>5. SubSeq(t, 1, Len(t)) = SubSeq(u, 1, Len(t))
  <2> DEFINE a == SubSeq(t, 1, Len(t))
             b == SubSeq(u, 1, Len(t))
  <2>1. a \in Seq(Byte) /\ Len(a) = Len(t) /\ \A k \in 1 .. Len(t) : a[k] = t[k]
    BY <1>1, SubSeqProperties
  <2>2. b \in Seq(Byte) /\ Len(b) = Len(t) /\ \A k \in 1 .. Len(t) : b[k] = u[k]
    BY <1>1, <1>3, <1>4, SubSeqProperties
  <2> HIDE DEF a, b
  <2>3. a = b
    BY <1>1, <1>4, <2>1, <2>2
  <2> QED
    BY <2>3 DEF a, b
<1>6. IsPrefix(t, u)
  BY <1>4, <1>5 DEF IsPrefix
<1> QED
  BY <1>2, <1>6 DEF Holds, u

(* A frame that is marked has the start sequence at its start only.         *)
LEMMA OnlyAtStart ==
  ASSUME NEW f, IsFrame(f), Marked(f), NEW m \in Nat, m + L <= FrameLen,
         \A k \in 1 .. L : Frame(f)[m + k] = start_seq[k]
  PROVE  m = 0
<1> DEFINE b == Body(f)
<1>1. /\ b \in Seq(Byte) /\ Len(b) = FrameLen - L /\ FrameLen - L \in Nat
      /\ \A k \in 1 .. L : Frame(f)[k] = start_seq[k]
      /\ \A k \in 1 .. FrameLen - L : Frame(f)[L + k] = b[k]
  BY FrameAt
<1>2. ~ Holds(b, start_seq) /\ start_seq # <<>> /\ start_seq \in Seq(Byte) /\ Len(start_seq) = L
  BY ProgramLineAssumption DEF Body, Marked, L
<1> HIDE DEF b
<1>3. CASE m > 0 /\ m < L
  <2>1. m + 1 \in 2 .. L /\ m + 1 \in 1 .. L /\ 1 \in 1 .. L
    BY <1>3, Marks
  <2> QED
    BY <1>1, <2>1, Marks
<1>4. CASE m >= L
  <2> DEFINE n == m - L
  <2>1. n \in Nat /\ n + L <= Len(b)
    BY <1>1, <1>4, Marks
  <2>2. \A k \in 1 .. L : n + k \in 1 .. FrameLen - L /\ L + (n + k) = m + k
    <3>1. L \in Nat /\ FrameLen \in Nat /\ n + L <= FrameLen - L /\ L + n = m
      BY <1>1, <1>4, <2>1, Marks
    <3> HIDE DEF n
    <3> QED
      BY <2>1, <3>1
  <2> HIDE DEF n
  <2>3. \A k \in 1 .. L : b[n + k] = start_seq[k]
    BY <1>1, <2>2
  <2>4. Holds(b, start_seq)
    <3>1. n + Len(start_seq) <= Len(b) /\ \A k \in 1 .. Len(start_seq) : b[n + k] = start_seq[k]
      BY <1>2, <2>1, <2>3
    <3> QED
      BY <1>1, <1>2, <2>1, <3>1, HoldsAt
  <2> QED
    BY <1>2, <2>4
<1> QED
  BY <1>3, <1>4, Marks

(* Bytes of the frame that are sent.                                        *)
Sent == FrameLen - Len(out)

(* The server sends the rest of the last frame.                             *)
Sending ==
  IsFrame(frames[2]) /\ \A k \in 1 .. Len(out) : out[k] = Frame(frames[2])[Sent + k]

(* What has matched are the last bytes sent, unless they were the last      *)
(* frame's.                                                                 *)
Matching ==
  client.pc = "start" =>
    \/ client.i = 0 \/ Sent = 0
    \/ /\ client.i <= Sent
       /\ \A k \in 1 .. client.i : Frame(frames[2])[Sent - client.i + k] = start_seq[k]

(* The buffer has what followed the start sequence of f.                    *)
Filled(f) == \A k \in 1 .. client.i : buf[k - 1] = Rest(f)[k]

(* A client that has read more bytes than there are sent of this frame      *)
(* found a start in the one before.                                         *)
Reading ==
  client.pc = "data" =>
    IF client.i >= Sent
      THEN /\ IsFrame(frames[1])
           /\ Marked(frames[1]) => Sent + FrameLen = L + client.i /\ Filled(frames[1])
      ELSE Marked(frames[2]) => Sent = L + client.i /\ Filled(frames[2])

(* Before the first frame the client finds nothing.                         *)
Silent ==
  /\ out = <<>> /\ client.pc \in {"off", "start"}
  /\ client.pc = "start" => client.i = 0

WholeInv ==
  /\ LineInv
  /\ Silent \/ (Sending /\ Matching /\ Reading)

(* What the test takes for a stop is a false one in what was read; if the   *)
(* frame is marked, it is behind the program.                               *)
LEMMA StopAt ==
  ASSUME ClientOK, client.pc = "data", NEW f, IsFrame(f), Filled(f),
         client.i < FrameLen, NEW c, c = Rest(f)[client.i + 1], StopSeen(c)
  PROVE  /\ Holds(Rest(f), FalseStop)
         /\ Marked(f) => Len(f.prog) <= client.i
<1> DEFINE n == Len(stop_seq)
           s == Rest(f)
           i == client.i
           m == i - n + 1
<1>1. stop_seq \in Seq(Byte) /\ n \in Nat /\ n > 0
  BY ProgramLineAssumption
<1>2. i \in Nat /\ s \in Seq(Byte) /\ Len(s) = FrameLen
  BY RestAt, Marks DEF ClientOK, ClientRecord, Index
<1>3. FalseStop \in Seq(Byte) /\ Len(FalseStop) = n
      /\ FalseStop[n] = stop_seq[1] /\ \A k \in 1 .. n - 1 : FalseStop[k] = stop_seq[k]
  <2> DEFINE g == Front(stop_seq)
  <2>1. g \in Seq(Byte) /\ Len(g) = n - 1 /\ \A k \in 1 .. n - 1 : g[k] = stop_seq[k]
    BY <1>1, FrontOf
  <2>2. stop_seq[1] \in Byte
    BY <1>1
  <2>3. FalseStop = Append(g, stop_seq[1])
    BY DEF FalseStop
  <2> HIDE DEF g
  <2> QED
    BY <1>1, <2>1, <2>2, <2>3
<1>4. i >= n - 1 /\ c = stop_seq[1] /\ \A k \in 1 .. n : buf[i - n + k] = stop_seq[k]
  BY DEF StopSeen
<1>5. m \in Nat /\ m + n <= FrameLen /\ m + n = i + 1
  BY <1>1, <1>2, <1>4, Marks
<1>6. \A k \in 1 .. n - 1 : m + k \in 1 .. i /\ (m + k) - 1 = i - n + k /\ k \in 1 .. n
  <2>1. i \in Nat /\ n \in Nat /\ i >= n - 1
    BY <1>1, <1>2, <1>4
  <2> HIDE DEF i, n
  <2> QED
    BY <2>1
<1>7. \A k \in 1 .. n - 1 : s[m + k] = stop_seq[k]
  BY <1>4, <1>6 DEF Filled
<1>8. s[m + n] = stop_seq[1]
  BY <1>4, <1>5
<1> HIDE DEF m, s
<1>9. \A k \in 1 .. n : s[m + k] = FalseStop[k]
  <2>1. \A k \in 1 .. n : k = n \/ k \in 1 .. n - 1
    BY <1>1
  <2> QED
    BY <1>3, <1>7, <1>8, <2>1
<1>10. FalseStop # <<>>
  BY <1>1, <1>3
<1> HIDE DEF n
<1>11. Holds(s, FalseStop)
  BY <1>1, <1>2, <1>3, <1>5, <1>9, <1>10, HoldsAt
<1>12. ASSUME Marked(f) PROVE Len(f.prog) <= i
  <2> DEFINE q == Core(f)
  <2>1. /\ q \in Seq(Byte) /\ Len(q) = Len(f.prog) + n /\ Len(f.prog) \in Nat
        /\ \A k \in 1 .. Len(q) : s[k] = q[k]
    <3>1. f.prog \in Seq(Byte)
      BY Parts
    <3>2. Len(f.prog) \in Nat
      BY <3>1
    <3> QED
      BY <3>2, Parts, RestAt DEF n, s
  <2>2. ~ Holds(q, FalseStop)
    BY <1>12 DEF Marked, Core
  <2> HIDE DEF q, i
  <2>3. ~ m + n <= Len(q)
    <3>1. SUFFICES ASSUME m + n <= Len(q) PROVE FALSE
      OBVIOUS
    <3>2. \A k \in 1 .. n : m + k \in 1 .. Len(q)
      BY <1>1, <1>5, <2>1, <3>1
    <3>3. \A k \in 1 .. Len(FalseStop) : q[m + k] = FalseStop[k]
      BY <1>3, <1>9, <2>1, <3>2
    <3>4. m + Len(FalseStop) <= Len(q) /\ m \in Nat
      BY <1>3, <1>5, <3>1
    <3> QED
      BY <1>3, <1>10, <2>1, <2>2, <3>3, <3>4, HoldsAt
  <2> QED
    BY <1>1, <1>2, <1>5, <2>1, <2>3
<1> QED
  BY <1>11, <1>12 DEF s, i

(* A byte goes out.                                                         *)
LEMMA ByteOut ==
  ASSUME LineInv, Sending, out # <<>>, out' = Tail(out), frames' = frames
  PROVE  /\ Sending' /\ Sent' = Sent + 1 /\ Sent \in Nat /\ Sent + 1 <= FrameLen
         /\ Head(out) = Frame(frames[2])[Sent + 1]
<1>1. out \in Seq(Byte) /\ Len(out) <= FrameLen /\ FrameLen \in Nat
  BY Marks DEF LineInv, ServerOK
<1>2. /\ Len(out) \in Nat /\ Len(out) > 0 /\ Len(out') = Len(out) - 1
      /\ \A k \in 1 .. Len(out') : out'[k] = out[k + 1] /\ k + 1 \in 1 .. Len(out)
      /\ Head(out) = out[1] /\ 1 \in 1 .. Len(out)
  BY <1>1
<1>3. Sent' = Sent + 1 /\ Sent \in Nat /\ Sent + 1 <= FrameLen
  BY <1>1, <1>2 DEF Sent
<1>4. Head(out) = Frame(frames[2])[Sent + 1]
  BY <1>2 DEF Sending
<1>5. \A k \in 1 .. Len(out') : Sent + (k + 1) = Sent' + k
  BY <1>2, <1>3
<1>6. \A k \in 1 .. Len(out') : out'[k] = Frame(frames'[2])[Sent' + k]
  BY <1>2, <1>5 DEF Sending
<1> QED
  BY <1>3, <1>4, <1>6 DEF Sending

(* It is looked at for a start sequence.                                    *)
LEMMA ByteSearched ==
  ASSUME LineInv, IsFrame(frames[2]), frames' = frames, Matching,
         Sent' = Sent + 1, Sent \in Nat, Sent + 1 <= FrameLen,
         NEW c, c = Frame(frames[2])[Sent + 1], SearchStart(c)
  PROVE  Matching' /\ Reading' /\ client'.pc # "run"
<1> DEFINE i == client.i
           F == Frame(frames[2])
<1>1. /\ client \in ClientRecord /\ i \in Nat /\ i < L /\ client.pc = "start"
      /\ client' \in ClientRecord
  <2>1. client \in ClientRecord /\ client.pc = "start" /\ client.i < L
    BY DEF SearchStart, LineInv, ClientOK, L
  <2>2. client.i \in Nat
    BY <2>1, Marks DEF ClientRecord, Index
  <2>4. \/ client' = [client EXCEPT !.i = 0]
        \/ client' = [pc |-> "data", i |-> 0]
        \/ client' = [client EXCEPT !.i = client.i + 1] /\ client.i + 1 < L
    BY <2>1, <2>2, Marks DEF SearchStart, ClientRecord, L
  <2>5. 0 \in Index /\ (client.i + 1 < L => client.i + 1 \in Index)
    BY <2>2, Constants DEF Index, L
  <2> QED
    BY <2>1, <2>2, <2>4, <2>5 DEF ClientRecord
<1>2. \A k \in 1 .. L : F[k] = start_seq[k]
  BY FrameAt
<1>3. CASE c # start_seq[i + 1]
  <2>1. client' = [client EXCEPT !.i = 0]
    BY <1>3 DEF SearchStart
  <2>2. client'.i = 0 /\ client'.pc = "start"
    BY <1>1, <2>1 DEF ClientRecord
  <2> QED
    BY <2>2 DEF Matching, Reading
<1>4. CASE c = start_seq[i + 1]
  <2>1. i = 0 \/ (i <= Sent /\ \A k \in 1 .. i : F[Sent - i + k] = start_seq[k])
    <3>1. SUFFICES ASSUME i # 0, Sent = 0 PROVE FALSE
      BY <1>1 DEF Matching
    <3>2. c = start_seq[1]
      BY <1>2, <3>1, Marks
    <3>3. i + 1 \in 2 .. L
      BY <1>1, <3>1, Marks
    <3> HIDE DEF i
    <3> QED
      BY <1>4, <3>2, <3>3, Marks
  <2> DEFINE m == Sent - i
  <2>2. m \in Nat /\ m + i = Sent /\ \A k \in 1 .. i : F[m + k] = start_seq[k]
    BY <1>1, <2>1
  <2> HIDE DEF m, i
  <2>7. m + (i + 1) = Sent + 1
    BY <1>1, <2>2
  <2>3. F[m + (i + 1)] = start_seq[i + 1]
    BY <1>4, <2>7
  <2> HIDE DEF F
  <2>4. \A k \in 1 .. i + 1 : F[m + k] = start_seq[k]
    BY <1>1, <2>2, <2>3
  <2>5. CASE i + 1 = L
    <3>1. client' = [pc |-> "data", i |-> 0]
      BY <1>4, <2>5 DEF SearchStart, L, i
    <3>2. client'.pc = "data" /\ client'.i = 0 /\ ~ client'.i >= Sent'
      BY <3>1
    <3>3. ASSUME Marked(frames[2]) PROVE Sent' = L + client'.i /\ Filled(frames[2])'
      <4>1. m + L <= FrameLen
        <5>1. m + L = Sent + 1
          BY <2>5, <2>7
        <5> QED
          BY <5>1
      <4>2. \A k \in 1 .. L : Frame(frames[2])[m + k] = start_seq[k]
        BY <2>4, <2>5 DEF F
      <4>3. m = 0
        BY <2>2, <3>3, <4>1, <4>2, OnlyAtStart
      <4>4. Sent' = L + client'.i /\ 1 .. client'.i = {}
        BY <1>1, <2>2, <2>5, <3>2, <4>3, Marks
      <4> QED
        BY <4>4 DEF Filled
    <3>4. Marked(frames[2])' = Marked(frames[2])
      BY DEF Marked
    <3> QED
      BY <3>2, <3>3, <3>4 DEF Matching, Reading
  <2>6. CASE i + 1 # L
    <3>1. client' = [client EXCEPT !.i = i + 1]
      BY <1>1, <1>4, <2>6 DEF SearchStart, L, ClientRecord, i
    <3>2. client'.i = i + 1 /\ client'.pc = "start"
      BY <1>1, <3>1 DEF ClientRecord
    <3> HIDE DEF i
    <3>3. client'.i <= Sent' /\ Sent' - client'.i = m
      BY <1>1, <2>2, <3>2
    <3>4. \A k \in 1 .. client'.i : Frame(frames'[2])[Sent' - client'.i + k] = start_seq[k]
      BY <2>4, <3>2, <3>3 DEF F
    <3> QED
      BY <3>2, <3>3, <3>4 DEF Matching, Reading
  <2> QED
    BY <2>5, <2>6
<1> QED
  BY <1>3, <1>4

(* It is read for a program: put into the buffer, unless a stop is seen.    *)
LEMMA Reads ==
  ASSUME ClientOK, NEW c, ReadData(c)
  PROVE  /\ client.i \in Nat /\ client.i < buflen - 1 /\ client.pc = "data"
         /\ \A k \in 1 .. client.i : buf'[k - 1] = buf[k - 1]
         /\ \/ StopSeen(c) /\ client'.pc = "run"
            \/ /\ ~ StopSeen(c) /\ buf'[client.i] = c /\ client'.i = client.i + 1
               /\ IF client.i + 1 < buflen - 1 THEN client'.pc = "data"
                  ELSE client'.pc = "run" /\ client.i + 1 = buflen - 1
<1> DEFINE i == client.i
<1>1. /\ client \in ClientRecord /\ i \in Nat /\ i < buflen - 1 /\ client.pc = "data"
      /\ buf \in [Index -> Byte]
  BY Marks DEF ReadData, ClientOK, ClientRecord, Index
<1>2. i \in Index /\ i + 1 \in Index /\ i # i + 1
  BY <1>1, Marks DEF Index
<1>3. \A k \in 1 .. i : k - 1 \in Index /\ k - 1 # i /\ k - 1 # i + 1
  <2> HIDE DEF i
  <2> QED
    BY <1>1, Marks DEF Index
<1>4. CASE StopSeen(c)
  <2>1. client' = [client EXCEPT !.pc = "run"] /\ buf' = [buf EXCEPT ![i] = Zero]
    BY <1>4 DEF ReadData
  <2>2. client'.pc = "run"
    BY <1>1, <2>1 DEF ClientRecord
  <2>3. \A k \in 1 .. i : buf'[k - 1] = buf[k - 1]
    BY <1>1, <1>3, <2>1
  <2> QED
    BY <1>1, <1>4, <2>2, <2>3
<1>5. CASE ~ StopSeen(c)
  <2>1. /\ client' = [pc |-> IF i + 1 < buflen - 1 THEN "data" ELSE "run", i |-> i + 1]
        /\ \/ buf' = [buf EXCEPT ![i] = c]
           \/ buf' = [buf EXCEPT ![i] = c, ![i + 1] = Zero]
    BY <1>1, <1>5 DEF ReadData, ClientRecord
  <2>2. buf'[i] = c /\ \A k \in 1 .. i : buf'[k - 1] = buf[k - 1]
    <3> HIDE DEF i
    <3> QED
      BY <1>1, <1>2, <1>3, <2>1
  <2>3. /\ client'.i = i + 1
        /\ IF i + 1 < buflen - 1 THEN client'.pc = "data"
           ELSE client'.pc = "run" /\ i + 1 = buflen - 1
    BY <1>1, <2>1, Marks
  <2> QED
    BY <1>1, <1>5, <2>2, <2>3
<1> QED
  BY <1>4, <1>5

(* f's program is at the front of b.                                        *)
Has(f, b) == f.prog # <<>> /\ \A k \in DOMAIN f.prog : b[k - 1] = f.prog[k]

(* What RunsWhole says of a jump.                                           *)
RightRun ==
  Marked(frames[1]) /\ Marked(frames[2]) =>
    \/ Has(frames[1], buf') /\ Len(out') + L >= FrameLen
    \/ Has(frames[2], buf') /\ Holds(Rest(frames[2]), FalseStop)

(* A buffer that agrees with what follows f's start sequence for the length *)
(* of its program has the program.                                          *)
LEMMA HasIt ==
  ASSUME NEW f, IsFrame(f), NEW b, NEW n \in Nat, Len(f.prog) <= n,
         \A k \in 1 .. n : b[k - 1] = Rest(f)[k]
  PROVE  Has(f, b)
<1>1. f.prog \in Seq(Byte) /\ f.prog # <<>> /\ Len(Core(f)) = Len(f.prog) + Len(stop_seq)
      /\ \A k \in 1 .. Len(f.prog) : Core(f)[k] = f.prog[k]
  BY Parts
<1>2. Len(f.prog) \in Nat /\ Len(stop_seq) \in Nat /\ DOMAIN f.prog = 1 .. Len(f.prog)
  BY <1>1, ProgramLineAssumption
<1>3. \A k \in 1 .. Len(f.prog) : k \in 1 .. n /\ k \in 1 .. Len(Core(f))
  BY <1>1, <1>2
<1>4. \A k \in 1 .. Len(f.prog) : Rest(f)[k] = f.prog[k]
  BY <1>1, <1>3, RestAt
<1> QED
  BY <1>1, <1>2, <1>3, <1>4 DEF Has

LEMMA ByteRead ==
  ASSUME LineInv, IsFrame(frames[2]), frames' = frames, Reading,
         Sent' = Sent + 1, Sent \in Nat, Sent + 1 <= FrameLen, Len(out') \in Nat,
         NEW c, c = Frame(frames[2])[Sent + 1], ReadData(c)
  PROVE  /\ Matching' /\ Reading'
         /\ client'.pc = "run" => RightRun
<1> DEFINE i == client.i
<1>0. ClientOK
  BY DEF LineInv
<1>1. /\ i \in Nat /\ i < buflen - 1 /\ client.pc = "data"
      /\ \A k \in 1 .. i : buf'[k - 1] = buf[k - 1]
      /\ \/ StopSeen(c) /\ client'.pc = "run"
         \/ /\ ~ StopSeen(c) /\ buf'[i] = c /\ client'.i = i + 1
            /\ IF i + 1 < buflen - 1 THEN client'.pc = "data"
               ELSE client'.pc = "run" /\ i + 1 = buflen - 1
  BY <1>0, Reads
<1>2. /\ i \in Nat /\ L \in Nat /\ L > 0 /\ FrameLen \in Nat /\ buflen \in Nat
      /\ FrameLen - L + 1 < buflen /\ buflen <= FrameLen + 1 /\ i < FrameLen
  BY <1>1, Marks
<1>3. ASSUME NEW f, Filled(f), c = Rest(f)[i + 1], ~ StopSeen(c)
      PROVE  \A k \in 1 .. i + 1 : buf'[k - 1] = Rest(f)[k]
  <2> SUFFICES ASSUME NEW k \in 1 .. i + 1 PROVE buf'[k - 1] = Rest(f)[k]
    OBVIOUS
  <2>1. k = i + 1 \/ k \in 1 .. i
    BY <1>1
  <2>2. (i + 1) - 1 = i
    BY <1>1
  <2> QED
    BY <1>1, <1>3, <2>1, <2>2 DEF Filled
<1>4. Matching'
  BY <1>1 DEF Matching
<1>5. CASE i >= Sent
  <2>1. IsFrame(frames[1])
    BY <1>1, <1>5 DEF Reading
  <2>2. ASSUME Marked(frames[1])
        PROVE  /\ Sent + FrameLen = L + i /\ Filled(frames[1])
               /\ c = Rest(frames[1])[i + 1] /\ Sent + 1 <= L
    <3>1. Sent + FrameLen = L + i /\ Filled(frames[1])
      BY <1>1, <1>5, <2>2 DEF Reading
    <3>2. Sent + 1 \in 1 .. L /\ FrameLen - L + (Sent + 1) = i + 1
      <4> HIDE DEF i
      <4> QED
        BY <1>2, <3>1
    <3>3. c = start_seq[Sent + 1]
      BY <3>2, FrameAt
    <3>4. c = Rest(frames[1])[i + 1]
      BY <2>1, <3>2, <3>3, RestAt
    <3> QED
      BY <3>1, <3>2, <3>4
  <2>3. ASSUME client'.pc = "data" PROVE Reading'
    <3>1. ~ StopSeen(c) /\ client'.i = i + 1 /\ client'.i >= Sent'
      BY <1>1, <1>5, <2>3
    <3>2. ASSUME Marked(frames[1]) PROVE Sent' + FrameLen = L + client'.i
      <4>1. Sent + FrameLen = L + i /\ client'.i = i + 1
        BY <2>2, <3>1, <3>2
      <4> HIDE DEF i
      <4> QED
        BY <1>2, <4>1
    <3>3. ASSUME Marked(frames[1]) PROVE \A k \in 1 .. client'.i : buf'[k - 1] = Rest(frames[1])[k]
      BY <1>3, <2>2, <3>1, <3>3
    <3>4. /\ IsFrame(frames[1])' /\ Marked(frames[1])' = Marked(frames[1])
          /\ (\A k \in 1 .. client'.i : buf'[k - 1] = Rest(frames[1])[k]) => Filled(frames[1])'
      BY <2>1 DEF IsFrame, Marked, Filled, Rest
    <3> QED
      BY <3>1, <3>2, <3>3, <3>4 DEF Reading
  <2>4. ASSUME client'.pc = "run", Marked(frames[1]) PROVE RightRun
    <3>1. Len(frames[1].prog) <= i
      <4>1. /\ frames[1].prog \in Seq(Byte) /\ L + Len(Core(frames[1])) <= FrameLen
            /\ Len(Core(frames[1])) = Len(frames[1].prog) + Len(stop_seq)
        BY <2>1, Parts
      <4>2. Len(frames[1].prog) \in Nat /\ Len(stop_seq) \in Nat
        BY <4>1, ProgramLineAssumption
      <4>3. Sent + FrameLen = L + i
        BY <2>2, <2>4
      <4>4. i \in Nat /\ L \in Nat /\ FrameLen \in Nat
        BY <1>2
      <4>5. L + (Len(frames[1].prog) + Len(stop_seq)) <= FrameLen
        BY <4>1
      <4> HIDE DEF i
      <4>6. FrameLen <= L + i
        BY <4>3, <4>4
      <4> QED
        BY <4>2, <4>4, <4>5, <4>6
    <3>2. Has(frames[1], buf')
      <4>1. \A k \in 1 .. i : buf'[k - 1] = Rest(frames[1])[k]
        BY <1>1, <2>2, <2>4 DEF Filled
      <4>2. IsFrame(frames[1]) /\ Len(frames[1].prog) <= i /\ i \in Nat
        BY <1>1, <2>1, <3>1
      <4> HIDE DEF i
      <4> QED
        BY <4>1, <4>2, HasIt
    <3>3. Len(out') + L >= FrameLen
      <4>1. Sent + 1 <= L /\ Sent' = FrameLen - Len(out') /\ Len(out') \in Nat
        BY <2>2, <2>4 DEF Sent
      <4> QED
        BY <1>2, <4>1
    <3> QED
      BY <3>2, <3>3 DEF RightRun
  <2>5. client'.pc \in {"data", "run"}
    BY <1>1
  <2>6. client'.pc = "run" => Reading'
    BY DEF Reading
  <2> QED
    BY <1>4, <2>3, <2>4, <2>5, <2>6 DEF RightRun
<1>6. CASE ~ i >= Sent
  <2>2. ASSUME Marked(frames[2])
        PROVE  /\ Sent = L + i /\ Filled(frames[2])
               /\ c = Rest(frames[2])[i + 1]
    <3>1. Sent = L + i /\ Filled(frames[2])
      BY <1>1, <1>6, <2>2 DEF Reading
    <3>2. i + 1 \in 1 .. FrameLen - L /\ L + (i + 1) = Sent + 1
      <4> HIDE DEF i
      <4> QED
        BY <1>2, <3>1
    <3>3. c = Rest(frames[2])[i + 1]
      BY <3>2, RestAt
    <3> QED
      BY <3>1, <3>3
  <2>3. ASSUME client'.pc = "data" PROVE Reading'
    <3>1. ~ StopSeen(c) /\ client'.i = i + 1 /\ ~ client'.i >= Sent'
      BY <1>1, <1>6, <2>3
    <3>2. ASSUME Marked(frames[2]) PROVE Sent' = L + client'.i
      <4>1. Sent = L + i /\ client'.i = i + 1
        BY <2>2, <3>1, <3>2
      <4> HIDE DEF i
      <4> QED
        BY <1>2, <4>1
    <3>3. ASSUME Marked(frames[2]) PROVE \A k \in 1 .. client'.i : buf'[k - 1] = Rest(frames[2])[k]
      BY <1>3, <2>2, <3>1, <3>3
    <3>4. /\ Marked(frames[2])' = Marked(frames[2])
          /\ (\A k \in 1 .. client'.i : buf'[k - 1] = Rest(frames[2])[k]) => Filled(frames[2])'
      BY DEF Marked, Filled, Rest
    <3> QED
      BY <3>1, <3>2, <3>3, <3>4 DEF Reading
  <2>4. ASSUME client'.pc = "run", Marked(frames[2]) PROVE RightRun
    <3>1. StopSeen(c)
      <4>1. SUFFICES ASSUME i + 1 = buflen - 1 PROVE FALSE
        BY <1>1, <2>4
      <4>2. Sent = L + i
        BY <2>2, <2>4
      <4> HIDE DEF i
      <4> QED
        BY <1>2, <4>1, <4>2
    <3>2. Holds(Rest(frames[2]), FalseStop) /\ Len(frames[2].prog) <= i
      BY <1>0, <1>1, <1>2, <2>2, <2>4, <3>1, StopAt
    <3>3. Has(frames[2], buf')
      <4>1. \A k \in 1 .. i : buf'[k - 1] = Rest(frames[2])[k]
        BY <1>1, <2>2, <2>4 DEF Filled
      <4>2. IsFrame(frames[2]) /\ Len(frames[2].prog) <= i /\ i \in Nat
        BY <1>1, <3>2
      <4> HIDE DEF i
      <4> QED
        BY <4>1, <4>2, HasIt
    <3> QED
      BY <3>2, <3>3 DEF RightRun
  <2>5. client'.pc \in {"data", "run"}
    BY <1>1
  <2>6. client'.pc = "run" => Reading'
    BY DEF Reading
  <2> QED
    BY <1>4, <2>3, <2>4, <2>5, <2>6 DEF RightRun
<1> QED
  BY <1>5, <1>6

LEMMA InitWhole == Init => WholeInv
<1> SUFFICES ASSUME Init PROVE WholeInv
  OBVIOUS
<1>1. Silent
  BY DEF Init, Silent
<1> QED
  BY <1>1, InitLine DEF WholeInv

(* A byte that is sent.                                                     *)
LEMMA PutWhole ==
  ASSUME WholeInv, LineInv', sw_uart_put8
  PROVE  /\ (Sending /\ Matching /\ Reading)'
         /\ client.pc # "run" /\ client'.pc = "run" => RightRun
<1>1. out # <<>> /\ out' = Tail(out) /\ frames' = frames
  BY DEF sw_uart_put8
<1>2. LineInv /\ Sending /\ Matching /\ Reading
  BY <1>1 DEF WholeInv, Silent
<1>3. IsFrame(frames[2])
  BY <1>2 DEF Sending
<1> DEFINE c == Head(out)
<1>4. /\ Sending' /\ Sent' = Sent + 1 /\ Sent \in Nat /\ Sent + 1 <= FrameLen
      /\ c = Frame(frames[2])[Sent + 1]
  BY <1>1, <1>2, ByteOut
<1>5. \/ SearchStart(c)
      \/ ReadData(c)
      \/ client.pc \in {"off", "run", "lost"} /\ UNCHANGED <<client, buf>>
  BY DEF sw_uart_put8
<1>6. Len(out') \in Nat
  <2>1. out' \in Seq(Byte)
    BY DEF LineInv, ServerOK
  <2> QED
    BY <2>1
<1> HIDE DEF c
<1>7. CASE SearchStart(c)
  <2>1. Matching' /\ Reading' /\ client'.pc # "run"
    BY <1>1, <1>2, <1>3, <1>4, <1>7, ByteSearched
  <2> QED
    BY <1>4, <2>1
<1>8. CASE ReadData(c)
  <2>1. Matching' /\ Reading' /\ (client'.pc = "run" => RightRun)
    BY <1>1, <1>2, <1>3, <1>4, <1>6, <1>8, ByteRead
  <2> QED
    BY <1>4, <2>1
<1>9. CASE client.pc \in {"off", "run", "lost"} /\ UNCHANGED <<client, buf>>
  <2>1. Matching' /\ Reading'
    BY <1>9 DEF Matching, Reading
  <2> QED
    BY <1>4, <1>9, <2>1
<1> QED
  BY <1>5, <1>7, <1>8, <1>9

(* The next frame: what the client had found before is in the last one.     *)
LEMMA RunWhole ==
  ASSUME WholeInv, run_prog
  PROVE  (Sending /\ Matching /\ Reading)'
<1>0. PICK f : IsFrame(f) /\ out' = Frame(f) /\ frames' = <<frames[2], f>>
  BY Framed
<1>1. out = <<>> /\ UNCHANGED <<client, buf>>
  BY Framed
<1>2. Len(out) = 0 /\ Sent = FrameLen
  BY <1>1, Marks DEF Sent
<1>3. Len(out') = FrameLen /\ Sent' = 0 /\ FrameLen \in Nat
  BY <1>0, FrameAt, Marks DEF Sent
<1>4. frames'[2] = f /\ frames'[1] = frames[2]
  BY <1>0
<1>5. Sending'
  <2>1. \A k \in 1 .. Len(out') : out'[k] = Frame(f)[Sent' + k]
    BY <1>0, <1>3
  <2>2. IsFrame(frames[2])' = IsFrame(f) /\ \A k : Frame(frames[2])'[k] = Frame(f)[k]
    BY <1>4 DEF IsFrame, Frame
  <2> QED
    BY <1>0, <2>1, <2>2 DEF Sending
<1>6. Matching'
  BY <1>3 DEF Matching
<1>7. Reading'
  <2> SUFFICES ASSUME client.pc = "data" PROVE Reading'
    BY <1>1 DEF Reading
  <2>1. Sending /\ Reading
    BY DEF WholeInv, Silent
  <2>2. client.i \in Nat /\ client.i < buflen - 1
    BY Marks DEF WholeInv, LineInv, ClientOK, ClientRecord, Index
  <2>3. ~ client.i >= Sent /\ client'.i >= Sent'
    BY <1>1, <1>2, <1>3, <2>2, Marks
  <2>4. Marked(frames[2]) => Sent = L + client.i /\ Filled(frames[2])
    BY <2>1, <2>3 DEF Reading
  <2>5. Sent = L + client.i => Sent' + FrameLen = L + client'.i
    BY <1>1, <1>2, <1>3
  <2>6. /\ IsFrame(frames[1])' = IsFrame(frames[2]) /\ Marked(frames[1])' = Marked(frames[2])
        /\ Filled(frames[1])' = Filled(frames[2])
    BY <1>1, <1>4 DEF IsFrame, Marked, Filled, Rest
  <2> QED
    BY <2>1, <2>3, <2>4, <2>5, <2>6 DEF Reading, Sending
<1> QED
  BY <1>5, <1>6, <1>7

LEMMA NextWhole ==
  ASSUME WholeInv, [Next]_vars
  PROVE  WholeInv' /\ (client.pc # "run" /\ client'.pc = "run" => RightRun)
<1>1. LineInv'
  BY NextLine DEF WholeInv
<1>2. CASE run_prog
  <2>1. client' = client
    BY <1>2 DEF run_prog
  <2> QED
    BY <1>1, <1>2, <2>1, RunWhole DEF WholeInv
<1>3. CASE sw_uart_put8
  BY <1>1, <1>3, PutWhole DEF WholeInv
<1>4. CASE PowerOn \/ BRANCHTO
  <2>1. /\ \E pc \in {"start", "off", "lost"} : client' = [pc |-> pc, i |-> 0]
        /\ out' = out /\ frames' = frames
        /\ client.pc = "off" => client'.pc = "start"
    BY <1>4 DEF PowerOn, BRANCHTO, JobDone
  <2>2. client'.pc \in {"start", "off", "lost"} /\ client'.i = 0
    BY <2>1
  <2>3. Silent => Silent'
    <3>1. Silent => client.pc = "off"
      BY <1>4 DEF Silent, PowerOn, BRANCHTO
    <3> QED
      BY <2>1, <2>2, <3>1 DEF Silent
  <2>4. Sending => (Sending /\ Matching /\ Reading)'
    BY <2>1, <2>2 DEF Sending, Sent, Matching, Reading, IsFrame
  <2> QED
    BY <1>1, <2>2, <2>3, <2>4 DEF WholeInv
<1>5. CASE UNCHANGED vars
  <2>1. out' = out /\ frames' = frames /\ client' = client /\ buf' = buf
    BY <1>5 DEF vars
  <2>2. Silent => Silent'
    BY <2>1 DEF Silent
  <2>3. Sending /\ Matching /\ Reading => (Sending /\ Matching /\ Reading)'
    BY <2>1 DEF Sending, Sent, Matching, Reading, Filled, IsFrame, Marked, Rest
  <2> QED
    BY <1>1, <2>1, <2>2, <2>3 DEF WholeInv
<1> QED
  BY <1>2, <1>3, <1>4, <1>5 DEF Next

(* If the last two frames are marked, the client only jumps to a whole      *)
(* program: that of the frame before, when the next one begins, or its own  *)
(* at a false stop behind it; whenever it was switched on, however long its *)
(* jobs take, whatever they leave in the buffer, and whatever bytes the     *)
(* server's stack holds behind the programs.                                *)
THEOREM OnlyWhole == Spec => RunsWhole
<1>1. WholeInv /\ [Next]_vars =>
        [client.pc # "run" /\ client'.pc = "run" /\ Marked(frames[1]) /\ Marked(frames[2])
           => \/ Whole(frames[1])' /\ Len(out') + Len(start_seq) >= FrameLen
              \/ Whole(frames[2])' /\ Holds(Rest(frames[2]), FalseStop)]_vars
  <2> SUFFICES ASSUME WholeInv, [Next]_vars, client.pc # "run", client'.pc = "run",
                      Marked(frames[1]), Marked(frames[2])
               PROVE  \/ Whole(frames[1])' /\ Len(out') + Len(start_seq) >= FrameLen
                      \/ Whole(frames[2])' /\ Holds(Rest(frames[2]), FalseStop)
    OBVIOUS
  <2>1. RightRun
    BY NextWhole
  <2>2. frames' = frames
    BY DEF Next, run_prog, sw_uart_put8, PowerOn, BRANCHTO, vars
  <2> QED
    BY <2>1, <2>2 DEF RightRun, Has, Whole, Begins, L
<1> QED
  BY <1>1, InitWhole, NextWhole, PTL DEF Spec, RunsWhole
=============================================================================
