------------------------ MODULE FileTableMem_proofs ------------------------
(***************************************************************************)
(* Proofs about FileTableMem, for every number of entries, every heap and  *)
(* every number of messages: as long as memory lasts, and provided that no *)
(* two of the peers' numbers are so close that their initial messages      *)
(* overlap, each message stays what was written to it.                     *)
(***************************************************************************)
EXTENDS FileTableMem, TLAPS

(* The initial messages of two peers do not overlap: init_fileTable gives   *)
(* each of them Align words, and a message has five.                        *)
PeersApart == \A p, q \in Peers : p < q => Align * (q - p) >= MSG

(* There is a free word left.                                               *)
MemoryLasts == hp <= MemWords

MsgType == [at : Nat \ {0}, has_cmd : {0, 1}, totPckts : Nat, curPckts : Nat, data : Nat]

Types ==
  /\ mem \in [1 .. MemWords -> Nat] /\ hp \in Nat /\ cur_msg \in [Peers -> Nat]
  /\ msg_q \in [Peers -> QType] /\ left \in [Peers -> Nat] /\ sent \in [Peers -> 0 .. MaxMsgs]
  /\ should \in [Peers -> Seq(MsgType)] /\ \A p \in Peers : Len(should[p]) > 0
  /\ wild = FALSE

Addr(m) == Word(m.at)

(* What next of message k of the messages s points to.                      *)
Before(s, k) == IF k = 1 THEN NULL ELSE s[k - 1].at

(* Memory M holds the fields of message m.                                  *)
Holds(M, m) ==
  /\ M[Addr(m)] = m.has_cmd /\ M[Addr(m) + 1] = m.totPckts
  /\ M[Addr(m) + 2] = m.curPckts /\ M[Addr(m) + 3] = m.data

(* Message k of s lies below h and is held in M, linked when it is queued.  *)
Stored(M, h, s, k) ==
  /\ Addr(s[k]) \in Nat /\ Addr(s[k]) > 0 /\ Addr(s[k]) + MSG <= h
  /\ Holds(M, s[k])
  /\ k < Len(s) => M[Addr(s[k]) + 4] = Before(s, k)

Clear(v, w) == v + MSG <= w \/ w + MSG <= v

Apart ==
  \A p, q \in Peers : \A k \in 1 .. Len(should[p]), j \in 1 .. Len(should[q]) :
    p # q \/ k # j => Clear(Addr(should[p][k]), Addr(should[q][j]))

(* What kmalloc will hand out is zero.                                      *)
FreeIsZero == \A w \in 1 .. MemWords : w >= hp => mem[w] = 0

Room(p) == Current(p).has_cmd = 1 => Current(p).curPckts < Current(p).totPckts

QueueOK(p) ==
  /\ cur_msg[p] = Current(p).at
  /\ msg_q[p].head = Before(should[p], Len(should[p]))
  /\ msg_q[p].cnt = Len(should[p]) - 1
  /\ Len(should[p]) = 1 => msg_q[p].tail = NULL

MsgsOK ==
  /\ Types /\ Apart /\ FreeIsZero
  /\ \A p \in Peers : Room(p) /\ QueueOK(p)
  /\ \A p \in Peers : \A k \in 1 .. Len(should[p]) : Stored(mem, hp, should[p], k)

(* The head of the program's copy is the message k of its peer.             *)
HeadAt(k) == fds.head = IF k = 0 THEN NULL ELSE should[fds.p][k].at

CopyAt(k) ==
  /\ HeadAt(k) /\ fds.cnt >= k
  /\ ~ fds.torn => fds.cnt = k /\ (k = 0 => fds.tail = NULL)

FdsType == [pc : {"idle", "tail", "cnt", "copied", "panic"}, p : Peers, torn : BOOLEAN,
            head : Nat, tail : Nat, cnt : Nat]

FdsOK ==
  /\ fds \in FdsType
  /\ fds.pc \in {"tail", "cnt"} =>
       ~ fds.torn /\ \E k \in Nat : k < Len(should[fds.p]) /\ HeadAt(k)
  /\ fds.pc = "cnt" => (Len(should[fds.p]) = 1 => fds.tail = NULL)
  /\ fds.pc = "copied" => \E k \in Nat : k < Len(should[fds.p]) /\ CopyAt(k)
  /\ fds.pc = "panic" => fds.torn /\ fds.head = NULL

Full == MsgsOK /\ FdsOK

MemInv == hp \in Nat /\ (MemoryLasts => Full)

------------------------------------------------------------------------------
LEMMA Bytes ==
  /\ Byte(0) = 0 /\ Byte(1) = 1
  /\ \A v \in {0, 1}, b \in {0, 1} : SetByte(v, b) = b
BY DEF Byte, SetByte

LEMMA Pointers == \A w \in Nat : Ptr(w) \in Nat /\ Word(Ptr(w)) = w /\ (w > 0 => Ptr(w) > 0)
BY DEF Ptr, Word

LEMMA Sizes ==
  /\ MSG = 5 /\ RoundUp(MSG) \in Nat /\ RoundUp(MSG) >= MSG
  /\ \A n \in Nat : RoundUp(DataWords(n)) \in Nat
<1>1. \A n \in Nat : DataWords(n) \in Nat
  BY DEF DataWords
<1>2. \A n \in Nat : RoundUp(n) \in Nat /\ RoundUp(n) >= n
  BY DEF RoundUp
<1>3. MSG = 5 /\ MSG \in Nat
  BY DEF MSG
<1> HIDE DEF MSG
<1> QED
  BY <1>1, <1>2, <1>3

LEMMA FiveWords ==
  ASSUME NEW w \in Nat, w > 0, NEW h \in Nat, w + 5 <= h
  PROVE  /\ w \in 1 .. h /\ w + 1 \in 1 .. h /\ w + 2 \in 1 .. h
         /\ w + 3 \in 1 .. h /\ w + 4 \in 1 .. h
         /\ w # w + 1 /\ w # w + 2 /\ w # w + 3 /\ w + 1 # w + 2 /\ w + 1 # w + 3 /\ w + 2 # w + 3
         /\ w # w + 4 /\ w + 1 # w + 4 /\ w + 2 # w + 4 /\ w + 3 # w + 4
OBVIOUS

(* One element of a sequence is replaced; one is added.                     *)
LEMMA Replaced ==
  ASSUME NEW S, NEW s \in Seq(S), Len(s) > 0, NEW x \in S
  PROVE  LET t == [s EXCEPT ![Len(s)] = x]
         IN  /\ t \in Seq(S) /\ Len(t) = Len(s) /\ t[Len(s)] = x
             /\ \A k \in 1 .. Len(s) : k # Len(s) => t[k] = s[k]
OBVIOUS

LEMMA Added ==
  ASSUME NEW S, NEW s \in Seq(S), NEW x \in S
  PROVE  /\ Append(s, x) \in Seq(S) /\ Len(Append(s, x)) = Len(s) + 1
         /\ Append(s, x)[Len(s) + 1] = x
         /\ \A k \in 1 .. Len(s) : Append(s, x)[k] = s[k]
OBVIOUS

------------------------------------------------------------------------------
LEMMA InitMem ==
  ASSUME PeersApart, Init
  PROVE  MemInv
<1>1. /\ Align \in {1, 2} /\ HeapStart \in Nat /\ HeapStart > 0
      /\ MAXFILES \in Nat /\ MaxMsgs \in Nat
      /\ \A p \in Peers : p \in Nat /\ Align * (MAXFILES - p + 1) >= 5
  BY FileTableMemAssumption
<1>2. hp = HeapStart + Align * (MAXFILES + 1) /\ hp \in Nat
  BY <1>1 DEF Init
<1> DEFINE at(p) == HeapStart + Align * p
           m(p) == Msg(Initial(p), 0, 0, 0, NULL)
<1>3. \A p \in Peers : at(p) \in Nat /\ at(p) > 0 /\ at(p) + 5 <= hp
  <2>1. CASE Align = 1
    BY <1>1, <1>2, <2>1
  <2>2. CASE Align = 2
    BY <1>1, <1>2, <2>2
  <2> QED
    BY <1>1, <2>1, <2>2
<1>4. \A p, q \in Peers : p # q => Clear(at(p), at(q))
  <2> SUFFICES ASSUME NEW p \in Peers, NEW q \in Peers, p < q
               PROVE  Clear(at(p), at(q)) /\ Clear(at(q), at(p))
    BY <1>1
  <2>1. Align * (q - p) >= 5
    BY Sizes DEF PeersApart
  <2>2. CASE Align = 1
    BY <1>1, <2>1, <2>2, Sizes DEF Clear
  <2>3. CASE Align = 2
    BY <1>1, <2>1, <2>3, Sizes DEF Clear
  <2> QED
    BY <1>1, <2>2, <2>3
<1> HIDE DEF at
<1>5. ASSUME NEW p \in Peers
      PROVE  /\ m(p) \in MsgType /\ Word(m(p).at) = at(p) /\ m(p).at = Initial(p)
             /\ Initial(p) \in Nat
  <2>1. Initial(p) = Ptr(at(p)) /\ at(p) \in Nat /\ at(p) > 0
    BY <1>3 DEF Initial, at
  <2>2. Initial(p) \in Nat /\ Initial(p) > 0 /\ Word(Initial(p)) = at(p)
    BY <2>1, Pointers
  <2> QED
    BY <2>2 DEF MsgType, Msg, NULL
<1> HIDE DEF m
<1>6. /\ should = [p \in Peers |-> <<m(p)>>]
      /\ mem = [w \in 1 .. MemWords |-> 0] /\ cur_msg = [p \in Peers |-> Initial(p)]
      /\ msg_q = [p \in Peers |-> EmptyQ] /\ wild = FALSE
      /\ left = [p \in Peers |-> 0] /\ sent = [p \in Peers |-> 0]
  BY DEF Init, m
<1>7. \A p \in Peers : should[p] = <<m(p)>> /\ Len(should[p]) = 1 /\ should[p][1] = m(p)
                       /\ should[p] \in Seq(MsgType)
  BY <1>5, <1>6
<1>8. \A p \in Peers : \A k \in 1 .. Len(should[p]) : k = 1 /\ Addr(should[p][k]) = at(p)
  <2> SUFFICES ASSUME NEW p \in Peers, NEW k \in 1 .. Len(should[p])
               PROVE  k = 1 /\ Addr(should[p][k]) = at(p)
    OBVIOUS
  <2>1. k = 1
    <3>1. k \in 1 .. 1
      BY <1>7
    <3> QED
      BY <3>1
  <2>2. should[p][1].at = m(p).at
    BY <1>7
  <2> QED
    BY <1>5, <2>1, <2>2 DEF Addr
<1>9. \A p \in Peers : Current(p) = m(p)
  BY <1>7 DEF Current
<1>10. Types
  <2>1. EmptyQ \in QType
    BY DEF EmptyQ, QType, NULL
  <2>2. 0 \in 0 .. MaxMsgs
    BY <1>1
  <2>3. should \in [Peers -> Seq(MsgType)] /\ \A p \in Peers : Len(should[p]) > 0
    BY <1>6, <1>7
  <2> QED
    BY <1>2, <1>5, <1>6, <2>1, <2>2, <2>3 DEF Types
<1>11. Apart
  BY <1>4, <1>7, <1>8 DEF Apart
<1>12. FreeIsZero
  BY <1>6 DEF FreeIsZero
<1>13. ASSUME NEW p \in Peers PROVE Room(p) /\ QueueOK(p)
  <2>1. m(p).has_cmd = 0 /\ m(p).at = Initial(p)
    BY DEF m, Msg
  <2>2. msg_q[p].head = NULL /\ msg_q[p].cnt = 0 /\ msg_q[p].tail = NULL
    BY <1>6 DEF EmptyQ
  <2>3. cur_msg[p] = Initial(p) /\ Len(should[p]) = 1 /\ 1 - 1 = 0
    BY <1>6, <1>7
  <2> QED
    BY <1>9, <2>1, <2>2, <2>3 DEF Room, QueueOK, Before
<1>14. ASSUME MemoryLasts, NEW p \in Peers, NEW k \in 1 .. Len(should[p])
       PROVE  Stored(mem, hp, should[p], k)
  <2>1. Addr(should[p][k]) = at(p) /\ k = 1 /\ should[p][k] = m(p) /\ Len(should[p]) = 1
    BY <1>7, <1>8
  <2>2. /\ at(p) \in 1 .. MemWords /\ at(p) + 1 \in 1 .. MemWords
        /\ at(p) + 2 \in 1 .. MemWords /\ at(p) + 3 \in 1 .. MemWords
    <3>1. at(p) \in Nat /\ at(p) > 0 /\ MemWords \in Nat
      BY <1>3, FileTableMemAssumption
    <3>2. at(p) + 5 <= MemWords
      <4>1. at(p) + 5 <= hp /\ hp <= MemWords
        BY <1>3, <1>14 DEF MemoryLasts
      <4> QED
        BY <1>2, <3>1, <4>1
    <3> QED
      BY <3>1, <3>2, FiveWords
  <2>3. Holds(mem, m(p))
    <3>1. Addr(m(p)) = at(p)
      BY <2>1
    <3> QED
      BY <1>6, <2>2, <3>1 DEF Holds, m, Msg, NULL
  <2>4. ~ (k < Len(should[p]))
    BY <2>1
  <2> QED
    BY <1>3, <2>1, <2>3, <2>4, Sizes DEF Stored
<1>15. FdsOK
  <2>1. (CHOOSE p \in Peers : TRUE) \in Peers
    BY FileTableMemAssumption
  <2>2. fds = [pc |-> "idle", p |-> CHOOSE p \in Peers : TRUE, torn |-> FALSE,
               head |-> NULL, tail |-> NULL, cnt |-> 0]
    BY DEF Init
  <2>3. fds \in FdsType /\ fds.pc = "idle"
    BY <2>1, <2>2 DEF FdsType, NULL
  <2> QED
    BY <2>3 DEF FdsOK
<1> QED
  BY <1>2, <1>10, <1>11, <1>12, <1>13, <1>14, <1>15 DEF MemInv, Full, MsgsOK

------------------------------------------------------------------------------
(* Messages are only ever added, and none moves.                            *)
Grows ==
  \A p \in Peers : /\ Len(should'[p]) \in Nat /\ Len(should'[p]) >= Len(should[p])
                   /\ \A k \in 1 .. Len(should[p]) : should'[p][k].at = should[p][k].at

LEMMA Lens ==
  ASSUME Types, NEW p \in Peers
  PROVE  /\ should[p] \in Seq(MsgType) /\ Len(should[p]) \in Nat /\ Len(should[p]) > 0
         /\ Len(should[p]) \in 1 .. Len(should[p]) /\ Current(p) \in MsgType
         /\ \A k \in 1 .. Len(should[p]) : should[p][k] \in MsgType
<1>1. should[p] \in Seq(MsgType) /\ Len(should[p]) > 0
  BY DEF Types
<1>2. Len(should[p]) \in Nat /\ Len(should[p]) \in 1 .. Len(should[p])
  BY <1>1
<1> QED
  BY <1>1, <1>2 DEF Current

(* A message away from the words that are assigned stays as it was.         *)
LEMMA Untouched ==
  ASSUME NEW M, NEW N, NEW h \in Nat, NEW g \in Nat, h <= g, g <= MemWords,
         NEW s, NEW t, NEW k, Stored(M, h, s, k), t[k] = s[k],
         k < Len(t) => k < Len(s), Before(t, k) = Before(s, k),
         NEW b \in Nat, Clear(Addr(s[k]), b),
         \A v \in 1 .. MemWords : v < b \/ v >= b + MSG => N[v] = M[v]
  PROVE  Stored(N, g, t, k)
<1> DEFINE c == Addr(s[k])
<1>1. /\ c \in Nat /\ c > 0 /\ c + 5 <= h /\ MemWords \in Nat
      /\ M[c] = s[k].has_cmd /\ M[c + 1] = s[k].totPckts
      /\ M[c + 2] = s[k].curPckts /\ M[c + 3] = s[k].data
      /\ k < Len(s) => M[c + 4] = Before(s, k)
  BY Sizes, FileTableMemAssumption DEF Stored, Holds
<1>2. \A v \in 1 .. MemWords : v < b \/ v >= b + 5 => N[v] = M[v]
  BY Sizes
<1>3. c + 5 <= b \/ b + 5 <= c
  BY Sizes DEF Clear
<1> HIDE DEF c
<1>4. c + 5 <= g /\ c + 5 <= MemWords
  BY <1>1
<1>5. /\ c \in 1 .. MemWords /\ c + 1 \in 1 .. MemWords /\ c + 2 \in 1 .. MemWords
      /\ c + 3 \in 1 .. MemWords /\ c + 4 \in 1 .. MemWords
  BY <1>1, <1>4, FiveWords
<1>6. /\ c < b \/ c >= b + 5
      /\ c + 1 < b \/ c + 1 >= b + 5
      /\ c + 2 < b \/ c + 2 >= b + 5
      /\ c + 3 < b \/ c + 3 >= b + 5
      /\ c + 4 < b \/ c + 4 >= b + 5
  BY <1>1, <1>3
<1>7. /\ N[c] = M[c] /\ N[c + 1] = M[c + 1] /\ N[c + 2] = M[c + 2]
      /\ N[c + 3] = M[c + 3] /\ N[c + 4] = M[c + 4]
  BY <1>2, <1>5, <1>6
<1>8. Addr(t[k]) = c
  BY DEF c
<1>9. Holds(N, t[k])
  BY <1>1, <1>7, <1>8 DEF Holds
<1> QED
  BY <1>1, <1>4, <1>7, <1>8, <1>9, Sizes DEF Stored

------------------------------------------------------------------------------
(* The messages of p with the current one replaced by m.                    *)
Renewed(p, m) == [should[p] EXCEPT ![Len(should[p])] = m]

(* The handler assigns the fields of p's current message m, whose words are *)
(* the only ones to change.                                                 *)
Assigns(p, m) ==
  /\ m \in MsgType /\ m.at = Current(p).at
  /\ mem' \in [1 .. MemWords -> Nat] /\ Holds(mem', m)
  /\ \A v \in 1 .. MemWords : v < Addr(m) \/ v >= Addr(m) + MSG => mem'[v] = mem[v]
  /\ hp' \in Nat /\ hp' >= hp /\ wild' = FALSE
  /\ left' \in [Peers -> Nat] /\ sent' \in [Peers -> 0 .. MaxMsgs]

LEMMA Known ==
  ASSUME MsgsOK
  PROVE  /\ Types /\ Apart /\ FreeIsZero /\ \A q \in Peers : Room(q) /\ QueueOK(q)
         /\ \A q \in Peers : \A k \in 1 .. Len(should[q]) : Stored(mem, hp, should[q], k)
BY DEF MsgsOK

LEMMA Renews ==
  ASSUME Types, NEW p \in Peers, NEW m \in MsgType, m.at = Current(p).at
  PROVE  LET t == Renewed(p, m)
             n == Len(should[p])
         IN  /\ t \in Seq(MsgType) /\ Len(t) = n /\ t[n] = m
             /\ \A k \in 1 .. n : t[k].at = should[p][k].at
             /\ \A k \in 1 .. n : k # n => t[k] = should[p][k]
             /\ \A k \in 1 .. n : Before(t, k) = Before(should[p], k)
<1> DEFINE s == should[p]
           n == Len(s)
           t == Renewed(p, m)
<1>1. s \in Seq(MsgType) /\ n \in Nat /\ n > 0 /\ n \in 1 .. n
  BY Lens
<1>2. t = [s EXCEPT ![n] = m]
  BY DEF Renewed
<1>3. m.at = s[n].at
  BY DEF Current
<1> HIDE DEF s, t
<1>4. /\ t \in Seq(MsgType) /\ Len(t) = n /\ t[n] = m
      /\ \A k \in 1 .. n : k # n => t[k] = s[k]
  BY <1>1, <1>2, Replaced
<1>5. \A k \in 1 .. n : t[k].at = s[k].at
  BY <1>3, <1>4
<1>6. \A k \in 1 .. n : Before(t, k) = Before(s, k)
  <2> SUFFICES ASSUME NEW k \in 1 .. n, k # 1 PROVE t[k - 1].at = s[k - 1].at
    BY DEF Before
  <2>1. k - 1 \in 1 .. n
    BY <1>1
  <2> QED
    BY <1>5, <2>1
<1> QED
  BY <1>4, <1>5, <1>6 DEF s, t

(* The messages other than p's current one stay as they were.               *)
LEMMA OthersStay ==
  ASSUME MsgsOK, MemoryLasts', NEW p \in Peers, NEW m, Assigns(p, m),
         NEW q \in Peers, NEW k \in 1 .. Len(should[q]), q # p \/ k # Len(should[p]),
         NEW t, t[k] = should[q][k], k < Len(t) => k < Len(should[q]),
         Before(t, k) = Before(should[q], k)
  PROVE  Stored(mem', hp', t, k)
<1> DEFINE s == should[q]
           b == Addr(should[p][Len(should[p])])
<1>1. Types /\ Apart /\ Stored(mem, hp, s, k)
  BY Known
<1>2. Len(should[p]) \in 1 .. Len(should[p])
  BY <1>1, Lens
<1>3. Stored(mem, hp, should[p], Len(should[p]))
  BY <1>2, Known
<1>4. b \in Nat /\ b = Addr(m)
  BY <1>3 DEF Stored, Assigns, Addr, Current
<1>5. Clear(Addr(s[k]), b)
  BY <1>1, <1>2 DEF Apart
<1>6. \A v \in 1 .. MemWords : v < b \/ v >= b + MSG => mem'[v] = mem[v]
  BY <1>4 DEF Assigns
<1>7. hp \in Nat /\ hp' \in Nat /\ hp <= hp' /\ hp' <= MemWords
  BY <1>1 DEF Assigns, Types, MemoryLasts
<1>8. t[k] = s[k] /\ (k < Len(t) => k < Len(s)) /\ Before(t, k) = Before(s, k)
  OBVIOUS
<1>9. Stored(mem, hp, s, k)
  BY <1>1
<1> HIDE DEF s, b
<1> QED
  BY <1>4, <1>5, <1>6, <1>7, <1>8, <1>9, Untouched

(* Where p's current message lies, and that what is free stays zero.        *)
LEMMA CurrentLies ==
  ASSUME MsgsOK, MemoryLasts', NEW p \in Peers, NEW m, Assigns(p, m)
  PROVE  /\ Addr(m) = Addr(should[p][Len(should[p])])
         /\ Addr(m) \in Nat /\ Addr(m) > 0 /\ Addr(m) + 5 <= hp
         /\ hp \in Nat /\ hp' \in Nat /\ hp <= hp' /\ hp' <= MemWords /\ MemWords \in Nat
         /\ FreeIsZero'
<1>1. Types /\ FreeIsZero
  BY Known
<1>2. Len(should[p]) \in 1 .. Len(should[p])
  BY <1>1, Lens
<1>3. Stored(mem, hp, should[p], Len(should[p]))
  BY <1>2, Known
<1>4. Addr(m) = Addr(should[p][Len(should[p])])
  BY DEF Assigns, Addr, Current
<1>5. Addr(m) \in Nat /\ Addr(m) > 0 /\ Addr(m) + 5 <= hp
  BY <1>3, <1>4, Sizes DEF Stored
<1>6. hp \in Nat /\ hp' \in Nat /\ hp <= hp' /\ hp' <= MemWords /\ MemWords \in Nat
  BY <1>1, FileTableMemAssumption DEF Assigns, Types, MemoryLasts
<1>7. FreeIsZero'
  <2> SUFFICES ASSUME NEW v \in 1 .. MemWords, v >= hp' PROVE mem'[v] = 0
    BY DEF FreeIsZero
  <2>1. v >= hp /\ v >= Addr(m) + 5
    BY <1>5, <1>6
  <2>2. mem'[v] = mem[v]
    BY <2>1, Sizes DEF Assigns
  <2> QED
    BY <1>1, <2>1, <2>2 DEF FreeIsZero
<1> QED
  BY <1>4, <1>5, <1>6, <1>7

(* A handler that only assigns the fields of the current message.           *)
LEMMA Assigned ==
  ASSUME MsgsOK, MemoryLasts', NEW p \in Peers, NEW m, Assigns(p, m), Now(p, m),
         m.has_cmd = 1 => m.curPckts < m.totPckts,
         UNCHANGED <<cur_msg, msg_q>>
  PROVE  MsgsOK' /\ Grows
<1> DEFINE n == Len(should[p])
           t == Renewed(p, m)
<1>1. /\ Types /\ Apart /\ FreeIsZero /\ \A q \in Peers : Room(q) /\ QueueOK(q)
      /\ \A q \in Peers : \A k \in 1 .. Len(should[q]) : Stored(mem, hp, should[q], k)
  BY Known
<1>2. /\ m \in MsgType /\ m.at = Current(p).at /\ mem' \in [1 .. MemWords -> Nat]
      /\ Holds(mem', m) /\ hp' \in Nat /\ hp' >= hp /\ wild' = FALSE
      /\ left' \in [Peers -> Nat] /\ sent' \in [Peers -> 0 .. MaxMsgs]
  BY DEF Assigns
<1>3. should' = [should EXCEPT ![p] = t]
  BY <1>1 DEF Now, Renewed, Types
<1>4. should[p] \in Seq(MsgType) /\ n \in Nat /\ n > 0 /\ n \in 1 .. n
  BY <1>1, Lens
<1>5. /\ t \in Seq(MsgType) /\ Len(t) = n /\ t[n] = m
      /\ \A k \in 1 .. n : t[k].at = should[p][k].at
      /\ \A k \in 1 .. n : k # n => t[k] = should[p][k]
      /\ \A k \in 1 .. n : Before(t, k) = Before(should[p], k)
  BY <1>1, <1>2, Renews
<1> HIDE DEF t
<1>6. should'[p] = t /\ \A q \in Peers : q # p => should'[q] = should[q]
  BY <1>1, <1>3 DEF Types
<1>7. should' \in [Peers -> Seq(MsgType)]
  BY <1>1, <1>3, <1>5 DEF Types
<1>8. ASSUME NEW q \in Peers
      PROVE  /\ Len(should'[q]) = Len(should[q])
             /\ \A k \in 1 .. Len(should[q]) :
                  /\ should'[q][k].at = should[q][k].at
                  /\ q # p \/ k # n => should'[q][k] = should[q][k]
                  /\ Before(should'[q], k) = Before(should[q], k)
  <2>1. CASE q = p
    BY <1>5, <1>6, <2>1
  <2>2. CASE q # p
    BY <1>6, <2>2
  <2> QED
    BY <2>1, <2>2
<1>9. Types'
  <2>1. \A q \in Peers : Len(should'[q]) > 0
    BY <1>1, <1>8 DEF Types
  <2> QED
    BY <1>1, <1>2, <1>7, <2>1 DEF Types
<1>10. Apart'
  BY <1>1, <1>8 DEF Apart, Addr
<1>11. FreeIsZero' /\ Addr(m) \in Nat /\ Addr(m) > 0 /\ Addr(m) + MSG <= hp'
  <2>1. /\ Addr(m) \in Nat /\ Addr(m) > 0 /\ Addr(m) + 5 <= hp /\ FreeIsZero'
        /\ hp \in Nat /\ hp' \in Nat /\ hp <= hp'
    BY CurrentLies
  <2> QED
    BY <2>1, Sizes
<1>12. ASSUME NEW q \in Peers PROVE (Room(q) /\ QueueOK(q))'
  <2>1. Len(should[q]) \in 1 .. Len(should[q]) /\ Len(should'[q]) = Len(should[q])
    BY <1>1, <1>8, Lens
  <2>2. /\ should'[q][Len(should'[q])].at = should[q][Len(should[q])].at
        /\ Before(should'[q], Len(should'[q])) = Before(should[q], Len(should[q]))
    BY <1>8, <2>1
  <2>3. Room(q)'
    <3>1. CASE q = p
      BY <1>5, <1>6, <3>1 DEF Room, Current
    <3>2. CASE q # p
      BY <1>1, <1>6, <3>2 DEF Room, Current
    <3> QED
      BY <3>1, <3>2
  <2>4. QueueOK(q)'
    BY <1>1, <2>1, <2>2 DEF QueueOK, Current
  <2> QED
    BY <2>3, <2>4
<1>13. ASSUME NEW q \in Peers, NEW k \in 1 .. Len(should'[q]) PROVE Stored(mem', hp', should'[q], k)
  <2>1. k \in 1 .. Len(should[q]) /\ Len(should'[q]) = Len(should[q])
    BY <1>8
  <2>2. CASE q = p /\ k = n
    <3>1. should'[q][k] = m /\ ~ (k < Len(should'[q]))
      BY <1>4, <1>5, <1>6, <2>2
    <3> QED
      BY <1>2, <1>11, <3>1 DEF Stored
  <2>3. CASE q # p \/ k # n
    <3>1. should'[q][k] = should[q][k] /\ Before(should'[q], k) = Before(should[q], k)
      BY <1>8, <2>1, <2>3
    <3>2. k < Len(should'[q]) => k < Len(should[q])
      BY <2>1
    <3> QED
      BY <2>1, <2>3, <3>1, <3>2, OthersStay
  <2> QED
    BY <2>2, <2>3
<1>14. MsgsOK'
  BY <1>9, <1>10, <1>11, <1>12, <1>13 DEF MsgsOK
<1>15. Grows
  <2>1. \A q \in Peers : Len(should[q]) \in Nat
    BY <1>1, Lens
  <2> QED
    BY <1>8, <2>1 DEF Grows
<1> QED
  BY <1>14, <1>15

(* A handler that completes the current message m: m is linked and queued,  *)
(* and the message new is allocated behind everything there is.             *)
LEMMA Filled ==
  ASSUME MsgsOK, MemoryLasts', NEW p \in Peers, NEW m, Assigns(p, m), m.has_cmd = 1,
         mem'[Addr(m) + 4] = msg_q[p].head,
         NEW new, new = Msg(Ptr(hp), 0, 0, 0, NULL),
         should' = [should EXCEPT ![p] = Append(Renewed(p, m), new)],
         cur_msg' = [cur_msg EXCEPT ![p] = Ptr(hp)],
         msg_q' = [msg_q EXCEPT ![p] = Q_push(@, m.at)],
         hp' = hp + RoundUp(MSG)
  PROVE  MsgsOK' /\ Grows
<1> DEFINE n == Len(should[p])
           t == Renewed(p, m)
           u == Append(t, new)
<1>1. /\ Types /\ Apart /\ FreeIsZero /\ \A q \in Peers : Room(q) /\ QueueOK(q)
      /\ \A q \in Peers : \A k \in 1 .. Len(should[q]) : Stored(mem, hp, should[q], k)
  BY Known
<1>2. /\ m \in MsgType /\ m.at = Current(p).at /\ mem' \in [1 .. MemWords -> Nat]
      /\ Holds(mem', m) /\ hp' \in Nat /\ hp' >= hp /\ wild' = FALSE
      /\ left' \in [Peers -> Nat] /\ sent' \in [Peers -> 0 .. MaxMsgs]
      /\ \A v \in 1 .. MemWords : v < Addr(m) \/ v >= Addr(m) + MSG => mem'[v] = mem[v]
  BY DEF Assigns
<1>4. should[p] \in Seq(MsgType) /\ n \in Nat /\ n > 0 /\ n \in 1 .. n
  BY <1>1, Lens
<1>5. /\ t \in Seq(MsgType) /\ Len(t) = n /\ t[n] = m
      /\ \A k \in 1 .. n : t[k].at = should[p][k].at
      /\ \A k \in 1 .. n : k # n => t[k] = should[p][k]
      /\ \A k \in 1 .. n : Before(t, k) = Before(should[p], k)
  BY <1>1, <1>2, Renews
<1> HIDE DEF t
<1>6. /\ Addr(m) = Addr(should[p][n])
      /\ Addr(m) \in Nat /\ Addr(m) > 0 /\ Addr(m) + 5 <= hp
      /\ hp \in Nat /\ hp' \in Nat /\ hp <= hp' /\ hp' <= MemWords /\ MemWords \in Nat
      /\ FreeIsZero'
  BY CurrentLies
<1>7. hp + 5 <= hp' /\ Addr(m) + 5 <= hp'
  <2>1. RoundUp(MSG) \in Nat /\ RoundUp(MSG) >= 5
    BY Sizes
  <2> HIDE DEF RoundUp, MSG
  <2> QED
    BY <1>6, <2>1
<1>8. hp > 0 /\ Ptr(hp) \in Nat /\ Ptr(hp) > 0 /\ Word(Ptr(hp)) = hp
  <2>1. hp > 0
    BY <1>6
  <2> QED
    BY <1>6, <2>1, Pointers
<1>9. /\ new \in MsgType /\ new.at = Ptr(hp) /\ new.has_cmd = 0 /\ new.totPckts = 0
      /\ new.curPckts = 0 /\ new.data = 0 /\ Addr(new) = hp
  BY <1>8 DEF MsgType, Msg, NULL, Addr
<1>10. /\ u \in Seq(MsgType) /\ Len(u) = n + 1 /\ u[n + 1] = new
       /\ \A k \in 1 .. n : u[k] = t[k]
  BY <1>5, <1>9, Added
<1> HIDE DEF u
<1>11. /\ \A k \in 1 .. n : Before(u, k) = Before(should[p], k)
       /\ Before(u, n + 1) = m.at
  <2>1. ASSUME NEW k \in 1 .. n, k # 1 PROVE u[k - 1] = t[k - 1]
    <3>1. k - 1 \in 1 .. n
      BY <1>4, <2>1
    <3> QED
      BY <1>10, <3>1
  <2>2. \A k \in 1 .. n : Before(u, k) = Before(t, k)
    BY <2>1 DEF Before
  <2>3. n + 1 # 1 /\ (n + 1) - 1 = n /\ u[n] = m
    BY <1>4, <1>5, <1>10
  <2>4. Before(u, n + 1) = u[n].at
    BY <2>3 DEF Before
  <2> QED
    BY <1>5, <2>2, <2>3, <2>4
<1>12. should'[p] = u /\ (\A q \in Peers : q # p => should'[q] = should[q])
       /\ should' \in [Peers -> Seq(MsgType)]
  <2>1. should' = [should EXCEPT ![p] = u]
    BY DEF t, u
  <2> QED
    BY <1>1, <1>10, <2>1 DEF Types
<1>13. ASSUME NEW q \in Peers
       PROVE  /\ Len(should[q]) \in Nat
              /\ Len(should'[q]) = IF q = p THEN n + 1 ELSE Len(should[q])
              /\ \A k \in 1 .. Len(should[q]) :
                   /\ should'[q][k].at = should[q][k].at
                   /\ q # p \/ k # n => should'[q][k] = should[q][k]
                   /\ Before(should'[q], k) = Before(should[q], k)
  <2>0. Len(should[q]) \in Nat
    BY <1>1, Lens
  <2>1. CASE q = p
    <3>1. should'[q] = u /\ should[q] = should[p]
      BY <1>12, <2>1
    <3>2. Len(should'[q]) = n + 1
      BY <1>10, <3>1
    <3>3. \A k \in 1 .. n : u[k].at = should[p][k].at /\ (k # n => u[k] = should[p][k])
      BY <1>5, <1>10
    <3> QED
      BY <1>11, <2>0, <2>1, <3>1, <3>2, <3>3
  <2>2. CASE q # p
    BY <1>12, <2>0, <2>2
  <2> QED
    BY <2>1, <2>2
<1>14. ASSUME NEW q \in Peers, NEW k \in 1 .. Len(should'[q])
       PROVE  \/ q = p /\ k = n + 1
              \/ k \in 1 .. Len(should[q])
  <2>1. CASE q = p
    BY <1>4, <1>13, <2>1
  <2>2. CASE q # p
    BY <1>13, <2>2
  <2> QED
    BY <2>1, <2>2
<1>15. Types'
  <2>1. \A q \in Peers : Len(should'[q]) > 0
    <3> SUFFICES ASSUME NEW q \in Peers PROVE Len(should'[q]) > 0
      OBVIOUS
    <3>1. Len(should[q]) > 0 /\ n + 1 > 0
      BY <1>1, <1>4 DEF Types
    <3> QED
      BY <1>13, <3>1
  <2>2. cur_msg' \in [Peers -> Nat]
    BY <1>1, <1>8 DEF Types
  <2>3. msg_q' \in [Peers -> QType]
    <3>1. m.at \in Nat
      BY <1>2 DEF MsgType
    <3>2. msg_q[p] \in QType
      BY <1>1 DEF Types
    <3>3. msg_q[p].cnt + 1 \in Nat /\ msg_q[p].tail \in Nat
      BY <3>2 DEF QType
    <3>4. Q_push(msg_q[p], m.at) \in QType
      BY <3>1, <3>3 DEF Q_push, QType
    <3> QED
      BY <1>1, <3>4 DEF Types
  <2> QED
    BY <1>2, <1>12, <2>1, <2>2, <2>3 DEF Types
<1>16. ASSUME NEW q \in Peers, NEW k \in 1 .. Len(should[q])
       PROVE  /\ Clear(Addr(should'[q][k]), hp) /\ Clear(hp, Addr(should'[q][k]))
  <2>1. Stored(mem, hp, should[q], k) /\ Addr(should'[q][k]) = Addr(should[q][k])
    BY <1>1, <1>13 DEF Addr
  <2>2. Addr(should'[q][k]) + MSG <= hp
    BY <2>1 DEF Stored
  <2> QED
    BY <2>2 DEF Clear
<1>17. Apart'
  <2> SUFFICES ASSUME NEW q \in Peers, NEW r \in Peers,
                      NEW k \in 1 .. Len(should'[q]), NEW j \in 1 .. Len(should'[r]),
                      q # r \/ k # j
               PROVE  Clear(Addr(should'[q][k]), Addr(should'[r][j]))
    BY DEF Apart, Addr
  <2>1. CASE k \in 1 .. Len(should[q]) /\ j \in 1 .. Len(should[r])
    BY <1>1, <1>13, <2>1 DEF Apart, Addr
  <2>2. CASE q = p /\ k = n + 1 /\ j \in 1 .. Len(should[r])
    <3>1. Addr(should'[q][k]) = hp
      BY <1>9, <1>10, <1>12, <2>2
    <3> QED
      BY <1>16, <2>2, <3>1
  <2>3. CASE r = p /\ j = n + 1 /\ k \in 1 .. Len(should[q])
    <3>1. Addr(should'[r][j]) = hp
      BY <1>9, <1>10, <1>12, <2>3
    <3> QED
      BY <1>16, <2>3, <3>1
  <2>4. /\ (q = p /\ k = n + 1) \/ k \in 1 .. Len(should[q])
        /\ (r = p /\ j = n + 1) \/ j \in 1 .. Len(should[r])
    BY <1>14
  <2> QED
    BY <2>1, <2>2, <2>3, <2>4
<1>18. ASSUME NEW q \in Peers PROVE (Room(q) /\ QueueOK(q))'
  <2>1. CASE q = p
    <3>1. should'[q] = u /\ Len(should'[q]) = n + 1 /\ should'[q][n + 1] = new
      BY <1>10, <1>12, <2>1
    <3>2. Room(q)'
      BY <1>9, <3>1 DEF Room, Current
    <3>3. cur_msg'[q] = new.at
      BY <1>1, <1>9, <2>1 DEF Types
    <3>4. msg_q[p].cnt = n - 1 /\ msg_q'[q] = Q_push(msg_q[p], m.at)
      BY <1>1, <2>1 DEF QueueOK, Types
    <3>5. msg_q'[q].head = m.at /\ msg_q'[q].cnt = n
      BY <1>4, <3>4 DEF Q_push
    <3>6. n = (n + 1) - 1 /\ n + 1 # 1
      BY <1>4
    <3>7. Before(should'[q], n + 1) = m.at
      BY <1>11, <3>1
    <3>8. QueueOK(q)'
      BY <3>1, <3>3, <3>5, <3>6, <3>7 DEF QueueOK, Current
    <3> QED
      BY <3>2, <3>8
  <2>2. CASE q # p
    <3>1. should'[q] = should[q]
      BY <1>12, <2>2
    <3>2. cur_msg'[q] = cur_msg[q] /\ msg_q'[q] = msg_q[q]
      BY <1>1, <2>2 DEF Types
    <3> QED
      BY <1>1, <3>1, <3>2 DEF Room, QueueOK, Current
  <2> QED
    BY <2>1, <2>2
<1>19. ASSUME NEW q \in Peers, NEW k \in 1 .. Len(should'[q]) PROVE Stored(mem', hp', should'[q], k)
  <2>1. CASE q = p /\ k = n + 1
    <3>1. should'[q][k] = new /\ ~ (k < Len(should'[q])) /\ Addr(new) = hp
      BY <1>4, <1>9, <1>10, <1>12, <2>1
    <3>2. hp \in 1 .. MemWords /\ hp + 1 \in 1 .. MemWords /\ hp + 2 \in 1 .. MemWords
          /\ hp + 3 \in 1 .. MemWords
      <4>1. hp + 5 <= MemWords
        BY <1>6, <1>7
      <4> QED
        BY <1>6, <1>8, <4>1, FiveWords
    <3>3. /\ mem'[hp] = mem[hp] /\ mem'[hp + 1] = mem[hp + 1] /\ mem'[hp + 2] = mem[hp + 2]
          /\ mem'[hp + 3] = mem[hp + 3]
      <4>1. hp >= Addr(m) + MSG /\ hp + 1 >= Addr(m) + MSG /\ hp + 2 >= Addr(m) + MSG
            /\ hp + 3 >= Addr(m) + MSG
        <5>1. \A a, h \in Nat : a + 5 <= h =>
                h >= a + 5 /\ h + 1 >= a + 5 /\ h + 2 >= a + 5 /\ h + 3 >= a + 5
          OBVIOUS
        <5>2. MSG = 5
          BY Sizes
        <5> HIDE DEF MSG
        <5> QED
          BY <1>6, <5>1, <5>2
      <4> QED
        BY <1>2, <3>2, <4>1
    <3>4. mem[hp] = 0 /\ mem[hp + 1] = 0 /\ mem[hp + 2] = 0 /\ mem[hp + 3] = 0
      <4>1. hp >= hp /\ hp + 1 >= hp /\ hp + 2 >= hp /\ hp + 3 >= hp
        BY <1>6
      <4> QED
        BY <1>1, <3>2, <4>1 DEF FreeIsZero
    <3>5. Holds(mem', new)
      BY <1>9, <3>3, <3>4 DEF Holds
    <3> QED
      BY <1>6, <1>7, <1>8, <3>1, <3>5, Sizes DEF Stored
  <2>2. CASE q = p /\ k = n
    <3>1. should'[q][k] = m
      BY <1>4, <1>5, <1>10, <1>12, <2>2
    <3>2. mem'[Addr(m) + 4] = Before(should'[q], k)
      BY <1>1, <1>4, <1>11, <1>12, <2>2 DEF QueueOK
    <3> QED
      BY <1>2, <1>6, <1>7, <3>1, <3>2, Sizes DEF Stored
  <2>3. CASE k \in 1 .. Len(should[q]) /\ (q # p \/ k # n)
    <3>1. should'[q][k] = should[q][k] /\ Before(should'[q], k) = Before(should[q], k)
      BY <1>13, <2>3
    <3>2. k < Len(should'[q]) => k < Len(should[q])
      <4>1. CASE q = p
        BY <1>4, <2>3, <4>1
      <4>2. CASE q # p
        BY <1>13, <4>2
      <4> QED
        BY <4>1, <4>2
    <3> QED
      BY <2>3, <3>1, <3>2, OthersStay
  <2> QED
    BY <1>14, <2>1, <2>2, <2>3
<1>20. MsgsOK'
  BY <1>6, <1>15, <1>17, <1>18, <1>19 DEF MsgsOK
<1>21. Grows
  <2> SUFFICES ASSUME NEW q \in Peers
               PROVE  /\ Len(should'[q]) \in Nat /\ Len(should'[q]) >= Len(should[q])
                      /\ \A k \in 1 .. Len(should[q]) : should'[q][k].at = should[q][k].at
    BY DEF Grows
  <2>1. n + 1 \in Nat /\ n + 1 >= n
    BY <1>4
  <2>2. CASE q = p
    BY <1>13, <2>1, <2>2
  <2>3. CASE q # p
    BY <1>13, <2>3
  <2> QED
    BY <2>2, <2>3
<1> QED
  BY <1>20, <1>21

------------------------------------------------------------------------------
(* What the code reads of the current message is what was written to it.    *)
LEMMA CurrentRead ==
  ASSUME MsgsOK, MemoryLasts, NEW p \in Peers
  PROVE  LET m == cur_msg[p]
             r == Current(p)
             w == Addr(r)
         IN  /\ r \in MsgType /\ m = r.at /\ Word(m) = w /\ Types /\ Room(p)
             /\ w \in Nat /\ w > 0 /\ w + MSG <= MemWords
             /\ mem \in [1 .. MemWords -> Nat] /\ mem[w] \in {0, 1}
             /\ has_cmd(m) <=> r.has_cmd = 1
             /\ Byte(mem[w]) = r.has_cmd
             /\ totPckts(m) = r.totPckts /\ curPckts(m) = r.curPckts /\ data(m) = r.data
<1> DEFINE r == Current(p)
           w == Addr(r)
<1>1. Types /\ Room(p) /\ QueueOK(p)
  BY Known
<1>2. r \in MsgType /\ r = should[p][Len(should[p])] /\ Len(should[p]) \in 1 .. Len(should[p])
  BY <1>1, Lens DEF Current
<1>3. Stored(mem, hp, should[p], Len(should[p]))
  BY <1>2, Known
<1>4. /\ w \in Nat /\ w > 0 /\ w + 5 <= hp
      /\ mem[w] = r.has_cmd /\ mem[w + 1] = r.totPckts
      /\ mem[w + 2] = r.curPckts /\ mem[w + 3] = r.data
  BY <1>2, <1>3, Sizes DEF Stored, Holds
<1>5. cur_msg[p] = r.at /\ Word(cur_msg[p]) = w
  BY <1>1 DEF QueueOK, Addr
<1>6. w + MSG <= MemWords
  <2>1. hp \in Nat /\ MemWords \in Nat /\ hp <= MemWords
    BY <1>1, FileTableMemAssumption DEF Types, MemoryLasts
  <2>2. MSG = 5
    BY Sizes
  <2> HIDE DEF w, MSG
  <2> QED
    BY <1>4, <2>1, <2>2
<1>7. r.has_cmd \in {0, 1}
  BY <1>2 DEF MsgType
<1>8. Byte(mem[w]) = r.has_cmd
  BY <1>4, <1>7, Bytes
<1>9. has_cmd(cur_msg[p]) <=> r.has_cmd = 1
  BY <1>5, <1>7, <1>8 DEF has_cmd
<1>10. totPckts(cur_msg[p]) = r.totPckts /\ curPckts(cur_msg[p]) = r.curPckts
       /\ data(cur_msg[p]) = r.data
  BY <1>4, <1>5 DEF totPckts, curPckts, data
<1>11. mem \in [1 .. MemWords -> Nat]
  BY <1>1 DEF Types
<1> HIDE DEF w
<1> QED
  BY <1>1, <1>2, <1>4, <1>5, <1>6, <1>7, <1>8, <1>9, <1>10, <1>11 DEF w

(* The four fields of the current message are assigned.                     *)
LEMMA WrittenAssigns ==
  ASSUME MsgsOK, MemoryLasts, NEW p \in Peers, NEW has \in {0, 1}, NEW tot \in Nat,
         NEW cur \in Nat, NEW dat \in Nat, mem' = Written(cur_msg[p], has, tot, cur, dat),
         hp' \in Nat, hp' >= hp, wild' = FALSE,
         left' \in [Peers -> Nat], sent' \in [Peers -> 0 .. MaxMsgs]
  PROVE  Assigns(p, Msg(cur_msg[p], has, tot, cur, dat))
<1> DEFINE m == Msg(cur_msg[p], has, tot, cur, dat)
           w == Word(cur_msg[p])
<1>1. /\ Current(p) \in MsgType /\ cur_msg[p] = Current(p).at /\ w = Addr(Current(p))
      /\ w \in Nat /\ w > 0 /\ w + MSG <= MemWords /\ mem \in [1 .. MemWords -> Nat]
      /\ mem[w] \in {0, 1}
  BY CurrentRead
<1>2. m \in MsgType /\ m.at = Current(p).at /\ Addr(m) = w
  BY <1>1 DEF Msg, MsgType, Addr
<1>3. /\ mem' \in [1 .. MemWords -> Nat]
      /\ mem'[w] = has /\ mem'[w + 1] = tot /\ mem'[w + 2] = cur /\ mem'[w + 3] = dat
      /\ \A v \in 1 .. MemWords :
           v # w /\ v # w + 1 /\ v # w + 2 /\ v # w + 3 => mem'[v] = mem[v]
  <2>1. Written(cur_msg[p], has, tot, cur, dat)
          = [mem EXCEPT ![w] = has, ![w + 1] = tot, ![w + 2] = cur, ![w + 3] = dat]
    <3>1. SetByte(mem[w], has) = has
      BY <1>1, Bytes
    <3> QED
      BY <3>1 DEF Written
  <2>2. MemWords \in Nat /\ w + 5 <= MemWords
    BY <1>1, Sizes, FileTableMemAssumption
  <2>3. has \in Nat
    OBVIOUS
  <2> HIDE DEF w
  <2>4. /\ w \in 1 .. MemWords /\ w + 1 \in 1 .. MemWords /\ w + 2 \in 1 .. MemWords
        /\ w + 3 \in 1 .. MemWords
        /\ w # w + 1 /\ w # w + 2 /\ w # w + 3 /\ w + 1 # w + 2 /\ w + 1 # w + 3 /\ w + 2 # w + 3
    BY <1>1, <2>2, FiveWords
  <2>5. mem \in [1 .. MemWords -> Nat]
        /\ mem' = [mem EXCEPT ![w] = has, ![w + 1] = tot, ![w + 2] = cur, ![w + 3] = dat]
    BY <1>1, <2>1
  <2> DEFINE D == 1 .. MemWords
             b1 == w + 1
             b2 == w + 2
             b3 == w + 3
  <2>6. w \in D /\ b1 \in D /\ b2 \in D /\ b3 \in D
        /\ w # b1 /\ w # b2 /\ w # b3 /\ b1 # b2 /\ b1 # b3 /\ b2 # b3
    BY <2>4
  <2>7. mem \in [D -> Nat]
        /\ mem' = [mem EXCEPT ![w] = has, ![b1] = tot, ![b2] = cur, ![b3] = dat]
    BY <2>5
  <2> HIDE DEF D, b1, b2, b3
  <2>8. /\ mem' \in [D -> Nat]
        /\ mem'[w] = has /\ mem'[b1] = tot /\ mem'[b2] = cur /\ mem'[b3] = dat
        /\ \A v \in D : v # w /\ v # b1 /\ v # b2 /\ v # b3 => mem'[v] = mem[v]
    BY <2>3, <2>6, <2>7
  <2> QED
    BY <2>8 DEF D, b1, b2, b3
<1> HIDE DEF w
<1>4. Holds(mem', m)
  BY <1>2, <1>3 DEF Holds, Msg
<1>5. \A v \in 1 .. MemWords : v < Addr(m) \/ v >= Addr(m) + MSG => mem'[v] = mem[v]
  <2> SUFFICES ASSUME NEW v \in 1 .. MemWords, v < w \/ v >= w + 5 PROVE mem'[v] = mem[v]
    BY <1>2, Sizes
  <2>1. \A x, y \in Nat : x < y \/ x >= y + 5 => x # y /\ x # y + 1 /\ x # y + 2 /\ x # y + 3
    OBVIOUS
  <2>2. v \in Nat /\ w \in Nat
    BY <1>1
  <2>3. v # w /\ v # w + 1 /\ v # w + 2 /\ v # w + 3
    BY <2>1, <2>2
  <2> QED
    BY <1>3, <2>3
<1> HIDE DEF m
<1>6. Assigns(p, m)
  BY <1>2, <1>3, <1>4, <1>5 DEF Assigns
<1> QED
  BY <1>6 DEF m

LEMMA SeenCmdAlreadyOK ==
  ASSUME MsgsOK, MemoryLasts, MemoryLasts', NEW p \in Peers, SeenCmdAlready(p),
         wild' = FALSE, left' \in [Peers -> Nat], sent' \in [Peers -> 0 .. MaxMsgs]
  PROVE  MsgsOK' /\ Grows
<1> DEFINE m == Msg(cur_msg[p], 0, 0, 0, NULL)
<1>1. hp' = hp /\ hp \in Nat /\ mem' = Written(cur_msg[p], 0, 0, 0, NULL) /\ Now(p, m)
      /\ UNCHANGED <<cur_msg, msg_q>>
  BY DEF SeenCmdAlready, MsgsOK, Types
<1>2. Assigns(p, m)
  <2>1. NULL \in Nat /\ hp' \in Nat /\ hp' >= hp /\ 0 \in {0, 1}
    BY <1>1 DEF NULL
  <2> QED
    BY <1>1, <2>1, WrittenAssigns
<1>3. m.has_cmd = 0
  BY DEF Msg
<1> HIDE DEF m
<1> QED
  BY <1>1, <1>2, <1>3, Assigned

LEMMA AcceptCmdOK ==
  ASSUME MsgsOK, MemoryLasts, MemoryLasts', NEW p \in Peers, NEW n \in Nat, n > 0, AcceptCmd(p, n),
         wild' = FALSE, left' \in [Peers -> Nat], sent' \in [Peers -> 0 .. MaxMsgs]
  PROVE  MsgsOK' /\ Grows
<1> DEFINE m == Msg(cur_msg[p], 1, n, 0, Ptr(hp))
<1>1. hp' = hp + RoundUp(DataWords(n)) /\ hp \in Nat
      /\ mem' = Written(cur_msg[p], 1, n, 0, Ptr(hp)) /\ Now(p, m)
      /\ UNCHANGED <<cur_msg, msg_q>>
  BY DEF AcceptCmd, MsgsOK, Types
<1>2. Assigns(p, m)
  <2>1. RoundUp(DataWords(n)) \in Nat /\ Ptr(hp) \in Nat
    BY <1>1, Sizes, Pointers
  <2>2. hp' \in Nat /\ hp' >= hp /\ 1 \in {0, 1}
    <3> HIDE DEF RoundUp, DataWords
    <3> QED
      BY <1>1, <2>1
  <2> QED
    BY <1>1, <2>1, <2>2, WrittenAssigns
<1>3. m.curPckts < m.totPckts
  BY DEF Msg
<1> HIDE DEF m
<1> QED
  BY <1>1, <1>2, <1>3, Assigned

LEMMA DropDataOK ==
  ASSUME MsgsOK, MemoryLasts, MemoryLasts', NEW p \in Peers, DropData(p),
         wild' = FALSE, left' \in [Peers -> Nat], sent' \in [Peers -> 0 .. MaxMsgs]
  PROVE  MsgsOK' /\ Grows
<1> DEFINE m == Msg(cur_msg[p], 0, 0, 0, NULL)
<1>1. hp' = hp /\ hp \in Nat /\ mem' = Written(cur_msg[p], Byte(mem[Word(cur_msg[p])]), 0, 0, NULL)
      /\ Now(p, m) /\ UNCHANGED <<cur_msg, msg_q>> /\ ~ has_cmd(cur_msg[p])
  BY DEF DropData, MsgsOK, Types
<1>2. Byte(mem[Word(cur_msg[p])]) = 0
  BY <1>1 DEF has_cmd
<1>3. Assigns(p, m)
  <2>1. NULL \in Nat /\ hp' \in Nat /\ hp' >= hp /\ 0 \in {0, 1}
    BY <1>1 DEF NULL
  <2>2. mem' = Written(cur_msg[p], 0, 0, 0, NULL)
    BY <1>1, <1>2
  <2> QED
    BY <2>1, <2>2, WrittenAssigns
<1>4. m.has_cmd = 0
  BY DEF Msg
<1> HIDE DEF m
<1> QED
  BY <1>1, <1>3, <1>4, Assigned

(* A data packet of a message is copied where it belongs, and counted; the  *)
(* last one also links and queues the message.                              *)
LEMMA StoreDataOK ==
  ASSUME MsgsOK, MemoryLasts, MemoryLasts', NEW p \in Peers, StoreData(p),
         left' \in [Peers -> Nat], sent' \in [Peers -> 0 .. MaxMsgs]
  PROVE  MsgsOK' /\ Grows
<1> DEFINE m == cur_msg[p]
           r == Current(p)
           w == Addr(r)
           c == curPckts(m) + 1
           done == [r EXCEPT !.curPckts = @ + 1]
<1>1. /\ r \in MsgType /\ m = r.at /\ Word(m) = w /\ Types /\ Room(p)
      /\ w \in Nat /\ w > 0 /\ w + MSG <= MemWords
      /\ mem \in [1 .. MemWords -> Nat] /\ mem[w] \in {0, 1}
      /\ has_cmd(m) <=> r.has_cmd = 1
      /\ totPckts(m) = r.totPckts /\ curPckts(m) = r.curPckts /\ data(m) = r.data
  BY CurrentRead
<1>2. has_cmd(m) /\ wild' = CopyIsWild(p)
  BY DEF StoreData
<1>3. r.has_cmd = 1 /\ r.curPckts < r.totPckts
  BY <1>1, <1>2 DEF Room
<1>4. r.curPckts \in Nat /\ r.totPckts \in Nat /\ c = r.curPckts + 1 /\ c \in Nat
  BY <1>1 DEF MsgType
<1>5. wild' = FALSE
  <2>1. ~ (r.curPckts >= r.totPckts)
    BY <1>3, <1>4
  <2> QED
    BY <1>1, <1>2, <2>1 DEF CopyIsWild
<1>6. /\ done \in MsgType /\ done.at = r.at /\ done.has_cmd = 1 /\ done.totPckts = r.totPckts
      /\ done.curPckts = c /\ done.data = r.data /\ Addr(done) = w
  BY <1>1, <1>3, <1>4 DEF MsgType, Addr
<1>7. Holds(mem, r)
  <2>1. Types /\ Len(should[p]) \in 1 .. Len(should[p])
    BY <1>1, Lens
  <2>2. Stored(mem, hp, should[p], Len(should[p]))
    BY <2>1, Known
  <2> QED
    BY <2>2 DEF Stored, Current
<1>8. /\ mem[w] = 1 /\ mem[w + 1] = r.totPckts /\ mem[w + 3] = r.data
  BY <1>3, <1>7 DEF Holds
<1>9. w + 5 <= MemWords /\ MemWords \in Nat
  BY <1>1, Sizes, FileTableMemAssumption
<1> HIDE DEF w
<1>10. /\ w \in 1 .. MemWords /\ w + 1 \in 1 .. MemWords /\ w + 2 \in 1 .. MemWords
       /\ w + 3 \in 1 .. MemWords /\ w + 4 \in 1 .. MemWords
       /\ w # w + 1 /\ w # w + 2 /\ w # w + 3 /\ w + 1 # w + 2 /\ w + 1 # w + 3 /\ w + 2 # w + 3
       /\ w # w + 4 /\ w + 1 # w + 4 /\ w + 2 # w + 4 /\ w + 3 # w + 4
  BY <1>1, <1>9, FiveWords
<1>11. \A v \in 1 .. MemWords : v < w \/ v >= w + MSG => v # w + 2 /\ v # w + 4
  <2>1. \A v \in 1 .. MemWords : v < w \/ v >= w + 5 => v # w + 2 /\ v # w + 4
    BY <1>1
  <2> QED
    BY <2>1, Sizes
<1>12. hp \in Nat /\ mem \in [1 .. MemWords -> Nat]
  BY <1>1 DEF Types
<1>13. CASE c = totPckts(m)
  <2>1. /\ mem' = [mem EXCEPT ![w + 2] = c, ![w + 4] = msg_q[p].head]
        /\ msg_q' = [msg_q EXCEPT ![p] = Q_push(@, m)]
        /\ cur_msg' = [cur_msg EXCEPT ![p] = Ptr(hp)]
        /\ hp' = hp + RoundUp(MSG)
        /\ should' = [should EXCEPT ![p] =
             Append([@ EXCEPT ![Len(@)] = done], Msg(Ptr(hp), 0, 0, 0, NULL))]
    BY <1>1, <1>13 DEF StoreData
  <2>2. msg_q[p].head \in Nat
    BY <1>1 DEF Types, QType
  <2>3. /\ mem' \in [1 .. MemWords -> Nat] /\ mem'[w + 2] = c /\ mem'[w + 4] = msg_q[p].head
        /\ \A v \in 1 .. MemWords : v # w + 2 /\ v # w + 4 => mem'[v] = mem[v]
    <3> HIDE DEF c
    <3> QED
      BY <1>4, <1>10, <1>12, <2>1, <2>2
  <2>4. Holds(mem', done)
    <3>1. mem'[w] = mem[w] /\ mem'[w + 1] = mem[w + 1] /\ mem'[w + 3] = mem[w + 3]
      BY <1>10, <2>3
    <3> QED
      BY <1>6, <1>8, <2>3, <3>1 DEF Holds
  <2>5. hp' \in Nat /\ hp' >= hp
    <3>1. RoundUp(MSG) \in Nat
      BY Sizes
    <3> HIDE DEF RoundUp, MSG
    <3> QED
      BY <1>12, <2>1, <3>1
  <2>6. \A v \in 1 .. MemWords : v < Addr(done) \/ v >= Addr(done) + MSG => mem'[v] = mem[v]
    BY <1>6, <1>11, <2>3
  <2> HIDE DEF done
  <2>7. Assigns(p, done)
    BY <1>5, <1>6, <2>3, <2>4, <2>5, <2>6 DEF Assigns
  <2>8. should' = [should EXCEPT ![p] = Append(Renewed(p, done), Msg(Ptr(hp), 0, 0, 0, NULL))]
    BY <1>1, <2>1 DEF Renewed, Types
  <2>9. mem'[Addr(done) + 4] = msg_q[p].head /\ m = done.at
    BY <1>1, <1>6, <2>3
  <2> QED
    BY <1>6, <2>1, <2>7, <2>8, <2>9, Filled
<1>14. CASE c # totPckts(m)
  <2>1. mem' = [mem EXCEPT ![w + 2] = c] /\ Now(p, done) /\ UNCHANGED <<hp, cur_msg, msg_q>>
    BY <1>1, <1>14 DEF StoreData
  <2>2. /\ mem' \in [1 .. MemWords -> Nat] /\ mem'[w + 2] = c
        /\ \A v \in 1 .. MemWords : v # w + 2 => mem'[v] = mem[v]
    <3> HIDE DEF c
    <3> QED
      BY <1>4, <1>10, <1>12, <2>1
  <2>3. Holds(mem', done)
    <3>1. mem'[w] = mem[w] /\ mem'[w + 1] = mem[w + 1] /\ mem'[w + 3] = mem[w + 3]
      BY <1>10, <2>2
    <3> QED
      BY <1>6, <1>8, <2>2, <3>1 DEF Holds
  <2>4. \A v \in 1 .. MemWords : v < Addr(done) \/ v >= Addr(done) + MSG => mem'[v] = mem[v]
    BY <1>6, <1>11, <2>2
  <2>5. done.curPckts < done.totPckts
    <3>1. c < r.totPckts
      BY <1>1, <1>3, <1>4, <1>14
    <3> QED
      BY <1>6, <3>1
  <2>6. hp' \in Nat /\ hp' >= hp
    BY <1>12, <2>1
  <2> HIDE DEF done
  <2>7. Assigns(p, done)
    BY <1>5, <1>6, <2>2, <2>3, <2>4, <2>6 DEF Assigns
  <2> QED
    BY <2>1, <2>5, <2>7, Assigned
<1> QED
  BY <1>13, <1>14

------------------------------------------------------------------------------
(* Memory is only ever taken.                                               *)
LEMMA HeapGrows ==
  ASSUME hp \in Nat, Next
  PROVE  hp' \in Nat /\ hp' >= hp
<1>1. /\ RoundUp(MSG) \in Nat
      /\ \A n \in Nat : RoundUp(DataWords(n)) \in Nat
  BY Sizes
<1>2. \A n \in Counts : n \in Nat
  BY FileTableMemAssumption
<1> HIDE DEF RoundUp, MSG, DataWords
<1>3. ASSUME NEW p \in Peers, NEW n \in Counts, Cmd(p, n) PROVE hp' \in Nat /\ hp' >= hp
  <2>1. hp' = hp \/ hp' = hp + RoundUp(DataWords(n))
    BY <1>3 DEF Cmd, SeenCmdAlready, AcceptCmd, Lost
  <2> QED
    BY <1>1, <1>2, <2>1
<1>4. ASSUME NEW p \in Peers, Data(p) PROVE hp' \in Nat /\ hp' >= hp
  <2>1. hp' = hp \/ hp' = hp + RoundUp(MSG)
    BY <1>4 DEF Data, DropData, StoreData, Lost
  <2> QED
    BY <1>1, <2>1
<1>5. ASSUME hp' = hp PROVE hp' \in Nat /\ hp' >= hp
  BY <1>5
<1> QED
  BY <1>3, <1>4, <1>5
     DEF Next, Program, get_fd, get_fd_tail, get_fd_cnt, has_msg, get_msg, forget

LEMMA LostOK ==
  ASSUME MsgsOK, Lost, left' \in [Peers -> Nat], sent' \in [Peers -> 0 .. MaxMsgs]
  PROVE  MsgsOK' /\ Grows
<1>1. /\ Types /\ Apart /\ FreeIsZero /\ \A q \in Peers : Room(q) /\ QueueOK(q)
      /\ \A q \in Peers : \A k \in 1 .. Len(should[q]) : Stored(mem, hp, should[q], k)
  BY Known
<1>2. UNCHANGED <<mem, hp, cur_msg, msg_q, wild, should>>
  BY DEF Lost
<1>3. Types'
  BY <1>1, <1>2 DEF Types
<1>4. Apart' /\ FreeIsZero' /\ \A q \in Peers : (Room(q) /\ QueueOK(q))'
  BY <1>1, <1>2 DEF Apart, FreeIsZero, Room, QueueOK, Current
<1>5. Grows
  <2>1. \A q \in Peers : Len(should[q]) \in Nat
    BY <1>1, Lens
  <2> QED
    BY <1>2, <2>1 DEF Grows
<1> QED
  BY <1>1, <1>2, <1>3, <1>4, <1>5 DEF MsgsOK

LEMMA CmdOK ==
  ASSUME MsgsOK, MemoryLasts, MemoryLasts', NEW p \in Peers, NEW n \in Counts, Cmd(p, n)
  PROVE  MsgsOK' /\ Grows
<1>1. n \in Nat /\ n > 0 /\ MaxMsgs \in Nat
  BY FileTableMemAssumption
<1>2. Types /\ wild = FALSE /\ sent \in [Peers -> 0 .. MaxMsgs] /\ left \in [Peers -> Nat]
  BY DEF MsgsOK, Types
<1>3. left' \in [Peers -> Nat]
  BY <1>1, <1>2 DEF Cmd
<1>4. sent' \in [Peers -> 0 .. MaxMsgs]
  <2>1. sent[p] + 1 \in 0 .. MaxMsgs
    BY <1>1, <1>2 DEF Cmd
  <2> QED
    BY <1>2, <2>1 DEF Cmd
<1>5. wild' = FALSE
  BY <1>2 DEF Cmd, SeenCmdAlready, AcceptCmd, Lost
<1>6. SeenCmdAlready(p) \/ AcceptCmd(p, n) \/ Lost
  BY DEF Cmd
<1> QED
  BY <1>1, <1>3, <1>4, <1>5, <1>6, SeenCmdAlreadyOK, AcceptCmdOK, LostOK

LEMMA DataOK ==
  ASSUME MsgsOK, MemoryLasts, MemoryLasts', NEW p \in Peers, Data(p)
  PROVE  MsgsOK' /\ Grows
<1>1. Types /\ wild = FALSE /\ sent \in [Peers -> 0 .. MaxMsgs] /\ left \in [Peers -> Nat]
  BY DEF MsgsOK, Types
<1>2. left' \in [Peers -> Nat]
  <2>1. left[p] - 1 \in Nat
    BY <1>1 DEF Data
  <2> QED
    BY <1>1, <2>1 DEF Data
<1>3. sent' \in [Peers -> 0 .. MaxMsgs]
  BY <1>1 DEF Data
<1>4. CASE DropData(p)
  <2>1. wild' = FALSE
    BY <1>1, <1>4 DEF DropData
  <2> QED
    BY <1>2, <1>3, <1>4, <2>1, DropDataOK
<1>5. CASE StoreData(p)
  BY <1>2, <1>3, <1>5, StoreDataOK
<1>6. CASE Lost
  BY <1>2, <1>3, <1>6, LostOK
<1> QED
  BY <1>4, <1>5, <1>6 DEF Data

------------------------------------------------------------------------------
(* The program's copy, while the handler goes on.                           *)
LEMMA CopyStays ==
  ASSUME Types, FdsOK, Grows, UNCHANGED fds
  PROVE  FdsOK'
<1> DEFINE p == fds.p
<1>1. fds \in FdsType /\ p \in Peers
  BY DEF FdsOK, FdsType
<1>2. Len(should[p]) \in Nat /\ Len(should[p]) > 0
  BY <1>1, Lens
<1>3. Len(should'[p]) \in Nat /\ Len(should'[p]) >= Len(should[p])
  BY <1>1 DEF Grows
<1>4. \A k \in 1 .. Len(should[p]) : should'[p][k].at = should[p][k].at
  BY <1>1 DEF Grows
<1>5. ASSUME NEW k \in Nat, k < Len(should[p])
      PROVE  k < Len(should'[p]) /\ (HeadAt(k) => HeadAt(k)')
  <2>1. k < Len(should'[p])
    BY <1>2, <1>3, <1>5
  <2>2. k # 0 => k \in 1 .. Len(should[p])
    BY <1>2, <1>5
  <2> QED
    BY <1>4, <2>1, <2>2 DEF HeadAt
<1>6. fds.pc \in {"tail", "cnt"} =>
        ~ fds.torn /\ \E k \in Nat : k < Len(should'[p]) /\ HeadAt(k)'
  BY <1>5 DEF FdsOK
<1>7. fds.pc = "copied" => \E k \in Nat : k < Len(should'[p]) /\ CopyAt(k)'
  <2> SUFFICES ASSUME fds.pc = "copied"
               PROVE  \E k \in Nat : k < Len(should'[p]) /\ CopyAt(k)'
    OBVIOUS
  <2>1. PICK k \in Nat : k < Len(should[p]) /\ CopyAt(k)
    BY DEF FdsOK
  <2>2. k < Len(should'[p]) /\ HeadAt(k)'
    BY <1>5, <2>1 DEF CopyAt
  <2>3. CopyAt(k)'
    BY <2>1, <2>2 DEF CopyAt
  <2> QED
    BY <2>2, <2>3
<1>8. Len(should'[p]) = 1 => Len(should[p]) = 1
  <2>1. \A a, b \in Nat : a > 0 /\ b >= a /\ b = 1 => a = 1
    OBVIOUS
  <2> QED
    BY <1>2, <1>3, <2>1
<1> QED
  BY <1>1, <1>6, <1>7, <1>8 DEF FdsOK

(* No two messages of a peer have the same address.                         *)
LEMMA Distinct ==
  ASSUME MsgsOK, NEW p \in Peers, NEW k \in 1 .. Len(should[p]), NEW j \in 1 .. Len(should[p]),
         should[p][k].at = should[p][j].at
  PROVE  k = j
<1> SUFFICES ASSUME k # j PROVE FALSE
  OBVIOUS
<1>1. Clear(Addr(should[p][k]), Addr(should[p][j]))
  BY DEF MsgsOK, Apart
<1>2. Addr(should[p][k]) = Addr(should[p][j]) /\ Addr(should[p][k]) \in Nat
  BY DEF MsgsOK, Stored, Addr
<1> HIDE DEF Addr
<1> QED
  BY <1>1, <1>2, Sizes DEF Clear

(* The head of the table's queue is the last message but one.               *)
LEMMA TableHead ==
  ASSUME MsgsOK, NEW p \in Peers
  PROVE  LET n == Len(should[p])
         IN  /\ n \in Nat /\ n > 0 /\ n - 1 \in Nat
             /\ msg_q[p] \in QType /\ msg_q[p].cnt = n - 1
             /\ msg_q[p].head = IF n - 1 = 0 THEN NULL ELSE should[p][n - 1].at
             /\ n - 1 = 0 => msg_q[p].tail = NULL
<1>1. Types /\ QueueOK(p)
  BY Known
<1>2. Len(should[p]) \in Nat /\ Len(should[p]) > 0
  BY <1>1, Lens
<1>3. Len(should[p]) - 1 \in Nat /\ (Len(should[p]) - 1 = 0 <=> Len(should[p]) = 1)
  BY <1>2
<1> QED
  BY <1>1, <1>2, <1>3 DEF QueueOK, Before, Types

------------------------------------------------------------------------------
(* The program's own steps leave the messages alone.                        *)
LEMMA ProgramStays ==
  ASSUME MsgsOK, Program
  PROVE  MsgsOK'
BY DEF MsgsOK, Program, Types, Apart, FreeIsZero, Room, QueueOK, Current, Stored, Holds, Before, Addr

LEMMA GetFd ==
  ASSUME MsgsOK, FdsOK, NEW p \in Peers, get_fd(p)
  PROVE  FdsOK'
<1>1. PICK k \in Nat :
        /\ k < Len(should[p]) /\ msg_q[p] \in QType /\ msg_q[p].cnt = k
        /\ msg_q[p].head = IF k = 0 THEN NULL ELSE should[p][k].at
        /\ k = 0 => msg_q[p].tail = NULL
  <2>1. Len(should[p]) \in Nat /\ Len(should[p]) - 1 \in Nat
    BY TableHead
  <2>2. Len(should[p]) - 1 < Len(should[p])
    BY <2>1
  <2> QED
    BY <2>1, <2>2, TableHead
<1>2. should' = should /\ fds \in FdsType
  BY DEF get_fd, Program, FdsOK
<1>3. msg_q[p].head \in Nat /\ msg_q[p].tail \in Nat /\ msg_q[p].cnt \in Nat
  BY <1>1 DEF QType
<1>4. CASE fds' = [pc |-> "copied", p |-> p, torn |-> FALSE,
                   head |-> msg_q[p].head, tail |-> msg_q[p].tail, cnt |-> msg_q[p].cnt]
  <2>1. fds' \in FdsType /\ fds'.pc = "copied" /\ fds'.p = p
    BY <1>3, <1>4 DEF FdsType
  <2>2. fds'.head = msg_q[p].head /\ fds'.tail = msg_q[p].tail /\ fds'.cnt = k
    BY <1>1, <1>4
  <2>3. CopyAt(k)'
    BY <1>1, <1>2, <2>1, <2>2 DEF CopyAt, HeadAt
  <2> QED
    BY <1>1, <1>2, <2>1, <2>3 DEF FdsOK
<1>5. CASE fds' = [fds EXCEPT !.pc = "tail", !.p = p, !.head = msg_q[p].head, !.torn = FALSE]
  <2>1. fds' \in FdsType /\ fds'.pc = "tail" /\ fds'.p = p /\ ~ fds'.torn
        /\ fds'.head = msg_q[p].head
    BY <1>2, <1>3, <1>5 DEF FdsType
  <2>2. HeadAt(k)'
    BY <1>1, <1>2, <2>1 DEF HeadAt
  <2> QED
    BY <1>1, <1>2, <2>1, <2>2 DEF FdsOK
<1> QED
  BY <1>4, <1>5 DEF get_fd

LEMMA GetFdTail ==
  ASSUME MsgsOK, FdsOK, get_fd_tail
  PROVE  FdsOK'
<1> DEFINE p == fds.p
<1>1. fds \in FdsType /\ fds.pc = "tail" /\ p \in Peers /\ should' = should
  BY DEF FdsOK, FdsType, get_fd_tail, Program
<1>2. /\ msg_q[p] \in QType /\ msg_q[p].tail \in Nat
      /\ Len(should[p]) = 1 => msg_q[p].tail = NULL
  BY <1>1 DEF MsgsOK, Types, QType, QueueOK
<1>3. /\ fds' \in FdsType /\ fds'.pc = "cnt" /\ fds'.p = p /\ fds'.torn = fds.torn
      /\ fds'.head = fds.head /\ fds'.tail = msg_q[p].tail
  BY <1>1, <1>2 DEF FdsType, get_fd_tail
<1>4. ~ fds.torn /\ \E k \in Nat : k < Len(should[p]) /\ HeadAt(k)
  BY <1>1 DEF FdsOK
<1>5. \A k \in Nat : HeadAt(k) => HeadAt(k)'
  BY <1>1, <1>3 DEF HeadAt
<1>6. \E k \in Nat : k < Len(should'[fds'.p]) /\ HeadAt(k)'
  BY <1>1, <1>3, <1>4, <1>5
<1>7. Len(should'[fds'.p]) = 1 => fds'.tail = NULL
  BY <1>1, <1>2, <1>3
<1> QED
  BY <1>3, <1>4, <1>6, <1>7 DEF FdsOK

(* The message a pointer to one is the address of.                          *)
LEMMA HeadIs ==
  ASSUME MsgsOK, NEW p \in Peers,
         NEW k \in Nat, k < Len(should[p]), NEW j \in Nat, j < Len(should[p]),
         NEW h, h = IF k = 0 THEN NULL ELSE should[p][k].at,
         h = IF j = 0 THEN NULL ELSE should[p][j].at
  PROVE  k = j
<1>1. Types /\ Len(should[p]) \in Nat
  BY Lens DEF MsgsOK
<1>2. \A i \in Nat : i # 0 /\ i < Len(should[p]) => i \in 1 .. Len(should[p])
  BY <1>1
<1>3. \A i \in 1 .. Len(should[p]) : should[p][i].at # NULL
  BY <1>1, Lens DEF MsgType, NULL
<1> QED
  BY <1>2, <1>3, Distinct

LEMMA GetFdCnt ==
  ASSUME MsgsOK, FdsOK, get_fd_cnt
  PROVE  FdsOK'
<1> DEFINE p == fds.p
           n == Len(should[p]) - 1
<1>1. fds \in FdsType /\ fds.pc = "cnt" /\ p \in Peers /\ should' = should
  BY DEF FdsOK, FdsType, get_fd_cnt, Program
<1>2. /\ Len(should[p]) \in Nat
      /\ n \in Nat /\ n < Len(should[p]) /\ (n = 0 <=> Len(should[p]) = 1)
      /\ msg_q[p].cnt = n
      /\ msg_q[p].head = IF n = 0 THEN NULL ELSE should[p][n].at
  BY <1>1, TableHead
<1>3. PICK k \in Nat : k < Len(should[p]) /\ HeadAt(k)
  BY <1>1 DEF FdsOK
<1>4. Len(should[p]) = 1 => fds.tail = NULL
  BY <1>1 DEF FdsOK
<1>5. k <= n
  BY <1>2, <1>3
<1> HIDE DEF n
<1>6. /\ fds' \in FdsType /\ fds'.pc = "copied" /\ fds'.p = p
      /\ fds'.head = fds.head /\ fds'.tail = fds.tail /\ fds'.cnt = n
      /\ fds'.torn = (fds.head # msg_q[p].head)
  BY <1>1, <1>2 DEF FdsType, get_fd_cnt
<1>7. HeadAt(k)'
  BY <1>1, <1>3, <1>6 DEF HeadAt
<1>8. ASSUME ~ fds'.torn PROVE k = n
  <2>1. fds.head = msg_q[p].head
    BY <1>6, <1>8
  <2>2. fds.head = IF k = 0 THEN NULL ELSE should[p][k].at
    BY <1>3 DEF HeadAt
  <2> QED
    BY <1>1, <1>2, <1>3, <2>1, <2>2, HeadIs
<1>9. CopyAt(k)'
  <2>1. fds'.cnt >= k
    BY <1>2, <1>5, <1>6
  <2>2. ASSUME ~ fds'.torn PROVE fds'.cnt = k /\ (k = 0 => fds'.tail = NULL)
    BY <1>2, <1>4, <1>6, <1>8, <2>2
  <2> QED
    BY <1>7, <2>1, <2>2 DEF CopyAt
<1>10. k < Len(should'[fds'.p])
  BY <1>1, <1>3, <1>6
<1> QED
  BY <1>6, <1>9, <1>10 DEF FdsOK

LEMMA HasMsg ==
  ASSUME MsgsOK, FdsOK, has_msg
  PROVE  FdsOK'
<1> DEFINE p == fds.p
<1>1. fds \in FdsType /\ fds.pc = "copied" /\ p \in Peers /\ fds.head = NULL
  BY DEF FdsOK, FdsType, has_msg
<1>2. PICK k \in Nat : k < Len(should[p]) /\ CopyAt(k)
  BY <1>1 DEF FdsOK
<1>3. k = 0
  <2>1. 0 \in Nat /\ 0 < Len(should[p])
    BY <1>1, TableHead
  <2>2. fds.head = IF k = 0 THEN NULL ELSE should[p][k].at
    BY <1>2 DEF CopyAt, HeadAt
  <2> QED
    BY <1>1, <1>2, <2>1, <2>2, HeadIs
<1>4. ~ fds.torn => fds.cnt = 0 /\ fds.tail = NULL
  BY <1>2, <1>3 DEF CopyAt
<1>5. fds' = [fds EXCEPT !.pc = IF fds.cnt # 0 \/ fds.tail # NULL THEN "panic" ELSE "idle"]
  BY DEF has_msg
<1>6. fds' \in FdsType /\ fds'.head = NULL /\ fds'.torn = fds.torn
      /\ fds'.pc \in {"panic", "idle"} /\ (fds'.pc = "panic" => fds.cnt # 0 \/ fds.tail # NULL)
  BY <1>1, <1>5 DEF FdsType
<1> QED
  BY <1>4, <1>6 DEF FdsOK

LEMMA GetMsg ==
  ASSUME MsgsOK, FdsOK, get_msg
  PROVE  FdsOK'
<1> DEFINE p == fds.p
           e == next(fds.head)
<1>1. fds \in FdsType /\ fds.pc = "copied" /\ p \in Peers /\ fds.head # NULL /\ should' = should
  BY DEF FdsOK, FdsType, get_msg, Program
<1>2. PICK k \in Nat : k < Len(should[p]) /\ CopyAt(k)
  BY <1>1 DEF FdsOK
<1>3. k # 0 /\ fds.head = should[p][k].at /\ fds.cnt >= k /\ (~ fds.torn => fds.cnt = k)
  BY <1>1, <1>2 DEF CopyAt, HeadAt
<1>4. Types /\ Len(should[p]) \in Nat
  BY <1>1, Lens DEF MsgsOK
<1>5. k \in 1 .. Len(should[p]) /\ k - 1 \in Nat /\ k - 1 < Len(should[p]) /\ (k - 1 = 0 <=> k = 1)
  BY <1>2, <1>3, <1>4
<1>6. e = Before(should[p], k)
  <2>1. Stored(mem, hp, should[p], k)
    BY <1>1, <1>5, Known
  <2> QED
    BY <1>2, <1>3, <2>1 DEF Stored, next, Addr
<1>7. e = IF k - 1 = 0 THEN NULL ELSE should[p][k - 1].at
  BY <1>5, <1>6 DEF Before
<1>8. e \in Nat
  <2>1. CASE k - 1 = 0
    BY <1>7, <2>1 DEF NULL
  <2>2. CASE k - 1 # 0
    <3>1. k - 1 \in 1 .. Len(should[p])
      BY <1>4, <1>5, <2>2
    <3>2. should[p][k - 1] \in MsgType
      BY <1>1, <1>4, <3>1, Lens
    <3> QED
      BY <1>7, <2>2, <3>2 DEF MsgType
  <2> QED
    BY <2>1, <2>2
<1> HIDE DEF e
<1>9. fds.cnt \in Nat /\ fds.cnt - 1 \in Nat /\ fds.cnt - 1 >= k - 1 /\ fds.tail \in Nat
  BY <1>1, <1>3, <1>5 DEF FdsType
<1>10. fds' = [fds EXCEPT !.cnt = @ - 1, !.head = e, !.tail = IF e = NULL THEN NULL ELSE @]
  BY DEF get_msg, e
<1>11. /\ fds' \in FdsType /\ fds'.pc = "copied" /\ fds'.p = p /\ fds'.head = e
       /\ fds'.cnt = fds.cnt - 1 /\ fds'.torn = fds.torn
       /\ e = NULL => fds'.tail = NULL
  <2>1. NULL \in Nat
    BY DEF NULL
  <2> QED
    BY <1>1, <1>8, <1>9, <1>10, <2>1 DEF FdsType
<1>12. CopyAt(k - 1)'
  <2>1. HeadAt(k - 1)'
    BY <1>1, <1>7, <1>11 DEF HeadAt
  <2>2. fds'.cnt >= k - 1
    BY <1>9, <1>11
  <2>3. ASSUME ~ fds'.torn PROVE fds'.cnt = k - 1 /\ (k - 1 = 0 => fds'.tail = NULL)
    BY <1>3, <1>7, <1>11, <2>3
  <2> QED
    BY <2>1, <2>2, <2>3 DEF CopyAt
<1>13. k - 1 < Len(should'[fds'.p])
  BY <1>1, <1>5, <1>11
<1> QED
  BY <1>5, <1>11, <1>12, <1>13 DEF FdsOK

LEMMA Forget ==
  ASSUME FdsOK, forget
  PROVE  FdsOK'
<1>1. fds' \in FdsType /\ fds'.pc = "idle"
  BY DEF FdsOK, FdsType, forget
<1> QED
  BY <1>1 DEF FdsOK

------------------------------------------------------------------------------
LEMMA NextMem ==
  ASSUME MemInv, [Next]_vars
  PROVE  MemInv'
<1>1. CASE UNCHANGED vars
  BY <1>1 DEF vars, MemInv, MemoryLasts, Full, MsgsOK, Types, Apart, FreeIsZero, Room, QueueOK,
       Current, Stored, Holds, Before, Addr, FdsOK, CopyAt, HeadAt
<1>2. CASE Next
  <2>1. hp \in Nat /\ hp' \in Nat /\ hp' >= hp
    BY <1>2, HeapGrows DEF MemInv
  <2> SUFFICES ASSUME MemoryLasts' PROVE Full'
    BY <2>1 DEF MemInv
  <2>2. MemoryLasts
    BY <2>1, FileTableMemAssumption DEF MemoryLasts
  <2>3. MsgsOK /\ FdsOK /\ Types
    BY <2>2 DEF MemInv, Full, MsgsOK
  <2>4. ASSUME NEW p \in Peers, NEW n \in Counts, Cmd(p, n) PROVE Full'
    <3>1. MsgsOK' /\ Grows
      BY <2>2, <2>3, <2>4, CmdOK
    <3>2. FdsOK'
      BY <2>3, <2>4, <3>1, CopyStays DEF Cmd
    <3> QED
      BY <3>1, <3>2 DEF Full
  <2>5. ASSUME NEW p \in Peers, Data(p) PROVE Full'
    <3>1. MsgsOK' /\ Grows
      BY <2>2, <2>3, <2>5, DataOK
    <3>2. FdsOK'
      BY <2>3, <2>5, <3>1, CopyStays DEF Data
    <3> QED
      BY <3>1, <3>2 DEF Full
  <2>6. ASSUME NEW p \in Peers, get_fd(p) PROVE Full'
    BY <2>3, <2>6, ProgramStays, GetFd DEF Full, get_fd
  <2>7. CASE get_fd_tail
    BY <2>3, <2>7, ProgramStays, GetFdTail DEF Full, get_fd_tail
  <2>8. CASE get_fd_cnt
    BY <2>3, <2>8, ProgramStays, GetFdCnt DEF Full, get_fd_cnt
  <2>9. CASE has_msg
    BY <2>3, <2>9, ProgramStays, HasMsg DEF Full, has_msg
  <2>10. CASE get_msg
    BY <2>3, <2>10, ProgramStays, GetMsg DEF Full, get_msg
  <2>11. CASE forget
    BY <2>3, <2>11, ProgramStays, Forget DEF Full, forget
  <2> QED
    BY <1>2, <2>4, <2>5, <2>6, <2>7, <2>8, <2>9, <2>10, <2>11 DEF Next
<1> QED
  BY <1>1, <1>2

(* While memory lasts, a state of the invariant is as the runs require.     *)
LEMMA Reads ==
  ASSUME MsgsOK, MemoryLasts, NEW p \in Peers, NEW k \in 1 .. Len(should[p])
  PROVE  Kept(p, k)
<1> DEFINE m == should[p][k]
<1>1. Types /\ Stored(mem, hp, should[p], k)
  BY Known
<1>2. m \in MsgType
  BY <1>1, Lens
<1>3. /\ mem[Addr(m)] = m.has_cmd /\ mem[Addr(m) + 1] = m.totPckts
      /\ mem[Addr(m) + 2] = m.curPckts /\ mem[Addr(m) + 3] = m.data
      /\ k < Len(should[p]) => mem[Addr(m) + 4] = Before(should[p], k)
  BY <1>1 DEF Stored, Holds
<1>4. m.has_cmd \in {0, 1}
  BY <1>2 DEF MsgType
<1>5. has_cmd(m.at) <=> m.has_cmd = 1
  BY <1>3, <1>4, Bytes DEF has_cmd, Addr
<1>6. totPckts(m.at) = m.totPckts /\ curPckts(m.at) = m.curPckts /\ data(m.at) = m.data
  BY <1>3 DEF totPckts, curPckts, data, Addr
<1>7. k < Len(should[p]) => next(m.at) = IF k = 1 THEN NULL ELSE should[p][k - 1].at
  BY <1>3 DEF next, Addr, Before
<1> QED
  BY <1>5, <1>6, <1>7 DEF Kept

LEMMA InvApart ==
  ASSUME MemInv, MemoryLasts
  PROVE  MessagesApart
<1>1. MsgsOK /\ wild = FALSE
  BY DEF MemInv, Full, MsgsOK, Types
<1> QED
  BY <1>1, Reads DEF MessagesApart

LEMMA InvWalks ==
  ASSUME MemInv, MemoryLasts
  PROVE  CopyWalks
<1>1. MsgsOK /\ FdsOK /\ fds \in FdsType /\ fds.p \in Peers
  BY DEF MemInv, Full, FdsOK, FdsType
<1>2. fds.pc = "panic" => fds.torn
  BY <1>1 DEF FdsOK
<1>3. ASSUME fds.pc # "idle", fds.head # NULL
      PROVE  \E k \in 1 .. Len(should[fds.p]) - 1 : Kept(fds.p, k) /\ fds.head = should[fds.p][k].at
  <2>1. \E k \in Nat : k < Len(should[fds.p]) /\ HeadAt(k)
    <3>1. fds.pc \in {"tail", "cnt", "copied"}
      BY <1>1, <1>3 DEF FdsOK, FdsType
    <3> QED
      BY <1>1, <3>1 DEF FdsOK, CopyAt
  <2>2. PICK k \in Nat : k < Len(should[fds.p]) /\ HeadAt(k)
    BY <2>1
  <2>3. k # 0 /\ fds.head = should[fds.p][k].at
    BY <1>3, <2>2 DEF HeadAt
  <2>4. Len(should[fds.p]) \in Nat
    BY <1>1, Lens DEF MsgsOK
  <2>5. k \in 1 .. Len(should[fds.p]) - 1 /\ k \in 1 .. Len(should[fds.p])
    BY <2>2, <2>3, <2>4
  <2>6. Kept(fds.p, k)
    BY <1>1, <2>5, Reads
  <2> QED
    BY <2>3, <2>5, <2>6
<1> QED
  BY <1>2, <1>3 DEF CopyWalks

LEMMA InvTyped ==
  ASSUME MemInv, MemoryLasts
  PROVE  TypeOK
<1>1. MsgsOK /\ Types /\ fds \in FdsType /\ \A p \in Peers : QueueOK(p)
  BY DEF MemInv, Full, MsgsOK, FdsOK
<1>2. hp \in 1 .. MemWords
  <2>1. hp \in Nat /\ hp <= MemWords /\ MemWords \in Nat
    BY <1>1, FileTableMemAssumption DEF Types, MemoryLasts
  <2>2. PICK p \in Peers : TRUE
    BY FileTableMemAssumption
  <2>3. Stored(mem, hp, should[p], Len(should[p]))
    BY <1>1, Lens, Known
  <2>4. Addr(should[p][Len(should[p])]) \in Nat /\ Addr(should[p][Len(should[p])]) + 5 <= hp
    BY <2>3, Sizes DEF Stored
  <2> HIDE DEF Addr
  <2> QED
    BY <2>1, <2>4
<1>3. \A p \in Peers : should[p] # <<>> /\ cur_msg[p] = Current(p).at
  <2> SUFFICES ASSUME NEW p \in Peers PROVE should[p] # <<>>
    BY <1>1 DEF QueueOK
  <2>1. Len(should[p]) > 0 /\ Len(<<>>) = 0
    BY <1>1 DEF Types
  <2> QED
    BY <2>1
<1> QED
  BY <1>1, <1>2, <1>3 DEF TypeOK, Types, FdsType

------------------------------------------------------------------------------
LEMMA SpecMem ==
  ASSUME PeersApart
  PROVE  Spec => []MemInv
<1>1. Init => MemInv
  BY InitMem
<1>2. MemInv /\ [Next]_vars => MemInv'
  BY NextMem
<1> QED
  BY <1>1, <1>2, PTL DEF Spec

(* As long as memory lasts the state is of its type: the pointers of every  *)
(* entry point into the memory that has been allocated.                     *)
THEOREM MemTyped ==
  ASSUME PeersApart
  PROVE  Spec => [](MemoryLasts => TypeOK)
<1>1. MemInv => (MemoryLasts => TypeOK)
  BY InvTyped
<1> QED
  BY <1>1, SpecMem, PTL

(* As long as memory lasts no packet changes a message of another entry, nor*)
(* a queued one of its own, and every data packet goes into the buffer of   *)
(* its message: for any number of peers whose initial messages do not       *)
(* overlap, although init_fileTable gives those the size of a pointer.      *)
THEOREM MessagesStayApart ==
  ASSUME PeersApart
  PROVE  Spec => [](MemoryLasts => MessagesApart)
<1>1. MemInv => (MemoryLasts => MessagesApart)
  BY InvApart
<1> QED
  BY <1>1, SpecMem, PTL

(* As long as memory lasts, what get_fd copied leads to the messages of its *)
(* peer, however often the handler pushed since or between the loads, and   *)
(* only a copy torn by the handler makes has_msg panic.                     *)
THEOREM CopyAlwaysWalks ==
  ASSUME PeersApart
  PROVE  Spec => [](MemoryLasts => CopyWalks)
<1>1. MemInv => (MemoryLasts => CopyWalks)
  BY InvWalks
<1> QED
  BY <1>1, SpecMem, PTL
=============================================================================
