---------------------------- MODULE FileTableMem ----------------------------
(***************************************************************************)
(* Where the messages of the file table lie in memory                      *)
(* (project/sw-uart/fds.c).  init_fileTable allocates the initial cur_msg  *)
(* of every entry with the size of a POINTER, so that the initial messages *)
(* of neighbouring entries overlap; every later message is allocated with  *)
(* its own size.  FileTable takes the messages to be apart; this module    *)
(* says for which addresses they are.                                      *)
(*                                                                         *)
(* Memory is a function from words to 32-bit values.  A msg_t is five      *)
(* words: has_cmd (the low byte), totPckts, curPckts, data, next.  A       *)
(* pointer is the byte address of a word.  kmalloc only ever moves forward *)
(* and returns zero-filled memory; the bytes of packets and of data        *)
(* buffers are left out, the addresses of the latter are not.              *)
(***************************************************************************)
EXTENDS Integers, Sequences

CONSTANTS
  MAXFILES,
  Peers,        (* the addresses that send to this Pi                       *)
  Align,        (* words kmalloc rounds up to                               *)
  HeapStart,    (* the first free word when init_fileTable runs             *)
  MemWords,     (* bound: words of memory                                   *)
  Counts,       (* the numbers of data packets in the peers' messages       *)
  MaxMsgs       (* bound: messages each peer sends                          *)

ASSUME FileTableMemAssumption ==
  /\ Align \in {1, 2}
  /\ HeapStart \in Nat \ {0}
  /\ {MAXFILES, MemWords, MaxMsgs} \subseteq Nat
  /\ Peers \subseteq 0 .. MAXFILES - 1 /\ Peers # {}
  /\ Counts \subseteq Nat \ {0}
  (* the last initial message in use ends before the next allocation        *)
  /\ \A p \in Peers : Align * (MAXFILES - p + 1) >= 5

VARIABLES
  mem,
  hp,           (* kmalloc's first free word                                *)
  cur_msg,      (* fileTable[p].cur_msg                                     *)
  msg_q,        (* fileTable[p].msg_q: [head, tail, cnt]                    *)
  wild,         (* a packet was copied through a pointer that is not its    *)
                (* buffer's: what happens from then on is undefined         *)
  left,         (* data packets p has still to send                         *)
  sent,         (* messages p has begun                                     *)
  should,       (* history: the messages of p as they were written, oldest  *)
                (* first, with cur_msg last                                 *)
  fds           (* the program's copy of p's entry: [pc, p, head, tail,     *)
                (* cnt, torn]; "idle", "tail" and "cnt" within get_fd,      *)
                (* "copied", "panic"; torn: the handler came between loads  *)

vars == <<mem, hp, cur_msg, msg_q, wild, left, sent, should, fds>>

------------------------------------------------------------------------------
NULL == 0

MSG == 5                                       (* words of a msg_t *)

RoundUp(n) == IF n % Align = 0 THEN n ELSE n + 1

(* Mutant: bytes taken for words. *)
DataWords_Bytes(n) == 30 * n

DataWords(n) == (30 * n + 3) \div 4

Ptr(w) == 4 * w

Word(ptr) == ptr \div 4

Byte(v) == v % 256

(* v with its low byte replaced by b.                                       *)
SetByte(v, b) == v - Byte(v) + b

has_cmd(m) == Byte(mem[Word(m)]) # 0
totPckts(m) == mem[Word(m) + 1]
curPckts(m) == mem[Word(m) + 2]
data(m) == mem[Word(m) + 3]
next(m) == mem[Word(m) + 4]

(* Memory after the fields of message m are assigned.                       *)
Written(m, has, tot, cur, dat) ==
  LET w == Word(m)
  IN [mem EXCEPT ![w] = SetByte(@, has), ![w + 1] = tot, ![w + 2] = cur, ![w + 3] = dat]

(* The record the code means to have written.                               *)
Msg(at, has, tot, cur, dat) ==
  [at |-> at, has_cmd |-> has, totPckts |-> tot, curPckts |-> cur, data |-> dat]

(* In should, the message being assembled replaced by m.                    *)
Now(p, m) == should' = [should EXCEPT ![p][Len(should[p])] = m]

------------------------------------------------------------------------------
(* The handler, on the message of a packet from p.                          *)

Current(p) == should[p][Len(should[p])]

SeenCmdAlready(p) ==
  LET m == cur_msg[p]
  IN /\ has_cmd(m)
     /\ mem' = Written(m, 0, 0, 0, NULL)
     /\ Now(p, Msg(m, 0, 0, 0, NULL))
     /\ UNCHANGED <<hp, cur_msg, msg_q, wild>>

AcceptCmd(p, n) ==
  LET m == cur_msg[p]
  IN /\ ~ has_cmd(m)
     /\ mem' = Written(m, 1, n, 0, Ptr(hp))
     /\ Now(p, Msg(m, 1, n, 0, Ptr(hp)))
     /\ hp' = hp + RoundUp(DataWords(n))
     /\ UNCHANGED <<cur_msg, msg_q, wild>>

DropData(p) ==
  LET m == cur_msg[p]
  IN /\ ~ has_cmd(m)
     /\ mem' = Written(m, Byte(mem[Word(m)]), 0, 0, NULL)
     /\ Now(p, Msg(m, 0, 0, 0, NULL))
     /\ UNCHANGED <<hp, cur_msg, msg_q, wild>>

(* The copy goes to data + 30 * curPckts, whatever these fields hold.       *)
CopyIsWild(p) ==
  \/ data(cur_msg[p]) # Current(p).data
  \/ curPckts(cur_msg[p]) # Current(p).curPckts
  \/ Current(p).curPckts >= Current(p).totPckts

(* Mutant: the caller counts as well. *)
Q_push_Twice(q, m) ==
  [head |-> m, tail |-> IF q.tail = NULL THEN m ELSE q.tail, cnt |-> q.cnt + 2]

Q_push(q, m) ==
  [head |-> m, tail |-> IF q.tail = NULL THEN m ELSE q.tail, cnt |-> q.cnt + 1]

(* add_msg links the message in front of the queue and allocates the next   *)
(* one; kmalloc's memory is zero, which clears its fields and has_cmd.      *)
StoreData(p) ==
  LET m    == cur_msg[p]
      c    == curPckts(m) + 1
      full == c = totPckts(m)
      done == [Current(p) EXCEPT !.curPckts = @ + 1]
  IN /\ has_cmd(m)
     /\ wild' = CopyIsWild(p)
     /\ IF full
          THEN /\ mem' = [mem EXCEPT ![Word(m) + 2] = c, ![Word(m) + 4] = msg_q[p].head]
               /\ msg_q' = [msg_q EXCEPT ![p] = Q_push(@, m)]
               /\ cur_msg' = [cur_msg EXCEPT ![p] = Ptr(hp)]
               /\ hp' = hp + RoundUp(MSG)
               /\ should' = [should EXCEPT ![p] =
                    Append([@ EXCEPT ![Len(@)] = done], Msg(Ptr(hp), 0, 0, 0, NULL))]
          ELSE /\ mem' = [mem EXCEPT ![Word(m) + 2] = c]
               /\ Now(p, done)
               /\ UNCHANGED <<hp, cur_msg, msg_q>>

------------------------------------------------------------------------------
(* The peers; a packet is received or lost.                                 *)

Lost == UNCHANGED <<mem, hp, cur_msg, msg_q, wild, should>>

Cmd(p, n) ==
  /\ ~ wild
  /\ left[p] = 0
  /\ sent[p] < MaxMsgs
  /\ sent' = [sent EXCEPT ![p] = @ + 1]
  /\ left' = [left EXCEPT ![p] = n]
  /\ SeenCmdAlready(p) \/ AcceptCmd(p, n) \/ Lost
  /\ UNCHANGED fds

Data(p) ==
  /\ ~ wild
  /\ left[p] > 0
  /\ left' = [left EXCEPT ![p] = @ - 1]
  /\ DropData(p) \/ StoreData(p) \/ Lost
  /\ UNCHANGED <<sent, fds>>

------------------------------------------------------------------------------
(* The program, between whose steps the handler runs.                       *)

Program == ~ wild /\ UNCHANGED <<mem, hp, cur_msg, msg_q, wild, left, sent, should>>

(* get_fd, copying the queue by one load of several words, or word by word: *)
(* the compiler may do either.                                              *)
get_fd(p) ==
  /\ Program
  /\ fds.pc = "idle"
  /\ \/ fds' = [pc |-> "copied", p |-> p, torn |-> FALSE,
                head |-> msg_q[p].head, tail |-> msg_q[p].tail, cnt |-> msg_q[p].cnt]
     \/ fds' = [fds EXCEPT !.pc = "tail", !.p = p, !.head = msg_q[p].head, !.torn = FALSE]

get_fd_tail ==
  /\ Program
  /\ fds.pc = "tail"
  /\ fds' = [fds EXCEPT !.pc = "cnt", !.tail = msg_q[fds.p].tail]

get_fd_cnt ==
  /\ Program
  /\ fds.pc = "cnt"
  /\ fds' = [fds EXCEPT !.pc = "copied", !.cnt = msg_q[fds.p].cnt,
                        !.torn = fds.head # msg_q[fds.p].head]

(* has_msg on an empty queue checks the other fields, and there is no way   *)
(* on from panic.                                                           *)
has_msg ==
  /\ Program
  /\ fds.pc = "copied" /\ fds.head = NULL
  /\ fds' = [fds EXCEPT !.pc = IF fds.cnt # 0 \/ fds.tail # NULL THEN "panic" ELSE "idle"]

(* Q_pop on the copy, or the program is content with what it has.           *)
get_msg ==
  /\ Program
  /\ fds.pc = "copied" /\ fds.head # NULL
  /\ LET e == next(fds.head)
     IN  fds' = [fds EXCEPT !.cnt = @ - 1, !.head = e, !.tail = IF e = NULL THEN NULL ELSE @]

forget ==
  /\ Program
  /\ fds.pc = "copied" /\ fds.head # NULL
  /\ fds' = [fds EXCEPT !.pc = "idle"]

(* Mutant: the size of a pointer without kmalloc's rounding. *)
Initial_Packed(f) == Ptr(HeapStart + f)

(* init_fileTable: one allocation of a pointer's size per entry.            *)
Initial(f) == Ptr(HeapStart + Align * f)

EmptyQ == [head |-> NULL, tail |-> NULL, cnt |-> 0]

Init ==
  /\ mem = [w \in 1 .. MemWords |-> 0]
  /\ hp = HeapStart + Align * (MAXFILES + 1)
  /\ cur_msg = [p \in Peers |-> Initial(p)]
  /\ msg_q = [p \in Peers |-> EmptyQ]
  /\ wild = FALSE
  /\ fds = [pc |-> "idle", p |-> CHOOSE p \in Peers : TRUE, torn |-> FALSE,
            head |-> NULL, tail |-> NULL, cnt |-> 0]
  /\ left = [p \in Peers |-> 0]
  /\ sent = [p \in Peers |-> 0]
  /\ should = [p \in Peers |-> <<Msg(Initial(p), 0, 0, 0, NULL)>>]

Next ==
  \/ \E p \in Peers : (\E n \in Counts : Cmd(p, n)) \/ Data(p) \/ get_fd(p)
  \/ get_fd_tail \/ get_fd_cnt \/ has_msg \/ get_msg \/ forget

Spec == Init /\ [][Next]_vars

------------------------------------------------------------------------------
QType == [head : Nat, tail : Nat, cnt : Nat]

(* The type invariant.                                                      *)
TypeOK ==
  /\ mem \in [1 .. MemWords -> Nat]
  /\ hp \in 1 .. MemWords
  /\ cur_msg \in [Peers -> Nat]
  /\ msg_q \in [Peers -> QType]
  /\ fds \in [pc : {"idle", "tail", "cnt", "copied", "panic"}, p : Peers, torn : BOOLEAN,
              head : Nat, tail : Nat, cnt : Nat]
  /\ wild \in BOOLEAN
  /\ left \in [Peers -> Nat]
  /\ sent \in [Peers -> 0 .. MaxMsgs]
  /\ \A p \in Peers : should[p] # <<>> /\ cur_msg[p] = Current(p).at

(* The fields of a message hold what was last assigned to them, and a       *)
(* queued one is linked to the one queued before it.                        *)
Kept(p, k) ==
  LET m == should[p][k]
  IN /\ has_cmd(m.at) <=> m.has_cmd = 1
     /\ totPckts(m.at) = m.totPckts
     /\ curPckts(m.at) = m.curPckts
     /\ data(m.at) = m.data
     /\ k < Len(should[p]) =>
          next(m.at) = IF k = 1 THEN NULL ELSE should[p][k - 1].at

(* Each entry has messages of its own: the packets of one peer change no    *)
(* field of a message of another, whether it is being assembled or queued,  *)
(* and every data packet is copied into the buffer of its message.  It is   *)
(* what FileTable takes for granted.                                        *)
MessagesApart ==
  /\ \A p \in Peers : \A k \in 1 .. Len(should[p]) : Kept(p, k)
  /\ ~ wild

(* Following the copy's pointers yields messages of its peer, newest first, *)
(* each once, down to the very first: also when the handler has pushed      *)
(* since, or between the loads of get_fd.  And only a copy it has torn makes*)
(* has_msg panic.                                                           *)
CopyWalks ==
  /\ fds.pc # "idle" /\ fds.head # NULL =>
       \E k \in 1 .. Len(should[fds.p]) - 1 : Kept(fds.p, k) /\ fds.head = should[fds.p][k].at
  /\ fds.pc = "panic" => fds.torn

(* fds.c:211: "prepare the buffer for the message".  A data packet is       *)
(* always copied to the buffer prepared for its message.                    *)
CopiedToBuffer == ~ wild
==============================================================================
