---------------------------- MODULE ProgramLine ----------------------------
(***************************************************************************)
(* Programs on the bit-banged line from the shell's server to a client:    *)
(* the frame of run_prog (project/shell/server/server.c), the loop of the  *)
(* client (project/shell/client/client.c) and sw_uart_gets between them    *)
(* (server-client-sw_uart/lib/sw-uart.c).                                  *)
(*                                                                         *)
(* The line has no buffer: a byte that is sent while the client is not in  *)
(* sw_uart_gets is gone.  Within it the client is always back in time.     *)
(*                                                                         *)
(* A frame is longer than its program, and behind the program it has what  *)
(* the server's stack held there before: any bytes, marks among them.      *)
(***************************************************************************)
EXTENDS Integers, Sequences, SequencesExt

CONSTANTS
  Byte,         (* the bytes told apart                                     *)
  Zero,         (* the byte 0                                               *)
  Cookie,       (* the byte a program begins with                           *)
  start_seq,    (* "START:"                                                 *)
  stop_seq,     (* ":END"                                                   *)
  Progs,        (* the programs the user runs                               *)
  Leftover,     (* bytes there may be on the server's stack                 *)
  Memory,       (* what the client's memory may hold when it is switched on *)
  FrameLen,     (* bytes the server sends: 8000                             *)
  buflen        (* bytes the client gives sw_uart_gets: 8000                *)

(* The server asserts a program's header.  The first byte of the start      *)
(* sequence is nowhere else in it, and the client's buffer ends behind the  *)
(* start of the next frame's start sequence and before its end.             *)
ASSUME ProgramLineAssumption ==
  /\ start_seq \in Seq(Byte) /\ stop_seq \in Seq(Byte) /\ Progs \subseteq Seq(Byte) \ {<<>>}
  /\ Zero \in Byte /\ Leftover \subseteq Byte
  /\ start_seq # <<>> /\ stop_seq # <<>>
  /\ \A k \in 2 .. Len(start_seq) : start_seq[k] # start_seq[1]
  /\ {FrameLen, buflen} \subseteq Nat /\ 1 < buflen /\ Len(start_seq) <= buflen
  /\ FrameLen - Len(start_seq) + 1 < buflen /\ buflen <= FrameLen + 1
  /\ \A p \in Progs : /\ p[1] = Cookie
                      /\ Len(start_seq \o p \o stop_seq) <= FrameLen
                      /\ Len(p) < buflen
  /\ Memory \subseteq [0 .. buflen - 1 -> Byte]

VARIABLES
  out,          (* bytes of the frame the server has still to send          *)
  frames,       (* history: the last two frames, [prog, left]               *)
  client,       (* [pc, i]: "off", "start" and "data" in sw_uart_gets,      *)
                (* "run", "lost" when it runs what is no program            *)
  buf           (* the client's buffer, kept from program to program        *)

vars == <<out, frames, client, buf>>

NoFrame == [prog |-> <<>>, left |-> <<>>]

Frame(f) == start_seq \o f.prog \o stop_seq \o f.left

(* What is on the stack behind p and its marks.                             *)
Lefts(p) == [1 .. FrameLen - Len(start_seq \o p \o stop_seq) -> Leftover]

(* The server has been given another program.                               *)
run_prog ==
  /\ out = <<>>
  /\ \E p \in Progs : \E left \in Lefts(p) :
       LET f == [prog |-> p, left |-> left]
       IN  out' = Frame(f) /\ frames' = <<frames[2], f>>
  /\ UNCHANGED <<client, buf>>

------------------------------------------------------------------------------
(* sw_uart_gets, one byte c at a time.                                      *)

(* After a mismatch the byte is not tried as the first one.                 *)
SearchStart(c) ==
  /\ client.pc = "start"
  /\ IF c # start_seq[client.i + 1] THEN client' = [client EXCEPT !.i = 0]
     ELSE IF client.i + 1 = Len(start_seq) THEN client' = [pc |-> "data", i |-> 0]
     ELSE client' = [client EXCEPT !.i = @ + 1]
  /\ UNCHANGED buf

(* Mutant: the first byte of the stop sequence is taken for all of it. *)
StopSeen_First(c) == c = stop_seq[1]

(* c against the first byte of stop_seq, and the bytes up to buf[i], which  *)
(* is not c but what was there before, against all of it.                   *)
StopSeen(c) ==
  LET n == Len(stop_seq) IN
  /\ c = stop_seq[1]
  /\ client.i >= n - 1
  /\ \A k \in 1 .. n : buf[client.i - n + k] = stop_seq[k]

(* Mutant: no room is kept for the terminating 0. *)
ReadData_OffByOne(c) ==
  /\ client.pc = "data"
  /\ buf' = [buf EXCEPT ![client.i] = c]
  /\ client' = [pc |-> IF client.i + 1 < buflen THEN "data" ELSE "run", i |-> client.i + 1]

(* Mutant: only a stop ends the program. *)
ReadData_Wait(c) ==
  /\ client.pc = "data"
  /\ IF StopSeen(c)
       THEN client' = [client EXCEPT !.pc = "run"] /\ buf' = [buf EXCEPT ![client.i] = Zero]
       ELSE IF client.i + 1 < buflen - 1
       THEN client' = [client EXCEPT !.i = @ + 1] /\ buf' = [buf EXCEPT ![client.i] = c]
       ELSE UNCHANGED <<client, buf>>

ReadData(c) ==
  /\ client.pc = "data"
  /\ IF StopSeen(c)
       THEN client' = [client EXCEPT !.pc = "run"] /\ buf' = [buf EXCEPT ![client.i] = Zero]
       ELSE IF client.i + 1 < buflen - 1
       THEN client' = [client EXCEPT !.i = @ + 1] /\ buf' = [buf EXCEPT ![client.i] = c]
       ELSE /\ client' = [pc |-> "run", i |-> client.i + 1]
            /\ buf' = [buf EXCEPT ![client.i] = c, ![client.i + 1] = Zero]

(* The server bangs a byte out, whoever listens.                            *)
sw_uart_put8 ==
  /\ out # <<>>
  /\ out' = Tail(out)
  /\ \/ SearchStart(Head(out))
     \/ ReadData(Head(out))
     \/ client.pc \in {"off", "run", "lost"} /\ UNCHANGED <<client, buf>>
  /\ UNCHANGED frames

------------------------------------------------------------------------------
(* The client.                                                              *)

(* Its memory is as it was after a reboot, and anything after a power cut.  *)
PowerOn ==
  /\ client.pc = "off"
  /\ client' = [pc |-> "start", i |-> 0]
  /\ buf' \in Memory \cup {buf}
  /\ UNCHANGED <<out, frames>>

(* The buffer begins with all of p.                                         *)
Begins(p) == \A k \in DOMAIN p : buf[k - 1] = p[k]

(* The job returns; it ran in the buffer and may have cleared what follows  *)
(* its own bytes.                                                           *)
JobDone ==
  /\ client' = [pc |-> "start", i |-> 0]
  /\ \E p \in Progs :
       /\ Begins(p)
       /\ buf' \in {buf, [k \in DOMAIN buf |-> IF k < Len(p) THEN buf[k] ELSE Zero]}

(* What the client has got is jumped to if it has a program's header; what  *)
(* becomes of one that only begins like a program is open.                  *)
BRANCHTO ==
  /\ client.pc = "run"
  /\ \/ JobDone
     \/ buf[0] # Cookie /\ client' = [pc |-> "off", i |-> 0] /\ UNCHANGED buf
     \/ /\ buf[0] = Cookie /\ \A p \in Progs : ~ Begins(p)
        /\ client' = [pc |-> "lost", i |-> 0] /\ UNCHANGED buf
  /\ UNCHANGED <<out, frames>>

------------------------------------------------------------------------------
Init ==
  /\ out = <<>>
  /\ frames = <<NoFrame, NoFrame>>
  /\ client = [pc |-> "off", i |-> 0]
  /\ buf = [k \in 0 .. buflen - 1 |-> Zero]

Next == run_prog \/ sw_uart_put8 \/ PowerOn \/ BRANCHTO

Spec == Init /\ [][Next]_vars

(* Both programs go on, and jobs end.                                       *)
FairSpec == Spec /\ WF_vars(sw_uart_put8) /\ WF_vars(BRANCHTO)

------------------------------------------------------------------------------
(* The type invariant.                                                      *)
TypeOK ==
  /\ out \in Seq(Byte) /\ Len(out) <= FrameLen
  /\ frames \in Seq([prog : Progs \cup {<<>>}, left : Seq(Leftover)]) /\ Len(frames) = 2
  /\ client \in [pc : {"off", "start", "data", "run", "lost"}, i : 0 .. buflen - 1]
  /\ client.pc = "start" => client.i < Len(start_seq)
  /\ buf \in [0 .. buflen - 1 -> Byte]

Holds(s, t) == \E k \in 1 .. Len(s) : IsPrefix(t, SubSeq(s, k, Len(s)))

(* What the stop test takes for a stop when the byte before was one already *)
(* in the last program: ":EN:".                                             *)
FalseStop == Append(Front(stop_seq), stop_seq[1])

(* What a client reads behind f's start sequence: f, and the next start.    *)
Rest(f) == f.prog \o stop_seq \o f.left \o start_seq

(* The marks are where they should be: no start behind the first, and in    *)
(* the program nothing that the test takes for a stop.  What is left behind *)
(* the program may hold any stop.                                           *)
Marked(f) ==
  /\ ~ Holds(f.prog \o stop_seq \o f.left, start_seq)
  /\ ~ Holds(f.prog \o stop_seq, FalseStop)

Whole(f) == f.prog # <<>> /\ Begins(f.prog)

(* The client only jumps to a whole program, whenever it was switched on    *)
(* and however long its jobs took while frames went by, if the frames are   *)
(* marked.  The stop sequence is not what ends a program (sw-uart.c:174):   *)
(* the client goes on until its buffer is full, when the next frame begins, *)
(* for which the user must run another program; or, earlier, until it reads *)
(* a false stop in the leftovers of the server's stack.                     *)
RunsWhole ==
  [][client.pc # "run" /\ client'.pc = "run" /\ Marked(frames[1]) /\ Marked(frames[2])
       => \/ Whole(frames[1])' /\ Len(out') + Len(start_seq) >= FrameLen
          \/ Whole(frames[2])' /\ Holds(Rest(frames[2]), FalseStop)]_vars

(* The last bytes of a frame are the first of a start sequence: the client  *)
(* takes them for one, and misses the start that follows.                   *)
EndsOpen(f) == \E n \in 1 .. Len(start_seq) - 1 : IsSuffix(SubSeq(start_seq, 1, n), Frame(f))

(* As long as the user runs programs, a client that stays on keeps running  *)
(* some, if from some time on no frame ends like the beginning of a start   *)
(* sequence: frames are missed, but it finds the start of a later one,      *)
(* whatever it has read before and whatever the leftovers are.              *)
KeepsRunning ==
  /\ []<>(out # <<>>)
  /\ <>[] ~ EndsOpen(frames[2])
  /\ <>[](client.pc \notin {"off", "lost"})
  => []<>(client.pc = "run")
==============================================================================
