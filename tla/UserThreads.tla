----------------------------- MODULE UserThreads -----------------------------
(***************************************************************************)
(* The preemptive scheduler of user-level threads                          *)
(* (project/preemptive-threads/userThreads/threads/rpi-thread.c): a        *)
(* multi-level feedback queue.  Queue 0 is runq; a thread the timer        *)
(* preempts moves one queue down, one that yields goes back to queue 0,    *)
(* one that sleeps comes back to the queue it ran from, and every          *)
(* resurfDelay everything is moved up to queue 0.                          *)
(*                                                                         *)
(* The scheduler runs with interrupts off, so one pass of its loop is      *)
(* disturbed by nothing but time; a thread runs in user mode and can be    *)
(* preempted anywhere.  Time advances in ticks of one timer period.  The   *)
(* code subtracts 32-bit time stamps, which is exact as long as a time is  *)
(* looked at once per 2^32 microseconds; the model counts what is left of  *)
(* a delay, and the time since the last resurf up to the first value that  *)
(* matters.                                                                *)
(***************************************************************************)
EXTENDS Integers, Sequences, FiniteSets

CONSTANTS
  Threads,      (* the threads the program forks                            *)
  NoThread,     (* cur_thread while the scheduler itself runs               *)
  NUM_QUEUES,
  Delays,       (* the arguments of sleep, in ticks                         *)
  resurfDelay,  (* in ticks                                                 *)
  SliceTicks    (* bound: ticks from one dispatch to the next, unless the   *)
                (* scheduler blocks meanwhile                               *)

ASSUME UserThreadsAssumption ==
  /\ NoThread \notin Threads
  /\ NUM_QUEUES \in Nat \ {0}
  /\ Delays \subseteq Nat
  /\ resurfDelay \in Nat
  /\ SliceTicks \in Nat

VARIABLES
  queues,       (* the run queues, front first                              *)
  cur_thread,
  cur_queue,    (* the queue the running thread was taken from              *)
  sleepers,     (* the list from sleep_head on                              *)
  sleeping,     (* the counter the scheduler decides on                     *)
  pc,           (* where the processor is: "main" before the start, then    *)
                (* "wake", "pick", "block" in threadSched, "run", "end"     *)
  i,            (* the loop variable of threadSched                         *)
  sinceResurf,  (* now - resurfTime, up to resurfDelay + 1                  *)
  slice,        (* ticks since the last dispatch                            *)
  live          (* history: threads forked that have not exited             *)

vars == <<queues, cur_thread, cur_queue, sleepers, sleeping, pc, i,
          sinceResurf, slice, live>>

Qs == 0 .. NUM_QUEUES - 1

runq == queues[0]

------------------------------------------------------------------------------
(* What the scheduler calls.                                                *)

Expired(s) == s.left = 0

(* The elements of a finite set, x behind those that are Before it.         *)
InOrder(S, Before(_, _)) ==
  [n \in 1 .. Cardinality(S) |->
     CHOOSE x \in S : Cardinality({y \in S : Before(y, x)}) = n]

Earlier(m, n) == m <= n
Later(m, n) == m >= n

Awoke == {n \in DOMAIN sleepers : Expired(sleepers[n])}

AwokeOn(k) == {n \in Awoke : sleepers[n].queue = k}

StillAsleep == DOMAIN sleepers \ Awoke

(* The threads that come to the front of queue k, the last to wake first.   *)
Pushed(k) ==
  LET last == InOrder(AwokeOn(k), Later)
  IN [n \in DOMAIN last |-> sleepers[last[n]].tcb]

(* The rest of the list.                                                    *)
Kept ==
  LET rest == InOrder(StillAsleep, Earlier)
  IN [n \in DOMAIN rest |-> sleepers[rest[n]]]

(* wake: every sleeper whose delay is over, in the order of the list, is    *)
(* pushed on the front of its queue.                                        *)
wake ==
  /\ queues' = [k \in Qs |-> Pushed(k) \o queues[k]]
  /\ sleepers' = Kept
  /\ sleeping' = sleeping - Cardinality(Awoke)

(* Every place in the queues below queue 0.                                 *)
Lower == UNION {{k} \X DOMAIN queues[k] : k \in Qs \ {0}}

Upward(x, y) == x[1] > y[1] \/ (x[1] = y[1] /\ x[2] >= y[2])

(* Mutant: the last queue is left out. *)
Resurfaced_NotLast ==
  LET There == {x \in Lower : x[1] # NUM_QUEUES - 1}
      top   == InOrder(There, Upward)
  IN [k \in Qs |-> IF k = 0 THEN [n \in DOMAIN top |-> queues[top[n][1]][top[n][2]]] \o queues[0]
                   ELSE IF k = NUM_QUEUES - 1 THEN queues[k] ELSE <<>>]

(* resurf: queues 1, 2, ... are emptied from the front on to the front of   *)
(* queue 0.                                                                 *)
Resurfaced ==
  LET top == InOrder(Lower, Upward)
  IN [k \in Qs |-> IF k = 0 THEN [n \in DOMAIN top |-> queues[top[n][1]][top[n][2]]] \o queues[0]
                   ELSE <<>>]

ResurfDue == sinceResurf > resurfDelay

------------------------------------------------------------------------------
(* Before the threads start.                                                *)

rpi_fork(t) ==
  /\ pc = "main"
  /\ t \notin live
  /\ queues' = [queues EXCEPT ![0] = Append(@, t)]
  /\ live' = live \cup {t}
  /\ UNCHANGED <<cur_thread, cur_queue, sleepers, sleeping, pc, i, sinceResurf, slice>>

(* With an empty runq it returns to the caller and changes nothing.         *)
rpi_thread_start ==
  /\ pc = "main"
  /\ runq # <<>>
  /\ pc' = "wake"
  /\ i' = 0
  /\ sinceResurf' = 0
  /\ UNCHANGED <<queues, cur_thread, cur_queue, sleepers, sleeping, slice, live>>

------------------------------------------------------------------------------
(* threadSched.                                                             *)

(* The head of the for loop.                                                *)
SlotWake ==
  /\ pc = "wake"
  /\ i < NUM_QUEUES
  /\ wake
  /\ pc' = "pick"
  /\ UNCHANGED <<cur_thread, cur_queue, i, sinceResurf, slice, live>>

(* The rest of its body, up to the context switch.                          *)
SlotPick ==
  LET qs == IF ResurfDue THEN Resurfaced ELSE queues
  IN /\ pc = "pick"
     /\ cur_queue' = i
     /\ sinceResurf' = IF ResurfDue THEN 0 ELSE sinceResurf
     /\ \/ /\ qs[i] = <<>>
           /\ queues' = qs
           /\ i' = i + 1
           /\ pc' = "wake"
           /\ UNCHANGED <<cur_thread, slice>>
        \/ /\ qs[i] # <<>>
           /\ queues' = [qs EXCEPT ![i] = Tail(@)]
           /\ cur_thread' = Head(qs[i])
           /\ pc' = "run"
           /\ slice' = 0
           /\ UNCHANGED i
     /\ UNCHANGED <<sleepers, sleeping, live>>

(* Mutant: a thread that sleeps is forgotten. *)
PassDone_NoSleepers ==
  /\ pc = "wake"
  /\ i = NUM_QUEUES
  /\ pc' = IF runq = <<>> THEN "end" ELSE "block"
  /\ UNCHANGED <<queues, cur_thread, cur_queue, sleepers, sleeping, i,
                 sinceResurf, slice, live>>

(* Mutant: the loop has no end. *)
PassDone_NoEnd ==
  /\ pc = "wake"
  /\ i = NUM_QUEUES
  /\ pc' = "block"
  /\ UNCHANGED <<queues, cur_thread, cur_queue, sleepers, sleeping, i,
                 sinceResurf, slice, live>>

(* A pass over all the queues that found nothing to run.                    *)
PassDone ==
  /\ pc = "wake"
  /\ i = NUM_QUEUES
  /\ pc' = IF sleeping = 0 /\ runq = <<>> THEN "end" ELSE "block"
  /\ UNCHANGED <<queues, cur_thread, cur_queue, sleepers, sleeping, i,
                 sinceResurf, slice, live>>

(* Mutant: while(Q_empty(&runq)). *)
Block_NoWake ==
  /\ pc = "block"
  /\ runq # <<>>
  /\ pc' = "wake"
  /\ i' = 0
  /\ UNCHANGED <<queues, cur_thread, cur_queue, sleepers, sleeping, sinceResurf,
                 slice, live>>

(* One evaluation of the condition of while(!wake() && Q_empty(&runq)).     *)
Block ==
  /\ pc = "block"
  /\ wake
  /\ IF Awoke = {} /\ runq = <<>>
       THEN UNCHANGED <<pc, i>>
       ELSE pc' = "wake" /\ i' = 0
  /\ UNCHANGED <<cur_thread, cur_queue, sinceResurf, slice, live>>

------------------------------------------------------------------------------
(* The running thread.  Each of these enters the scheduler, which goes on   *)
(* behind its context switch: i = -1, and the loop's i++.                   *)

ToScheduler ==
  /\ pc = "run"
  /\ cur_thread' = NoThread
  /\ pc' = "wake"
  /\ i' = 0
  /\ UNCHANGED <<cur_queue, sinceResurf, slice>>

(* Mutant: Q_push for Q_append. *)
save_context_yield_Push ==
  /\ ToScheduler
  /\ queues' = [queues EXCEPT ![0] = <<cur_thread>> \o @]
  /\ UNCHANGED <<sleepers, sleeping, live>>

(* The software interrupt of rpi_yield.                                     *)
save_context_yield ==
  /\ ToScheduler
  /\ queues' = [queues EXCEPT ![0] = Append(@, cur_thread)]
  /\ UNCHANGED <<sleepers, sleeping, live>>

(* Mutant: no last queue. *)
Demoted_Unbounded(k) == k + 1

Demoted(k) == IF k = NUM_QUEUES - 1 THEN k ELSE k + 1

(* The timer interrupt.                                                     *)
save_context ==
  /\ ToScheduler
  /\ queues' = [queues EXCEPT ![Demoted(cur_queue)] = Append(@, cur_thread)]
  /\ UNCHANGED <<sleepers, sleeping, live>>

(* Mutant: the sleeper is not counted. *)
rpi_sleep_Uncounted(d) ==
  /\ ToScheduler
  /\ sleepers' = Append(sleepers, [tcb |-> cur_thread, queue |-> cur_queue, left |-> d])
  /\ UNCHANGED <<queues, sleeping, live>>

rpi_sleep(d) ==
  /\ ToScheduler
  /\ sleepers' = Append(sleepers, [tcb |-> cur_thread, queue |-> cur_queue, left |-> d])
  /\ sleeping' = sleeping + 1
  /\ UNCHANGED <<queues, live>>

rpi_exit ==
  /\ ToScheduler
  /\ live' = live \ {cur_thread}
  /\ UNCHANGED <<queues, sleepers, sleeping>>

------------------------------------------------------------------------------
Tick ==
  /\ pc \notin {"main", "end"}
  /\ pc = "block" \/ slice < SliceTicks
  /\ slice' = IF pc = "block" THEN slice ELSE slice + 1
  /\ sinceResurf' = IF ResurfDue THEN sinceResurf ELSE sinceResurf + 1
  /\ sleepers' = [n \in DOMAIN sleepers |->
                    [sleepers[n] EXCEPT !.left = IF @ = 0 THEN 0 ELSE @ - 1]]
  /\ UNCHANGED <<queues, cur_thread, cur_queue, sleeping, pc, i, live>>

Init ==
  /\ queues = [k \in Qs |-> <<>>]
  /\ cur_thread = NoThread
  /\ cur_queue = 0
  /\ sleepers = <<>>
  /\ sleeping = 0
  /\ pc = "main"
  /\ i = 0
  /\ sinceResurf = 0
  /\ slice = 0
  /\ live = {}

threadSched == SlotWake \/ SlotPick \/ PassDone \/ Block

Next ==
  \/ \E t \in Threads : rpi_fork(t)
  \/ rpi_thread_start
  \/ threadSched
  \/ save_context_yield
  \/ save_context
  \/ \E d \in Delays : rpi_sleep(d)
  \/ rpi_exit
  \/ Tick

Spec == Init /\ [][Next]_vars

(* The scheduler runs, time passes, and the timer interrupts a thread that  *)
(* does not give the processor up by itself.                                *)
Fairness == WF_vars(threadSched) /\ WF_vars(Tick) /\ WF_vars(save_context)

FairSpec == Spec /\ Fairness

------------------------------------------------------------------------------
SleeperType == [tcb : Threads, queue : Qs, left : Nat]

(* The type invariant.                                                      *)
TypeOK ==
  /\ queues \in [Qs -> Seq(Threads)]
  /\ cur_thread \in Threads \cup {NoThread}
  /\ cur_thread # NoThread <=> pc = "run"
  /\ cur_queue \in Qs
  /\ sleepers \in Seq(SleeperType)
  /\ sleeping \in Nat
  /\ pc \in {"main", "wake", "pick", "block", "run", "end"}
  /\ i \in 0 .. NUM_QUEUES
  /\ sinceResurf \in 0 .. resurfDelay + 1
  /\ slice \in 0 .. SliceTicks
  /\ live \subseteq Threads

Queued(t, k) == \E n \in DOMAIN queues[k] : queues[k][n] = t

Asleep(t) == \E n \in DOMAIN sleepers : sleepers[n].tcb = t

(* Where a thread can be, and which is there.                               *)
Places ==
  (UNION {{<<"queue", k, n>> : n \in DOMAIN queues[k]} : k \in Qs})
  \cup {<<"sleepers", 0, n>> : n \in DOMAIN sleepers}
  \cup (IF cur_thread = NoThread THEN {} ELSE {<<"processor", 0, 0>>})

ThreadAt(p) ==
  CASE p[1] = "queue"    -> queues[p[2]][p[3]]
    [] p[1] = "sleepers" -> sleepers[p[3]].tcb
    [] OTHER             -> cur_thread

(* No thread is lost or scheduled twice: whatever mixture of yields,        *)
(* preemptions, sleeps, wake-ups and resurfs, the threads that have not     *)
(* exited are in one place each, and the others are nowhere.                *)
OnePlace ==
  /\ \A p, q \in Places : ThreadAt(p) = ThreadAt(q) => p = q
  /\ live = {ThreadAt(p) : p \in Places}

(* The machine is never rebooted (the end of threadSched) while a thread    *)
(* sleeps or waits on runq: the counter it decides on is exact.             *)
NoSleeperAbandoned ==
  /\ sleeping = Len(sleepers)
  /\ pc = "end" => sleepers = <<>> /\ runq = <<>>

(* The scheduler never blocks for good: when it spins, either a sleeper is  *)
(* going to end the loop or a thread on runq already does.                  *)
NeverStuck == pc = "block" => sleepers # <<>> \/ runq # <<>>

(* A sleeper always leaves the list: neither the scan, which a thread on a  *)
(* higher queue restarts for ever, nor the spin loop misses its time.       *)
SleepersWake == \A t \in Threads : Asleep(t) ~> ~ Asleep(t)

(* A demoted thread is not starved by those on higher queues: it runs or    *)
(* resurf brings it to runq, unless the machine is rebooted first (see      *)
(* TrulyDone).                                                              *)
DemotedResurfaces ==
  \A t \in Threads :
    (\E k \in Qs \ {0} : Queued(t, k)) ~> (Queued(t, 0) \/ cur_thread = t \/ pc = "end")

(* Only sleepers, which come back to the front of their queue, can keep a   *)
(* thread from running: as long as nobody sleeps each live thread gets the  *)
(* processor again and again, whatever the others do (but see TrulyDone).   *)
EveryThreadRuns ==
  \A t \in Threads :
    (t \in live /\ pc # "main")
      ~> (cur_thread = t \/ pc = "end" \/ \E u \in Threads : Asleep(u))

(* rpi-thread.c:273, on the exit from the loop: "if nothing is blocking     *)
(* then we are truly done".  When the scheduler stops no live thread is     *)
(* left.                                                                    *)
TrulyDone == pc = "end" => live = {}
==============================================================================
