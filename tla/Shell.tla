-------------------------------- MODULE Shell --------------------------------
(***************************************************************************)
(* The shell and its Pi: simple_boot loads the server on the Pi, the two   *)
(* synchronize, and the user's commands follow (project/shell/shell/       *)
(* shell.c, project/shell/server/server.c).  The states of host and pi go  *)
(* on where BootLoader stops: the host through "sync", "ack" and "prompt", *)
(* the Pi from "ready", and a reset Pi is in its boot loader again while   *)
(* the host does not know.                                                 *)
(***************************************************************************)
EXTENDS BootLoader, SequencesExt

CONSTANTS
  Jobs,         (* the programs the user runs on clients, named like images *)
  Clients,      (* the numbers of clients a command names                   *)
  MaxCommands   (* bound: commands of the user                              *)

ASSUME ShellAssumption ==
  /\ Jobs \subseteq Images
  /\ Clients \subseteq Nat \ {0} /\ \A n \in Clients : n < Width
  /\ MaxCommands \in Nat

VARIABLES
  cmd,          (* [job, clients, count]: the user's last command           *)
  relayed       (* history: what the server last sent to the clients        *)

shellVars == <<vars, cmd, relayed>>

NoJob == 0

Keep == UNCHANGED <<cmd, relayed>>

------------------------------------------------------------------------------
(* The host.                                                                *)

(* A read of the word op, and what follows.                                 *)
HostReads(at, op, next) ==
  /\ HostAt(at) /\ Starts(op)
  /\ HostTo(next)
  /\ toHost' = Drop(toHost, 4)
  /\ UNCHANGED <<pi, faults>> /\ Keep

(* synchronize.                                                             *)
SyncDiscard ==
  /\ HostAt("sync") /\ ~ Starts("PI_READY")
  /\ Len(toHost) >= 5
  /\ toHost' = Drop(toHost, 5)
  /\ UNCHANGED <<host, pi, toPi, faults>> /\ Keep

SyncReady == HostReads("sync", "PI_READY", "ack") /\ toPi' = Append(toPi, Op("UNIX_READY"))

(* Mutant: nothing is drained. *)
SyncDrain_Not == HostReads("ack", "PI_READY", "dead") /\ UNCHANGED toPi

SyncDrain == HostReads("ack", "PI_READY", "ack") /\ UNCHANGED toPi

SyncAck == HostReads("ack", "ACK", "prompt") /\ UNCHANGED toPi

(* exec_command.                                                            *)
Command ==
  /\ HostAt("prompt")
  /\ cmd.count < MaxCommands
  /\ UNCHANGED <<pi, toHost, faults, relayed>>

ExitCommand ==
  /\ Command
  /\ HostTo("exit")
  /\ cmd' = [cmd EXCEPT !.job = NoJob, !.count = @ + 1]
  /\ toPi' = Append(toPi, Op("EXIT"))

(* list and update send their word and wait for nothing.                    *)
OtherCommand ==
  /\ Command
  /\ UNCHANGED host
  /\ cmd' = [cmd EXCEPT !.job = NoJob, !.count = @ + 1]
  /\ \E op \in {"LIST", "UPDATE"} : toPi' = Append(toPi, Op(op))

(* send_prog, up to its first wait.                                         *)
RunCommand(job, n) ==
  /\ Command
  /\ HostTo("echo")
  /\ cmd' = [job |-> job, clients |-> n, count |-> cmd.count + 1]
  /\ toPi' = toPi \o <<Op("RUN"), Item("nbytes", Size[job]), Item("crc", job), Item("count", n)>>
                  \o [k \in 1 .. n |-> Item("id", k)]

EchoOk ==
  /\ Starts("count") /\ toHost[1].v = cmd.clients
  /\ toHost[5] = Word("crc", cmd.job)[1]

(* Mutant: one word is not waited for. *)
SendJob_NoGot ==
  /\ HostAt("echo") /\ Len(toHost) >= 8 /\ EchoOk
  /\ HostTo("done")
  /\ toHost' = Drop(toHost, 8)
  /\ toPi' = toPi \o <<Op("SEND_CODE")>> \o CodeItems(cmd.job)
  /\ UNCHANGED <<pi, faults>> /\ Keep

SendJob ==
  /\ HostAt("echo") /\ Len(toHost) >= 8 /\ EchoOk
  /\ HostTo("got")
  /\ toHost' = Drop(toHost, 8)
  /\ toPi' = toPi \o <<Op("SEND_CODE")>> \o CodeItems(cmd.job)
  /\ UNCHANGED <<pi, faults>> /\ Keep

CodeGot == HostReads("got", "CODE_GOT", "done") /\ UNCHANGED toPi

(* Anything is taken for the end of the command, DONE or not.               *)
JobDone ==
  /\ HostAt("done") /\ Len(toHost) >= 4
  /\ HostTo("prompt")
  /\ toHost' = Drop(toHost, 4)
  /\ UNCHANGED <<pi, toPi, faults>> /\ Keep

(* ck_eq32 and panic.                                                       *)
ShellMismatch ==
  /\ \/ HostAt("ack") /\ Len(toHost) >= 4 /\ ~ Starts("PI_READY") /\ ~ Starts("ACK")
     \/ HostAt("echo") /\ Len(toHost) >= 8 /\ ~ EchoOk
     \/ HostAt("got") /\ Len(toHost) >= 4 /\ ~ Starts("CODE_GOT")
  /\ Die /\ Keep

ShellNeeds ==
  CASE HostAt("sync") /\ ~ Starts("PI_READY") -> 5
    [] HostAt("echo")                        -> 8
    [] OTHER                                 -> 4

ShellTimeout(piWaits) ==
  /\ host.pc \in {"sync", "ack", "echo", "got", "done"}
  /\ Len(toHost) < ShellNeeds
  /\ piWaits
  /\ Die /\ Keep

------------------------------------------------------------------------------
(* The server on the Pi.                                                    *)

(* wait_for_op of synchronize.                                              *)
wait_for_op ==
  /\ PiAt("ready") \/ (PiAt("ready_wait") /\ Len(toHost) < 4 * MaxRepeat)
  /\ PiSends(Word("PI_READY", 0), [pi EXCEPT !.pc = "ready_wait"])
  /\ UNCHANGED toPi /\ Keep

HasOp ==
  /\ PiAt("ready_wait") /\ toPi # <<>>
  /\ pi' = [pi EXCEPT !.pc = "unix"]
  /\ UNCHANGED <<host, toHost, toPi, faults>> /\ Keep

(* The server reads op at state at, answers s and goes on in state next.    *)
PiReads(at, op, s, next) ==
  /\ PiAt(at) /\ Next32(op)
  /\ toPi' = Tail(toPi)
  /\ PiSends(s, next) /\ Keep

UnixReady == PiReads("unix", "UNIX_READY", Word("ACK", 0), [pi EXCEPT !.pc = "main"])

(* clean_reboot prints eight bytes.                                         *)
Exit == PiReads("main", "EXIT", Junk(8), Rebooting)

Run == PiReads("main", "RUN", <<>>, [pi EXCEPT !.pc = "run"])

(* Every other word.  The opcodes of the shell are 0 to 3, and a damaged    *)
(* word that comes to the main loop may be one of them; here it is none.    *)
(* What is stated of damaged words holds of such a one as well: the server  *)
(* may leave, or a job may go wrong.                                        *)
IgnoreOp ==
  /\ PiAt("main") /\ Other32("EXIT") /\ Other32("RUN")
  /\ toPi' = Tail(toPi)
  /\ UNCHANGED <<host, pi, toHost, faults>> /\ Keep

ArgsLen == IF Len(toPi) < 3 THEN 3 ELSE 3 + toPi[3].v

(* run_prog: the arguments, which are sent back.                            *)
RunArgs ==
  /\ PiAt("run") /\ Len(toPi) >= ArgsLen
  /\ toPi' = Drop(toPi, ArgsLen)
  /\ PiSends(Word("count", toPi[3].v) \o Word("crc", toPi[2].v),
             [pi EXCEPT !.pc = "send", !.nbytes = toPi[1].v, !.crc = toPi[2].v, !.mem = <<>>])
  /\ Keep

SendCodeOp == PiReads("send", "SEND_CODE", <<>>, [pi EXCEPT !.pc = "load"])

ServerWrongOp ==
  /\ \/ PiAt("unix") /\ Other32("UNIX_READY")
     \/ PiAt("send") /\ Other32("SEND_CODE")
  /\ toPi' = Tail(toPi)
  /\ boot_err /\ Keep

LoadJob == PiAt("load") /\ CopyWords /\ Keep

(* The two asserts on the header pass on a job, and may pass on anything.   *)
JobLoaded ==
  /\ PiAt("load") /\ Len(pi.mem) = pi.nbytes
  /\ \/ PiSends(Word("CODE_GOT", 0), [pi EXCEPT !.pc = "relay"])
     \/ crc32(pi.mem) \notin Jobs /\ PiSends(Junk(8), Rebooting)
  /\ UNCHANGED toPi /\ Keep

(* Mutant: DONE comes first. *)
Relay_DoneFirst ==
  /\ PiAt("relay")
  /\ PiSends(Word("DONE", 0), [pi EXCEPT !.pc = "main"])
  /\ UNCHANGED <<toPi, cmd, relayed>>

(* The frame goes down the bit-banged line, then DONE to the host.          *)
Relay ==
  /\ PiAt("relay")
  /\ relayed' = pi.mem
  /\ PiSends(Word("DONE", 0), [pi EXCEPT !.pc = "main"])
  /\ UNCHANGED <<toPi, cmd>>

ServerWaits ==
  \/ pi.pc \in {"unix", "main", "send"} /\ toPi = <<>>
  \/ PiAt("run") /\ Len(toPi) < ArgsLen
  \/ PiAt("load") /\ Len(pi.mem) < pi.nbytes /\ toPi = <<>>

------------------------------------------------------------------------------
ShellInit == Init /\ cmd = [job |-> NoJob, clients |-> 0, count |-> 0] /\ relayed = <<>>

PiWaits == BootWaits \/ ServerWaits

HostStep ==
  \/ simple_boot /\ Keep
  \/ BootTimeout(PiWaits) /\ Keep
  \/ SyncDiscard \/ SyncReady \/ SyncDrain \/ SyncAck
  \/ SendJob \/ CodeGot \/ JobDone \/ ShellMismatch \/ ShellTimeout(PiWaits)

UserStep == ExitCommand \/ OtherCommand \/ \E job \in Jobs, n \in Clients : RunCommand(job, n)

(* What the Pi does without a timer running out.                            *)
PiStep ==
  \/ (HasData \/ ProgInfo \/ PutCode \/ WrongOp \/ Copy \/ CopyDone \/ Up) /\ Keep
  \/ HasOp \/ UnixReady \/ Exit \/ Run \/ IgnoreOp \/ RunArgs \/ SendCodeOp
  \/ ServerWrongOp \/ LoadJob \/ JobLoaded \/ Relay

PiRepeats == (wait_for_data /\ Keep) \/ wait_for_op

ShellNext ==
  \/ HostStep
  \/ UserStep
  \/ PiStep
  \/ PiRepeats
  \/ (Reset \/ Restart \/ Flip) /\ Keep

ShellSpec == ShellInit /\ [][ShellNext]_shellVars

(* Both programs run, and the Pi's timer runs out.                          *)
ShellFairSpec ==
  /\ ShellSpec
  /\ WF_shellVars(HostStep) /\ WF_shellVars(PiStep) /\ WF_shellVars(PiRepeats)

------------------------------------------------------------------------------
HostPcs == {"get_info", "drain", "success", "sync", "ack", "prompt", "echo", "got", "done",
            "dead", "exit"}
PiPcs == {"down", "ask", "wait", "info", "code", "copy", "ready", "ready_wait", "unix",
          "main", "run", "send", "load", "relay"}
InLoader == {"down", "ask", "wait", "info", "code", "copy"}

(* The type invariant.                                                      *)
ShellTypeOK ==
  /\ host \in [pc : HostPcs, image : Images]
  /\ pi \in [pc : PiPcs, nbytes : 0 .. Width - 1, crc : 0 .. Width - 1,
             mem : Seq(0 .. Width - 1), image : Seq(Images)]
  /\ pi.pc \in InLoader <=> pi.image = <<>>
  /\ \A b \in ToSet(toHost) : b.i \in 0 .. 4 /\ b.v \in 0 .. Width - 1
  /\ \A w \in ToSet(toPi) : w.v \in 0 .. Width - 1
  /\ faults \in [resets : 0 .. MaxResets, restarts : 0 .. MaxRestarts, flips : 0 .. MaxFlips]
  /\ cmd \in [job : Jobs \cup {NoJob}, clients : Clients \cup {0}, count : 0 .. MaxCommands]

Booted == {"sync", "ack", "prompt", "echo", "got", "done"}

(* Behind simple_boot nothing but a fault ever makes the shell die: what    *)
(* the Pi repeats is drained, every reply is the one to its own request,    *)
(* and no command leaves anything on the line that the next would read.     *)
(* Not so of three restarts and more: what killed hosts have sent to the    *)
(* boot loader may stand before UNIX_READY, and make the server reboot.     *)
DiesOfFaultsOnly ==
  [][host.pc \in Booted /\ host'.pc = "dead" => faults.resets + faults.flips > 0]_shellVars

(* At the prompt of an undisturbed shell nothing is on its way to the host. *)
QuietAtPrompt ==
  host.pc = "prompt" /\ faults.resets + faults.flips = 0 => toHost = <<>>

(* When the host reads DONE the server has sent the job the user asked for  *)
(* to the clients, although between the two the host may have been          *)
(* restarted and the Pi reset.                                              *)
JobAnswered ==
  [][host.pc = "done" /\ host'.pc = "prompt" /\ Starts("DONE") /\ faults.flips = 0
       => relayed = Code(cmd.job)]_shellVars

(* Host and Pi each wait for what the other will not send: the host for a   *)
(* request of the boot loader while the server repeats its own, or the      *)
(* other way round after a reset; or the host drains request after request, *)
(* its own answer lost in a reset.                                          *)
Split ==
  \/ HostAt("get_info") /\ pi.pc = "ready_wait"
  \/ HostAt("drain") /\ pi.pc = "wait"
  \/ HostAt("sync") /\ pi.pc = "wait"

(* The host comes to a prompt or an end again and again, through an answer  *)
(* or a timeout, unless the two are split for good; how a reset or restart  *)
(* leaves the line does not matter.                                         *)
NoWaitForEver == []<>(host.pc \in {"prompt", "dead", "exit"}) \/ <>[]Split
==============================================================================
