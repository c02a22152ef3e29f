# A verification project for Distributed-Pis

Distributed-Pis connects Raspberry Pis over WiFi: each Pi talks to an ESP8266
over a bit-banged serial line, the ESPs relay packets over TCP, and on top of
that run a boot loader, a shell that sends programs to other Pis, a FAT32 reader
and a preemptive thread package. These modules model its core in TLA+, check it
with TLC and prove part of it with TLAPS. Paths are relative to the repository's
`src/`.

## 1. The system

| Component | Source | State | Operations | What makes it hard |
|---|---|---|---|---|
| Pi file table | `project/sw-uart/fds.c`, `fds.h` | per address: message being assembled, queue of messages, status byte | interrupt handler `recieveMsgHandler` (packet in), `add_msg`; the program's `get_fd`, `get_msg`, `get_status` | lost packets, peers interleaving, the handler running between a program's steps, overlapping memory |
| Pi driver | `project/sw-uart/pi-esp.c`, `pi-esp.h` | `localFD`, `serverFD` | `send_cmd`, `client_init`, `server_init`, `connect_to_wifi`, `get_connected`, `sendProgram`, `recProgram` | polling of copies, stale statuses, no acknowledgement |
| Software UART, GPIO interrupts | `sw-uart.c`, `gpio-int.c`, `interrupts-*` | pins, event register | byte send and receive with timeout | framing after a lost byte, an edge cleared before it is handled |
| ESP firmware | `arduino-wifi/client_esp_new` (`SERVER` 0 or 1) | the current connection, the list of clients, serial buffer, pending command | parse, run a command, answer, relay, accept | one "current client" for everything, drained serial data, endless connect loop |
| Preemptive threads | `project/preemptive-threads/userThreads` | five run queues, list of sleepers, current thread | fork, yield, sleep, exit, timer preemption, wake, resurf | priorities and starvation, wake-ups racing the scan |
| Older thread packages | `preemptive-threads/threads`, `libpi/src/rpi-thread.c` | one run queue | fork, yield, exit, preempt | as above, simpler |
| Boot loader | `project/shell/shell/simple-boot.c`, `shell/server/get-code.c` | position in the protocol on both sides | GET/PUT_PROG_INFO, GET/PUT_CODE, BOOT_SUCCESS | one side repeats its request on a timeout; resets, restarts, garbage |
| Shell and server | `project/shell` | position in the dialogue, the program buffer | synchronize, run, list, update, exit | leftovers of one exchange read in the next; both ends waiting |
| Program line | `server.c`, `client.c` of `project/shell`, `server-client-sw_uart/lib/sw-uart.c` | the client's buffer and index | a frame out, `sw_uart_gets` | an unbuffered line: the client may listen from any byte on |
| FAT32 reader | `server-client-sw_uart/lib/fat32*.c`, `mbr*.c` | the FAT in memory, buffers on the heap | mount, list, stat, read | cluster chains longer than their buffers |
| Queues of libpi | `libpi/libc/Q.h`, `circular.h` | linked queue, ring | push, append, pop | an interrupt between the steps of an operation |
| libpi, libunix, vendored code | `libpi`, `libunix`, `external-code`, `other-stuff` | registers, host I/O | | not modelled |

How they interact. An interrupt on the receive pin runs `recieveMsgHandler`,
which reads a 32-byte packet and changes the file table; the program only ever
looks at copies of table entries; `send_cmd` writes packets to the ESP, which
obeys the ones meant for it (`EspControl`) and relays the others over TCP to the
server's ESP and so to that Pi's handler (`EspRelay`, `FileTable`). The host's
`simple_boot` loads the server program on the Pi, on which the same host
program goes on as the shell (`Shell` extends `BootLoader`); the shell's server
sends each job as a frame down a second, bit-banged line to the client Pis
(`ProgramLine`). The older server takes the program from a card (`Fat32`). The
threads use the timer interrupt and have no connection to the rest.

What should be true of each:

- File table: no copy outside a buffer; pieces of different peers or messages
  never mixed; messages in order and at most once; a bounded price for a loss;
  the program's copy stays usable while the handler goes on.
- Driver and ESP: initialisation ends, with the right addresses; a connection
  that is lost shows; what is relayed arrives whole, once, in order.
- Threads: no thread lost or run twice, sleepers wake, nobody is starved, the
  machine is rebooted only when all is done.
- Boot loader, shell: repeats are harmless, both ends agree on the program, no
  wait is for ever, the loader does not overwrite itself.
- Program line: only whole programs are run.
- FAT32: what is read is what is on the card.

`PROJECT.json` lists the hazards at their lines, with the properties for them.

## 2. The modules

| Module | What it is |
|---|---|
| `FileTable` | the table, the handler on whole packets, the sending peers, the program |
| `Mailbox` | the abstract promise: boxes of whole messages, in order, at most once |
| `FileTableMailbox` | the refinement mapping from `FileTable` to `Mailbox` |
| `FileTableMem` | where the messages lie in memory; a program's copy taken load by load |
| `EspControl` | a Pi and its own ESP during initialisation |
| `EspRelay` | messages from Pi to Pi over the ESPs |
| `UserThreads` | the scheduler of user threads |
| `BootLoader` | `simple_boot` and `get_code`, with faults |
| `Shell` | the shell and its server, behind the boot loader |
| `ProgramLine` | programs on the bit-banged line to a client |
| `Fat32` | the FAT32 reader and the server's `read_function` |
| `FileTable_proofs`, `FileTableMem_proofs`, `EspControl_proofs`, `EspRelay_proofs`, `ProgramLine_proofs`, `Fat32_proofs`, `Shell_proofs`, `UserThreads_proofs` | theorems |
| `MC...` | small instances for TLC |

In each module a definition marked `Mutant:` is a variant of the one it
precedes, with a plausible bug; none is used by the specification. Each property
of a passing run is violated when one of them takes the original's place.

### FileTable and the code

`fileTable[f]` has the fields of `struct fd`; the queue is a sequence, newest
first, because `add_msg` uses `Q_push`. Each early return of the handler is an
operator: `RecieveReply` (From and To both 0xf), `RecieveAck`, `SeenCmdAlready`
(a command while one is announced: both are given up), `AcceptCmd`, `DropData`
(data without a command), `StoreData` and `CompleteData` (whose `add_msg` is
part of the same action). The handler runs with interrupts off, so it is one
step. `fds` is the local copy a program gets from `get_fd`.

The peers are `send_cmd` on other Pis: a command packet, then its data packets
in order, without acknowledgement. Any packet can be lost (`Lose`).
A payload is the record of who sent it, in which message, which piece of how
many it is. Left out: the bytes, the checksum field (nobody reads it), the
command code of ordinary messages (nobody reads it).

Taken for granted: a packet is received whole or not at all (the handler drops
a packet of which a byte times out; a byte lost in the middle of back-to-back
packets would shift the framing), and the messages of entries in use lie apart
in memory: `MsgSpan`, see below.

### FileTableMem and the code

`init_fileTable` allocates each initial message with `sizeof(cur_msg)`, four
bytes for a structure of twenty. The module keeps memory as words, allocates
like `kmalloc` (forward, zero-filled, rounded to one or two words) and runs the
handler's assignments on it. With two-word rounding the initial message of an
entry reaches over the next two entries' (five words over steps of two), so
peers three addresses apart do not disturb each other and `MsgSpan` is 3
(5 with one-word rounding). `FileTable` is run with such peers. Neighbouring
peers do disturb each other: run `memory_near`. What a copy through a wrong
pointer does is undefined; the model stops there (`wild`).

The program's side is here in finer steps than in `FileTable`: `get_fd`,
`get_fd_tail` and `get_fd_cnt` are the loads of one structure copy, between
which the handler may push, `has_msg` compares the count with the pointers (and
panics when they disagree), `get_msg` follows the copy's head. The order of the
loads is the order of the fields.

### EspControl and the code

The Pi side is `pi`: `send_cmd` sends one half packet per step, `Connected`,
`PollsOver` and `Retry` are `connect_to_wifi` within `client_init`,
`CopyAndWait` is `client_init`'s wait on the copy of the entry, which becomes
the state `"spin"` if the copy holds no status, since nothing changes a copy.
`server_init` and `get_connected` wait on fresh copies, without a timeout. The
second command of `client_init` is called with its arguments in the wrong order,
so what the ESP gets is command 0xf.

The ESP side is `esp`: `Parse` (`parseNreadPckt`), `runCmnd` with what
`client_wifi_cnct`, `get_server_ip`, `server_init` and `get_connected_list` may
come to, and `Reply`, with the `Clean` of the loop, which drops whatever is in
the serial buffer. The line is modelled by half packets for that reason: a drain
can leave the tail of a packet. Half packets that arrive while the ESP talks
are damaged (neither side can send and receive at once), those beyond its
buffer are lost, and all are lost while the ESP is off. Time is not modelled:
the thousand polls of an attempt pass without the ESP getting any further
(`PollsOver` at once) or with.

Taken for granted: an address ends in neither 0 nor 15, which would be read as
statuses (`EspControlAssumption`).

### EspRelay and the code

The clients' ESPs run `client_esp_new.ino` with `SERVER` 0, the server's with 1. One
action per branch of the sketch's loop on either side: `client_wifi_cnct` (the
command `ESP_WIFI_CONNECT`, also of a client that is connected: `client.connect`
closes the connection there is, and may fail), `connect` and `send_msg` (a message of
the client's Pi, with the loop that connects first), `ClientRelay` (`relay_to_pi` on a
client), `accept` (`server.hasClient`; the client's earlier connection in `wifiArr`, with
what was not read of it, is gone), `relay_to_pi` on the server, one packet a step,
and `ServerSend`. A connection is made by the client and accepted later; `conn` is
how far the latest of a client has got, `waiting` holds what was written on those not
accepted yet. `recieveMsgHandler` is the file table's handler, cut down to what is
needed to follow a message to the queue.

`Wire` is what `send_msg` writes. Packet `i` is made of the bytes `(i+1)*k` of the
data, `k` the place in the packet: its flags are always the first packet's, and its
addresses the byte `i+1` behind the first, another one for each packet. That is data
of the user: `Wire` takes any client for it, the sender too, or what is no client
(`Others`). Such a packet is no piece of any message, but the table it comes to does
not know; `hist.strays` counts those that come with a client's number.

`ClientRelay` takes `wifiArr[i]` with the count of the loop's rounds for an index, cut to
a byte. Within the 16 entries that is an empty one, and the connection is dropped.
Beyond them is other memory: the ESP may read its own connection there after all,
or something that is no connection, with which it crashes and starts again. Its
serial buffer, its connection and the address of its server are gone then, and the
server may go on taking the old connection for one that is up (`gone`).

Taken for granted. TCP is external: what is written on a connection that is not
replaced arrives, in order, also if the client closes it before the server has
accepted it. Connections of different clients are accepted in any order. The `connect` of
`send_msg` stands for the try that succeeds; tries that fail change nothing. The
serial lines lose nothing here; that is `EspControl`'s and `FileTable`'s matter.

### UserThreads and the code

`queues` are the five `Q_t`; `pc` is where the processor is. `SlotWake` and
`SlotPick` are the two halves of the for loop's body, time can pass between
them; `PassDone` is the exit test, `Block` one evaluation of the spin loop's
condition. `save_context` (timer), `save_context_yield`, `rpi_sleep` and
`rpi_exit` are the four ways back into the scheduler, which then starts again
at queue 0. `wake` and `resurf` are parts of the actions that call them; what
their loops walk over is a set of places, and `InOrder` puts it in the order of
the walk (a sequence by rank, so that the proofs need no recursion): `Q_push`
leaves the last one pushed in front.
The registers and stacks are left out. `rpi_fork` is possible before the start
only, as in the programs of the repository.

Time is counted in timer periods. `SliceTicks` bounds the ticks from one
dispatch to the next, since the timer interrupts a thread after one period.
The real `resurfDelay` is thousands of periods; the instances keep it larger
than the number of threads.

### BootLoader, Shell and the code

The host is one process in two programs: `simple_boot` (`get_info`, `drain`,
`success`), then the shell (`sync`, `ack`, `prompt`, `echo`, `got`, `done`). So
is the Pi: `get_code`, then the server it has loaded, which knows that it runs
by `pi.image`. An action of the host is a read that succeeds and everything up
to the next read; a wrong word ends in `Die`. The line to the host is a sequence
of bytes, as `simple_boot` skips five bytes at a time over anything it does not
know, and `Starts` looks for a word at its front; the line to the Pi is a
sequence of words, code included (bytes in the code: a word is copied at once).
Strings the Pi prints have `TextLen` bytes.

`BootTimeout` and `ShellTimeout` are the ten seconds after which a read of the
host returns nothing: much longer than anything the Pi does without waiting
for the host, so they need a Pi that waits (`PiWaits`). `wait_for_data` and
`wait_for_op` repeat the Pi's requests, also while the answer is on its way.

The faults are a reset of the Pi (what is on its way to it may be lost, in
part), a restart of the host program (possibly with another image; the line is
cut on both sides, possibly inside a word) and one damaged word on the way to
the Pi. A damaged code word, size, checksum or count becomes any of `Garbles`; a
damaged opcode is no opcode. (The shell's opcodes are 0 to 3, so a damaged word that
comes to the server's main loop may be one of them; `IgnoreOp` takes it for none.
No property tells these apart: those about jobs and the host's death exclude
damage, and a server that leaves its loop runs nothing.) The address in
`PUT_PROG_INFO` is not damaged: it is neither checked nor covered by the
checksum, so that a damaged one that passes the test against the loader has the
program copied and started somewhere else, about which there is nothing to say;
memory is modelled from `ARMBASE` on only. That every other word may be damaged
is what `Agreement` is about. The checksum tells the images from one another and
from everything else, and no two damaged words make up for each other
(`MaxFlips` is 1 in the run; the theorems state what they need, `Trusted`
below).

In `Shell` `RunCommand`, `SendJob`, `CodeGot`, `JobDone` are `send_prog`,
`RunArgs` to `Relay` are `run_prog`; `OtherCommand` is `list` and `update`, which
send a word the server ignores (`IgnoreOp`); `Exit` is the reboot, after which
the shell ends. `relayed` remembers what the server sent to the clients.

### ProgramLine and the code

One byte per step: `sw_uart_put8` hands a byte to the state `sw_uart_gets` is
in, `SearchStart` or `ReadData`; or to nobody, when the client is off or runs a
job. `StopSeen` is the stop test as it is written: the byte just read against
the first of the stop sequence, and the buffer, up to the place this byte is yet
to be written to, against all of it.

`Frame` is what `run_prog` writes: the marks, the program, and the rest of `buf`, an
array on the stack nobody initialises, whose bytes are any of `Leftover`, marks of
earlier frames among them. The client's buffer is kept from program to program; when
the client is switched on it holds what a reboot has left there or any of `Memory`.

`BRANCHTO` is what the client does with what it has got. If it does not begin with a
program's header (`Cookie` stands for it), the assert reboots the client, which is then
off until somebody loads it again. If it is all of a program, that runs and returns;
running in the buffer, it may clear the memory behind its code (`JobDone`). If it only
begins like one, what it does is open, and the model does not follow it (`lost`).

Taken for granted (`ProgramLineAssumption`): a program begins with its header, which
the server asserts, and fits both buffers (hazard `server.c:73`). Of the marks and
sizes: the first byte of the start sequence is nowhere else in it ("START:"), and the
buffer ends within the start sequence of the next frame (6 + 7999 bytes against
8000). The marks are cut from six and four bytes to two in the instance. What the bytes
of a program, or behind it, may be is not assumed but said in the properties:
`RunsWhole` is about frames that are `Marked`, with no second start sequence and, up
to the program's own stop, no `FalseStop`, which is what the test as written takes for a
stop (`:EN:` behind an old `D`); `KeepsRunning` needs that frames do not go on ending like
the beginning of a start sequence (`EndsOpen`).

### Fat32 and the code

The heap is an array of cells of one sector, `kmalloc` moves `brk` forward, and
`pi_sd_read` writes a cluster wherever the code has got to, past the end of the
buffer if the chain is longer. A call goes through the steps its function is made
of (`Steps`, counted by `call.pc`); `read_cluster_chain` does one round of its loop
per step. Each read of the card can fail, with which `pi_sd_read` panics
(`pi_sd_read_fails`), in the middle of a chain too; `read_failed` remembers it.
`get_cluster_chain_length` is translated as it is: it looks at the type of the
cluster's number instead of its entry, and is 1 for every chain. The card is
chosen in `Init` from all cards with the given files (`Chains`, `Slots`): chains
disjoint and ending, entries anywhere in the directory, in any order, with a
volume label and unused entries between them. The heap ends after `HeapSize`
cells, and no call is made with less than `Room` cells left: that is more than a
call allocates (`Fat32Assumption`), and in the instance more than it writes, so
that no write leaves the model's heap.

## 3. The runs

| Run | Instance | Shows |
|---|---|---|
| `table_loss` | 1 peer, messages of 1, 2, 3 and 5 bytes in packets of 2, four of them, 2 losses | no copy beyond a buffer (`InBounds`), one loss corrupts nothing (`IntactUnderOneLoss`), what losses cost (`LossCost`) |
| `table_mailbox` | peers 0 and 3 of 4, two messages of 2 packets each, 1 loss each, acknowledgements and replies | `Chronological`, `SnapshotValid`, the refinement `IsMailbox` |
| `memory_far` | peers 0 and 3 of 5, copies taken load by load | messages never overlap (`MessagesApart`), a torn copy still leads to whole messages (`CopyWalks`) |
| `memory_near` | peers 2 and 3 of 5 | violated: one peer's command moves the other's next copy |
| `sched` | 3 threads, 3 queues, delay 2, resurf after 4, a slice of 1 tick | `OnePlace`, `NoSleeperAbandoned`, `NeverStuck`; `SleepersWake`, `DemotedResurfaces`, `EveryThreadRuns` |
| `sched_done` | 2 threads, 3 queues, delays 1 and 2 | violated: the machine is rebooted with a ready thread |
| `shell_faults` | 3 images of 1, 2 and 4 words, room for 3 below the loader, addresses modulo 16, a reset, a restart, a damaged word, any two of them, 2 commands | `BelowLoader`, `Agreement`, `QuietAtPrompt`, `DiesOfFaultsOnly`, `JobAnswered`, `NoWaitForEver` |
| `program_line` | 3 programs, frames and buffer of 7 bytes, marks of 2, four bytes for leftovers, a client switched on at any time and busy for any time | of marked frames only whole programs are run, one frame late (`RunsWhole`), and some always are (`KeepsRunning`) |
| `esp_control` | 5 attempts, 4 half packets; client and server, the ESP on, off or switched on late | `OwnNumberTwice`, `LossShows`; `ClientInitEnds`, `ServerInitEnds` |
| `esp_relay` | 2 clients, 3 messages of 1 or 2 packets and 2 commands to connect in all, 2 messages of the server | `OnlyShortArrive`, `LongCost`, `HangsAfterOwnMessage`, `GetsThrough` |
| `fat_read` | every card of 4 clusters with 2 files of up to 2 clusters, calls in any order, any read may fail | `FirstClusterKept`, `DiesOnlyOf`, `ListsFirst`; `Returns` |
| `fat_whole` | the same cards | violated: a file of two clusters is read into a buffer for one |

Some of these properties hold, and what they say is not what the code promises. They
are exact about what happens instead, and each is listed as a finding:

- `RunsWhole`: `sw_uart_gets` is to "Read data until stop sequence or buflen is reached"
  (sw-uart.c:167), but the byte that completes a stop is compared before it is in the
  buffer, so the stop is never seen in time. The client reads until its buffer is full,
  and a program runs when the next one has been sent, or at a false stop.
- `KeepsRunning`: the "Search for start sequence" (sw-uart.c:151) drops the byte of a
  mismatch. If every frame ends like the beginning of a start, the client misses all of
  them: that is what TLC finds without the property's premise about `EndsOpen`.
- `OwnNumberTwice`: client_init is to set "the localFD and serverFD globals"
  (pi-esp.c:45), and serverFD is always the client's own number.
- `OnlyShortArrive`: the packets are to be relayed with their headers since they "will
  be needed on the other side" (client_esp_new.ino:341), but only the first of a
  message is sent as it is, and longer messages never arrive.
- `ListsFirst`: get_dirents is to get "all the dirents of a directory" (fat32.c:157), and
  gets those of its first cluster.

`JobAnswered` and `DiesOfFaultsOnly` name in their premises the faults under
which they do not hold: a damaged word can change what the server was asked for,
and a Pi that is reset under a running shell makes it die. `NoWaitForEver` names
the three pairs of states (`Split`) in which host and Pi wait for each other for
good; each of them is reached after a reset or a restart.

### Bounds, and why they are enough

File table: two messages after each other make every confusion between an old
and a new message possible, four let two separate losses and their recovery
happen; the sizes give full and partial last packets and messages of one, two
and three packets. Two peers are enough since the handler touches one entry at a
time; in memory, where entries could touch each other, the two peers are as near
as the property allows. Statuses are cut to those the model tells apart. Memory
of 150 words is never used up.

Threads: three queues are the top, the middle and the last one (from which a
thread is not demoted); two threads show every overtaking, three every order of
a queue. A delay of two lets a thread fall asleep while another is about to
wake; `sched_done` also has delays of one.

Shell: sizes 1, 2 and 4 against room for 3 give a program that is too big as
well as two that fit; the damaged values 0 and 15 are an empty program and a
sum that wraps around. `MaxRepeat` bounds how far a repeating Pi gets ahead of
the host: two waiting requests are one more than the host has asked for, which
is what the drain and the discarding loops are for. Two commands are needed for
the leftovers of one to be read by the next, two faults for one that happens
while the other is being recovered from.

Program line: a frame of 7 bytes holds both marks, a program of up to three bytes and
what is left behind it, which can be either mark, or end like the beginning of
one. The programs have different lengths, so that something of a longer one stays in
the buffer behind a shorter; one has the beginning of a stop in it, and one makes a
false stop together with its own.

ESP: five attempts are the code's own number. Four half packets in the ESP's
buffer are two commands: one that is being answered and a repeated one. In the
relay, the bounds are totals over the clients: three messages are a long one with a
short one behind it and one of another client, or packets of an old and of a new
connection of the same; two commands connect both clients, or one again; two messages
of the server make its ESP hang. Data name a client in this instance (`Others` is
empty); the table ignores what names none.

FAT32: chains of up to two clusters are the shortest that are longer than their
buffers. The heap ends after 36 cells and calls stop at the last 16, so several
calls follow each other and no copy leaves the heap.

### Deadlock

`table_*` and `program_line` check deadlock. The others do not, since the system
really stops: the machine reboots when the scheduler ends, host programs exit or
die, the server of the card dies on an assert, `client_init` ends, peers have sent
all their messages.

### Fairness

- `UserThreads`: the scheduler runs, time passes, and the timer interrupt comes
  to a thread that does not give up the processor: `timer_interrupt_init` leaves
  the timer running and a thread runs in user mode with interrupts on. Nothing
  is assumed of the threads.
- `Shell`: the host program and the Pi's program run, and the Pi's timer runs
  out when no data come (`PiRepeats`). Nothing is assumed of the user, and
  nothing of resets and restarts.
- `ProgramLine`: the server goes on to write the bytes of a frame it has begun,
  and a client that has got something goes on (`BRANCHTO`): the jobs of the user end.
  Nobody has to switch the client on, and nobody has to send a program:
  `KeepsRunning` assumes both where it needs them.
- `EspControl`: both processors run. Nobody has to switch the ESP on.
- `EspRelay`: the loop of each sketch comes round, so that the server asks for
  new clients (each connection made is accepted some time: `server.hasClient` goes
  through them in turn), and both sides look at their serial line and connections.
  Nothing is assumed of the programs on the Pis.
- `Fat32`: the processor runs. The fairness is about steps in which no read of the
  card fails, so that a call that went round for ever would not be ended by a
  failure which fairness demands; such a step is possible whenever any is.
- `FileTable`, `FileTableMem`: none; their properties are about safety.

### What the violated runs say

- `memory_near`: `init_fileTable` allocates the initial messages with the size of
  a pointer, and they overlap: a command of peer 3 sets the packet counter of
  peer 2's message, whose next packet is copied outside of its buffer.
- `sched_done`: the exit test of the scheduler looks at the number of sleepers
  and at the top queue only. A sleeper that wakes on a lower queue after the scan
  has passed that queue is lost in the reboot.
- `fat_whole`: the length of a cluster chain is computed from the cluster's
  number, not from its entry, and is always 1: the buffer of a longer file is too
  small, and the file is copied over what is allocated next.

## 4. The proofs

All theorems hold for every value of the constants that the named assumption of
the module allows (`FileTableAssumption`, `EspControlAssumption`, ...); further
conditions are named below. TLC evaluates the assumptions in the runs.

### FileTable

`FileTable_proofs` proves the invariants of the runs: `TypeCorrect`,
`BoundsRespected`, `LossCostBounded`, `OrderPreserved`, `OneLossIsHarmless` and
`SnapshotStaysValid`, all but the first and the last on condition that no message
is empty.

The argument. `StepOfPeer` reduces a step of the system to three cases at a
peer: nothing, a command, a data packet. Then one invariant per property, kept
by these cases. `BoundsAt`: an announced message has room for the next piece.
`CostAt`: the messages missing from the queue are paid for by the packets lost,
counting the one being assembled and what is still to come; without that credit
the bound is not inductive. `OneLossIsHarmless` needs to know how far receiver
and sender are apart: with no loss they are in step, after one loss the handler
either lacks the announcement or is behind by one piece of the same message.

`ImplementsMailbox` proves that under these conditions and at most one loss per
peer every behaviour of `FileTable` is one of `Mailbox`. Its invariant joins
three of those above, since each supplies one part of a delivery: `BoundsAt`
that the last piece is the packet just received, `IntactAt` that the message is
then the one its sender is in the middle of, and `OrderAt` that it is newer than
all delivered before. `CountsAt` adds what none of them needed: queued messages
are full, and losses stay within their bound. With two losses the refinement
fails: packets are only counted, so pieces of two messages can make one.

### FileTableMem

`MemTyped`, `MessagesStayApart` and `CopyAlwaysWalks` state the three invariants of
`memory_far` for every number of entries, heap, rounding of `kmalloc` and number of
messages. Two conditions, both in the code's hands: `PeersApart`, no two of the
peers' numbers are so close that their initial messages overlap (`memory_near` shows
what happens when they do), and `MemoryLasts`, there is a word left: the model's
memory is finite because TLC enumerates it, and `kmalloc` itself checks no limit.

The invariant `MemInv` says what `should`, the model's record of what each peer was
sent, has to do with memory. Each message lies below the free memory, apart from
all others, with the words that were written to it (`Stored`, `Apart`); the queue's
pointers are those of `should`, and each queued message points to the one before
it (`QueueOK`); a message that is announced has room (`Room`); and what `kmalloc` has
not handed out yet is zero (`FreeIsZero`). The last part is why a new `cur_msg`
does not hold an announcement nobody made, and why the first `next` is `NULL`.
For the program, `FdsOK` says between which loads a push has torn its copy: the
head is then that of an older queue and the count that of a newer one, never
less. `CopyWalks` follows, because queued messages are never written to again.

### EspControl

`OwnNumber`, `LossIsShown` and `NoEndlessWait`, for every address, number of
attempts and size of the ESP's buffer. The invariant is `ClientInv`: types, what
the Pi has concluded (`Concluded`: once it has seen a status the table never
goes back to holding none, which is why the wait on a copy ends), and what the
ESP is about to answer or has answered last (`Answered`: the client's own number
only with a connection, or with a failure about to follow). `LossIsShown` needs
the last part: a connection goes only in a step that also decides on the answer
that reports it.

`ControlTyped` is the type invariant for both roles (FAIL is 0, as in the code),
and `DamageDrained` says that the half packets an answer has run into are never
parsed: while one is on the line, the drain behind the answer is still to come. It
is why the parser's branch for garbage needs no property of its own.

`OwnNumber` is the reason for the finding about `serverFD`: it is not a race that
sometimes goes wrong, no order of events lets a client learn the server's number.

### EspRelay

`HangsLate`, for every set of clients and any number of messages. The invariant
is `HangInv`: until the server's own Pi sends, a client that was told to connect only
once has one connection, waiting or accepted, and nothing takes it away (`OnceThere`);
and the ESP's current client is one it has accepted. Therefore a first message hangs
the ESP only if it has accepted nobody, and then it accepts nobody afterwards, or if
its current client has been told to connect again.

`ShortArrive` follows every packet along its way: from what a Pi still has to write
over the connections that are not accepted yet, in their order, to the one the server
reads. `ArriveInv` says what such a line can hold (`Line`, and `InOrder` for all of a
client's together): each announcement with its first piece behind it, numbers that
grow, and packets that are no piece (`k` is 0). The two parts of a message can be read
apart (`Headless`: the announcement has been read, its piece is next), and what the
entry holds depends on it (`EntryWaits`): where its line is headless and it waits, it
waits for as many packets as that message has, and has nothing but strays yet. So the
last packet of what has no stray in it is the only one, and its message is short. The
strays may come from any other client's line at any moment, which is why the invariant
is about an entry that may be out of step with its own line. What has been queued
without a stray is older than all that is on its way (`QueueOK`), hence the order.

`Follows` joins to `ArriveInv` what a step does to the counts of each client: it sends
one more (`Sends`), the data of one message is read (`Ends`), or packets are lost and
strays come (`Loses`). `LongCosts` counts the messages that are on no line any more
(`CountOK`): those of one packet have been queued or are paid for, by a longer message, by
the packets dropped with a connection, two for each, or by the strays, one for each. The
induction needs a debt (`Owed`): an entry out of step with its line, that waits
for a piece which is not next or does not wait for the one which is, is going to
give up a message more, and what put it out of step has to pay for that too.

### ProgramLine

`StaysInBuffer`: `sw_uart_gets` never leaves its buffer, for all marks, programs,
lengths of frames and sizes of the buffer, whenever it begins to listen. The
index is not bounded by the type invariant alone: `LineInv` adds that within a
program one byte and the final zero still have room, which is what the test
against `buflen - 1` leaves.

`OnlyWhole` is `RunsWhole` for the same constants and for any leftovers. `WholeInv` relates
three things the code keeps apart: what the server has still to send, how far the
client's search has matched, and what its buffer holds. What has matched are the
last bytes sent (`Matching`), so that in a marked frame a match is complete only at its
start (`OnlyAtStart`); from there on the buffer holds, byte for byte, what follows in the
frame and then in the next one (`Filled`, `Reading`). The stop test compares with a byte
of an older program, the one at the place still to be written. So it says yes only
behind the bytes of a false stop (`StopAt`), which in a marked frame are not in the
program or its own stop: the buffer begins with the whole program by then. If it never
says yes, the client reads until its buffer is full, and the next frame has begun.

### Shell

`LoaderStands`: what the Pi's boot loader copies stays below the boot loader, for
all images, sizes and addresses and any number of resets, restarts and damaged
words, unless the sum of address and announced size wraps around. The hard part
is the line to the Pi, whose messages faults cut: `Framed` says that what stands
behind `PUT_PROG_INFO` is the address a host has sent, or the opcode of the next
message (and behind that again an address or an opcode), and opcodes, read as
addresses, lie beyond the loader, so that `ProgInfo` rejects them. A host that has answered
leaves no beginning of an answer at the end of the line (`Closed`), so that it
can append; only a restarted one meets such an end, and its answer begins with
an opcode. Addresses are not damaged in
the model (section 2), and the theorem inherits that.

`ShellTyped` and `WholeImages` hold as long as the line is `Trusted`: no damage turns
a word into 0, the checksum of what is no image, or there is no damage at all. The
Pi compares the checksum it was announced with that of what it has copied, and no
host announces 0; so what passes is an image (`Sound`). The condition is needed: with
two restarts and two damaged words, a checksum damaged into that of the very
words that arrive, TLC finds a Pi that runs words which are no image. `TrustedInv`
adds that trust once lost does not come back. Sizes, checksums and the numbers of
clients are words of 32 bits, as the assumptions say.

`PromptQuiet` and `CommandsServed` are about sessions, for any number of restarts at
any moment, while nothing is reset or damaged. `Dialogue` has three cases. `Before`:
the host is on its way to the prompt or dead, the Pi anywhere up to its main loop, and
no command is on the line; the only `ACK` is the last thing sent to the host
(`Ends`), since the Pi sends it on entering its main loop and nothing after it. Hence
whatever requests of the Pi have piled up, `SyncDrain` passes over them, and a host
that reads `ACK` comes to an empty line. `Serving`: host and server are in the same
command, and what is on the line is that of its current step, with nothing before
it but words the server passes over (`Mute`). `Abandoned`: a host was killed, or has
left with `exit`, while a command was on the line. The next host waits for a request
of the boot loader, which the server does not send (`Idle`), and times out; only once
the server has read `EXIT` (the line holds at most one of the two words it obeys,
`OneLoud`) is it `Before` again. So stale words of
the boot protocol are all that one session can leave to a later one.

`SessionsAgree`, `ShellSurvives` and `JobsAnswered` state `Agreement`,
`DiesOfFaultsOnly` and `JobAnswered` with resets as well, for any number of faults
but not for any restart: a restart has to be clean (`CleanSpec`). An announcement is
known by its image's checksum only, so a host cannot tell its own from one that a
killed host made of the same image. After a clean restart no such announcement
stands on the line and the Pi is not in the middle of one (`Stale`); restarts with
another image, and with the same one once the Pi has read and booted it, are clean. The
second condition is what `BootLoader` says of all data: no image's checksum is the
number of an opcode. `Agreement` holds with damaged words too, if none becomes the
checksum of an image or of none (`Harmless`); the run's damaged value 15 is of this
kind, 0 is not.

The argument (`Sessions`). A host's announcement is the last on its line until the Pi
takes it (`OwnLast`). Once the host's own checksum has been accepted or sent back
(`Begun`), no announcement is left on the line and the Pi takes and runs no other
image (`Confirmed`); a reset does not change that, since the Pi then finds nobody
who announces anything. What makes it inductive is that the Pi cannot read one
announcement out of two: `InOrder` says what may follow each word, `EchoWhole` that
`GET_CODE` never comes without its checksum.

`Phase` continues from there without damage. Behind the checksum that comes back the
line to the Pi is empty and nothing else is behind it on the line to the host
(`Answered`): all earlier requests have been passed over, and the Pi waits for the
code. So what is on both lines is known at each step to the prompt (`Booting`,
`Calling`, `Called`, `Serving`), whatever stood there before, and none of these hosts
dies. The one way out is a reset (`Lost`): then the Pi is in its boot loader and stays
there, and what it sends contains no `DONE`; a `DONE` sent before is in the place where
the host expects it (`NoEarlyDone`), and its job has been relayed.

### UserThreads

`SchedTyped`, `SchedOnePlace`, `SchedNoSleeperAbandoned` and `SchedNeverStuck`:
for all sets of threads, numbers of queues and delays no thread is lost, doubled
or scheduled after its exit, the counter of the sleepers is the length of their
list, and the scheduler neither stops nor spins wrongly because of it. The
invariant `SchedInv` joins all four, since they depend on each other: the spin
loop has something to wait for only because the counter is exact, and the
counter is exact only if `wake` takes as many sleepers off the list as it counts.

The argument. `Once` says that queues, list and processor hold each live thread
in one place. Each way a thread moves has one lemma: to the end of a queue
(`PutBack`), from the front of one (`Taken`), on to the list (`GoesToSleep`), out
(`Exits`), in (`Appears`). The two loops move many at once. `Ranked` shows that in
a finite set with a total order the numbers of the elements up to each are
exactly 1 to the size of the set, so the sequences `InOrder` builds name each
place once (`Lists`); with that, `Wakes` and `Resurfaces` are permutations of places
and keep `Once`. What the prover cannot do is the induction that the loops, step
by step, produce these sequences: that is the model's reading of them.

### Fat32

`Fat32_proofs` proves `FirstKept` (the first cluster of a file that was read stays
what the card has), `StopsOnlyFor` (the reasons for which the server stops) and
`ListingsRight` (which files a listing names, and in which order), for every
well-made card, any size of a cluster, any number of files and calls.

The argument. The invariant `FatInv` says of the card that its chains are disjoint
and its entries distinct (`CardOK`); from that `FatEntry` and `SectorOf` follow: the
FAT has the next cluster of each, and the sectors of a cluster are found where
`cluster_to_lba` looks. Of the heap it says that the files returned, with their
first clusters, lie below the last buffer (`FilesBelow`), so that a copy that runs
on past that buffer meets none of them. Of a call in progress it says where in the
chain it is and, once past the first cluster, that the buffer holds it
(`Following`); that is why the loop ends at the end of a chain and stops the server
only for an empty file or when a read fails. The buffer is complete only up to
its first cluster: what is allocated next (the answer of `fat32_stat`, the
names, the next buffer) may overwrite what was copied past the end, and none of
the steps that follow reads it (`Hits`). `Left` is the memory a call has yet to
allocate at each of its steps. `WholeFile`, which would need more than the first
cluster, is violated. A listing is made while the buffer holds the first cluster
of the directory. Its loop puts an entry after the valid ones before it
(`pi_dirent_index`); `Places` shows that these places are one for each valid
entry, in their order and without a gap, `Taken` that the valid entries are
those of files.

### Only model-checked

- All liveness: it needs `ENABLED`, which the prover does not handle.
- `Agreement`, `DiesOfFaultsOnly` and `JobAnswered` with restarts that are not clean:
  `shell_faults` has one restart, clean or not. The first two are not true for any
  number of them: after four, with three resets, the requests of stale sessions
  stand on the line and answer each other, and after three what killed hosts have sent to
  the boot loader stands before the `UNIX_READY` of a host that is synchronizing,
  and the server reboots. What `Agreement` says of the Pi's image alone is
  `WholeImages`, and from the prompt on `CommandsServed` holds for all restarts.

## 5. Not modelled

- Most of the repository's lines. Of its lines of code a third are in the
  `external-code` directories, and of the rest about half is older or copied:
  vendored files (SD card driver, mailbox and platform headers, UTF-8
  conversion, several times each), older stages kept next to the current ones
  (`other-stuff`, two copies of libpi and of the FAT reader under
  `server-client-sw_uart`), headers of register addresses, and programs that
  only print. A model of a copy would say nothing new; the modules cover the
  current version of what keeps state.
- Software UART and GPIO interrupts: a bit is timed by busy waiting on the cycle
  counter, a loss depends on interrupt latency against bit times. The models
  lose, or keep, whole packets (`FileTable`), half packets (`EspControl`) and
  words (`Shell`), and nothing in between. A byte lost inside back-to-back
  packets shifts the framing of those that follow; no property covers that.
- Overflow of the hardware UART's FIFO on the Pi, and of the tty's buffer.
- 8.3 names and their comparison, long file names, formats of what is printed,
  and the parsing of the shell's command line (no state).
- A message larger than its buffer in `server.c` and in the older server: one
  missing comparison each, listed as hazards.
- `tests/sendServ.c`, which pops the table's own queue with interrupts on: a race with
  the interrupt handler on a `Q_t` that no program the library is used in has. A fork
  by a running thread, which no program does.
- The older ESP sketches (`server_esp_new.ino` is one: it has no `SERVER` macro, no
  `wifiArr` and only a stub of `get_connected_list`) and Pi driver, the older main programs of
  `server-client-sw_uart`, the supervisor-mode and cooperative thread packages,
  `circular.h`: superseded, or used by nothing that runs.
- libpi's timer, GPIO, printing and strings, and libunix: device registers, host
  I/O, pure functions.

What could come next: the steps of `Q_push` and `Q_pop` against an interrupt,
should a program begin to pop the table's queue; and the framing of packets
under lost bytes.
