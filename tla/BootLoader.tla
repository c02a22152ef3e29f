----------------------------- MODULE BootLoader -----------------------------
(***************************************************************************)
(* Loading a program over the serial line: simple_boot on the host         *)
(* (project/shell/shell) and get_code on the Pi (project/shell/server).    *)
(*                                                                         *)
(* The Pi repeats GET_PROG_INFO until data comes; the host answers with    *)
(* size and checksum, the Pi asks for the code, checks it, says            *)
(* BOOT_SUCCESS and jumps into it.  Any mismatch makes the host give up    *)
(* and the Pi reboot.                                                      *)
(*                                                                         *)
(* The line to the host is modelled by bytes, because the host must find   *)
(* the start of a word after garbage; the line to the Pi by words, and     *)
(* code is a sequence of words.  A checksum tells the images from one      *)
(* another and from everything else, and no word of data equals an opcode. *)
(***************************************************************************)
EXTENDS Integers, Sequences

CONSTANTS
  Images,       (* the programs a host may be started with                  *)
  Size,         (* their sizes, in words                                    *)
  ARMBASE,      (* where a program is linked, and the first address it may  *)
                (* occupy                                                   *)
  Loader,       (* the boot loader's own address                            *)
  Width,        (* addresses are computed modulo Width: 2^32 in the code    *)
  TextLen,      (* bytes in a string the Pi sends                           *)
  Garbles,      (* what a word of data may become on the line               *)
  Cuts,         (* how many bytes a cut leaves of a word: among 0 .. 3      *)
  MaxRepeat,    (* bound: words the host is behind when a request repeats   *)
  MaxResets,    (* bound: resets of the Pi                                  *)
  MaxRestarts,  (* bound: restarts of the host program                      *)
  MaxFlips,     (* bound: words damaged on the way to the Pi                *)
  MaxFaults     (* bound: all of these                                      *)

ASSUME BootLoaderAssumption ==
  /\ Images \subseteq Nat \ {0}
  /\ Size \in [Images -> Nat \ {0}]
  /\ {ARMBASE, Loader, Width, TextLen} \subseteq Nat
  /\ ARMBASE <= Loader /\ Loader < Width \div 2
  /\ 0 < ARMBASE /\ \A p \in Images : p < Width /\ Size[p] < Width      (* words *)
  /\ Garbles \subseteq 0 .. Width - 1 /\ Cuts \subseteq 0 .. 3
  /\ {MaxRepeat, MaxResets, MaxRestarts, MaxFlips, MaxFaults} \subseteq Nat

VARIABLES
  host,         (* [pc, image]: "get_info", "drain", "success" in           *)
                (* simple_boot, "sync" behind it, "dead"; the image it sends *)
  pi,           (* [pc, nbytes, crc, mem, image]: "ask", "wait", "info",    *)
                (* "code", "copy" in get_code, "ready" in the loaded        *)
                (* program, "down" during a reboot; mem is what lies at     *)
                (* ARMBASE, image what it jumped into                       *)
  toHost,       (* bytes on their way to the host                           *)
  toPi,         (* words on their way to the Pi                             *)
  faults        (* resets, restarts and flips so far                        *)

vars == <<host, pi, toHost, toPi, faults>>

------------------------------------------------------------------------------
(* Words and images.                                                        *)

Word(op, v) == [i \in 1 .. 4 |-> [op |-> op, v |-> v, i |-> i]]

(* The next four bytes are the word op.                                     *)
Starts(op) == Len(toHost) >= 4 /\ \A i \in 1 .. 4 : toHost[i].op = op /\ toHost[i].i = i

Drop(s, n) == SubSeq(s, n + 1, Len(s))

Junk(n) == [i \in 1 .. n |-> [op |-> "junk", v |-> 0, i |-> 0]]

boot_putk == Word("PRINT_STRING", 0) \o Word("strlen", 0) \o Junk(TextLen)

(* No word of the host is both an opcode and a value: taken for an address  *)
(* or a size an opcode lies beyond the boot loader, and two do not wrap.    *)
Item(op, v) == [op |-> op, v |-> v]
Op(op) == Item(op, Width \div 2 - 1)

Code(p) == [k \in 1 .. Size[p] |-> p]

CodeItems(p) == [k \in 1 .. Size[p] |-> Item("code", p)]

(* The checksum of image p stands for it by its number; 0 is the checksum   *)
(* of everything else.                                                      *)
crc32(mem) == IF \E p \in Images : mem = Code(p)
                THEN CHOOSE p \in Images : mem = Code(p)
                ELSE 0

Stopped == {"dead", "exit"}

(* What the Pi writes is lost while no host program has the line open.      *)
ToHost(s) == IF host.pc \in Stopped THEN <<>> ELSE toHost \o s

------------------------------------------------------------------------------
(* The host.  Each action is a read that succeeds and what follows it.      *)

HostAt(pc) == host.pc = pc

HostTo(pc) == host' = [host EXCEPT !.pc = pc]

(* panic, ck_eq32 and die.  (ck_eq32 first echoes what the Pi sends, for as *)
(* long as it goes on.)                                                     *)
Die == HostTo("dead") /\ toHost' = <<>> /\ UNCHANGED <<pi, toPi, faults>>

(* get_op: strings are printed and skipped.                                 *)
get_op_string ==
  /\ host.pc \in {"get_info", "drain", "success"}
  /\ Starts("PRINT_STRING")
  /\ Len(toHost) >= 8 + TextLen
  /\ toHost' = Drop(toHost, 8 + TextLen)
  /\ UNCHANGED <<host, pi, toPi, faults>>

(* Mutant: whole words are discarded. *)
Discard_Word ==
  /\ HostAt("get_info")
  /\ ~ Starts("GET_PROG_INFO") /\ ~ Starts("PRINT_STRING")
  /\ Len(toHost) >= 4
  /\ toHost' = Drop(toHost, 4)
  /\ UNCHANGED <<host, pi, toPi, faults>>

(* Step 0: a word and one byte more are discarded.                          *)
Discard ==
  /\ HostAt("get_info")
  /\ ~ Starts("GET_PROG_INFO") /\ ~ Starts("PRINT_STRING")
  /\ Len(toHost) >= 5
  /\ toHost' = Drop(toHost, 5)
  /\ UNCHANGED <<host, pi, toPi, faults>>

(* Step 1.                                                                  *)
ReplyInfo ==
  /\ HostAt("get_info")
  /\ Starts("GET_PROG_INFO")
  /\ HostTo("drain")
  /\ toHost' = Drop(toHost, 4)
  /\ toPi' = toPi \o <<Op("PUT_PROG_INFO"), Item("addr", ARMBASE),
                       Item("nbytes", Size[host.image]), Item("crc", host.image)>>
  /\ UNCHANGED <<pi, faults>>

(* Step 2: the word behind an extra GET_PROG_INFO goes with it.             *)
Drain ==
  /\ HostAt("drain")
  /\ Starts("GET_PROG_INFO")
  /\ Len(toHost) >= 8
  /\ toHost' = Drop(toHost, 8)
  /\ UNCHANGED <<host, pi, toPi, faults>>

EchoMatches == toHost[5] = Word("crc", host.image)[1]

(* Steps 3 and 4.                                                           *)
SendCode ==
  /\ HostAt("drain")
  /\ Starts("GET_CODE")
  /\ Len(toHost) >= 8
  /\ EchoMatches
  /\ HostTo("success")
  /\ toHost' = Drop(toHost, 8)
  /\ toPi' = toPi \o <<Op("PUT_CODE")>> \o CodeItems(host.image)
  /\ UNCHANGED <<pi, faults>>

(* Step 5.                                                                  *)
Success ==
  /\ HostAt("success")
  /\ Starts("BOOT_SUCCESS")
  /\ HostTo("sync")
  /\ toHost' = Drop(toHost, 4)
  /\ UNCHANGED <<pi, toPi, faults>>

(* ck_eq32.                                                                 *)
Mismatch ==
  /\ ~ Starts("PRINT_STRING")
  /\ \/ HostAt("drain") /\ IF Starts("GET_CODE")
                             THEN Len(toHost) >= 8 /\ ~ EchoMatches
                             ELSE Len(toHost) >= 4 /\ ~ Starts("GET_PROG_INFO")
     \/ HostAt("success") /\ Len(toHost) >= 4 /\ ~ Starts("BOOT_SUCCESS")
  /\ Die

(* The bytes the read the host is in still needs.                           *)
BootNeeds ==
  IF Starts("PRINT_STRING") THEN 8 + TextLen
  ELSE CASE HostAt("get_info") -> IF Starts("GET_PROG_INFO") THEN 4 ELSE 5
         [] HostAt("drain")    -> IF Starts("GET_PROG_INFO") \/ Starts("GET_CODE") THEN 8 ELSE 4
         [] OTHER              -> 4

(* get_uint8 dies when a read returns nothing: it waits ten seconds, far    *)
(* longer than anything takes the Pi but waiting for the host.              *)
BootTimeout(piWaits) ==
  /\ host.pc \in {"get_info", "drain", "success"}
  /\ Len(toHost) < BootNeeds
  /\ piWaits
  /\ Die

------------------------------------------------------------------------------
(* The Pi.                                                                  *)

PiAt(pc) == pi.pc = pc

(* The next word from the host is op.                                       *)
Next32(op) == toPi # <<>> /\ Head(toPi).op = op
Other32(op) == toPi # <<>> /\ Head(toPi).op # op

Rebooting == [pc |-> "down", nbytes |-> 0, crc |-> 0, mem |-> <<>>, image |-> <<>>]

(* The Pi sends s and goes on in state next.                                *)
PiSends(s, next) == toHost' = ToHost(s) /\ pi' = next /\ UNCHANGED <<host, faults>>

boot_err == PiSends(boot_putk \o Word("BOOT_ERROR", 0), Rebooting)

(* wait_for_data: once, and again each time its timeout passes, even if the *)
(* host's answer is on its way.                                             *)
wait_for_data ==
  /\ PiAt("ask") \/ (PiAt("wait") /\ Len(toHost) < 4 * MaxRepeat)
  /\ PiSends(Word("GET_PROG_INFO", 0), [pi EXCEPT !.pc = "wait"])
  /\ UNCHANGED toPi

HasData ==
  /\ PiAt("wait")
  /\ toPi # <<>>
  /\ pi' = [pi EXCEPT !.pc = "info"]
  /\ UNCHANGED <<host, toHost, toPi, faults>>

(* Mutant: nothing is refused. *)
Collides_Never(addr, nbytes) == FALSE

(* The sum wraps around.                                                    *)
Collides(addr, nbytes) ==
  LET end == (addr + nbytes) % Width IN addr < ARMBASE \/ end >= Loader

ProgInfo ==
  /\ PiAt("info")
  /\ Next32("PUT_PROG_INFO")
  /\ Len(toPi) >= 4
  /\ toPi' = Drop(toPi, 4)
  /\ IF Collides(toPi[2].v, toPi[3].v)
       THEN boot_err
       ELSE PiSends(Word("GET_CODE", 0) \o Word("crc", toPi[4].v),
                    [pi EXCEPT !.pc = "code", !.nbytes = toPi[3].v, !.crc = toPi[4].v])

PutCode ==
  /\ PiAt("code")
  /\ Next32("PUT_CODE")
  /\ pi' = [pi EXCEPT !.pc = "copy"]
  /\ toPi' = Tail(toPi)
  /\ UNCHANGED <<host, toHost, faults>>

(* A word that is not the opcode expected.                                  *)
WrongOp ==
  /\ \/ PiAt("info") /\ Other32("PUT_PROG_INFO")
     \/ PiAt("code") /\ Other32("PUT_CODE")
  /\ toPi' = Tail(toPi)
  /\ boot_err

(* The words that have arrived are copied to ARMBASE, up to nbytes.         *)
CopyWords ==
  LET n == IF Len(toPi) < pi.nbytes - Len(pi.mem) THEN Len(toPi) ELSE pi.nbytes - Len(pi.mem)
  IN  /\ n > 0
      /\ pi' = [pi EXCEPT !.mem = @ \o [k \in 1 .. n |-> toPi[k].v]]
      /\ toPi' = Drop(toPi, n)
      /\ UNCHANGED <<host, toHost, faults>>

Copy == PiAt("copy") /\ CopyWords

(* Mutant: the checksum is not computed. *)
CopyDone_Unchecked ==
  /\ PiAt("copy")
  /\ Len(pi.mem) = pi.nbytes
  /\ PiSends(boot_putk \o Word("BOOT_SUCCESS", 0),
             [pi EXCEPT !.pc = "ready", !.image = pi.mem])
  /\ UNCHANGED toPi

(* get_code's caller jumps to the program.                                  *)
CopyDone ==
  /\ PiAt("copy")
  /\ Len(pi.mem) = pi.nbytes
  /\ IF crc32(pi.mem) # pi.crc
       THEN boot_err
       ELSE PiSends(boot_putk \o Word("BOOT_SUCCESS", 0),
                    [pi EXCEPT !.pc = "ready", !.image = pi.mem])
  /\ UNCHANGED toPi

(* After a reboot; what came meanwhile is lost.                             *)
Up ==
  /\ PiAt("down")
  /\ pi' = [pi EXCEPT !.pc = "ask"]
  /\ \E k \in 0 .. Len(toPi) : toPi' = Drop(toPi, k)
  /\ UNCHANGED <<host, toHost, faults>>

(* The boot loader waits for words of the host.                             *)
BootWaits ==
  \/ PiAt("info") /\ Len(toPi) < (IF Next32("PUT_PROG_INFO") THEN 4 ELSE 1)
  \/ PiAt("code") /\ toPi = <<>>
  \/ PiAt("copy") /\ Len(pi.mem) < pi.nbytes /\ toPi = <<>>

------------------------------------------------------------------------------
(* Faults.                                                                  *)

FaultsLeft == faults.resets + faults.restarts + faults.flips < MaxFaults

(* Someone resets the Pi, possibly in the middle of a word.                 *)
Reset ==
  /\ faults.resets < MaxResets /\ FaultsLeft
  /\ ~ PiAt("down")
  /\ \E k \in Cuts : toHost' = ToHost(Junk(k))
  /\ pi' = Rebooting
  /\ faults' = [faults EXCEPT !.resets = @ + 1]
  /\ UNCHANGED <<host, toPi>>

(* The host program is started again.  Closing the line throws away what is *)
(* waiting for it and what it has not sent yet; the first bytes it reads    *)
(* can be the end of a word.                                                *)
Restart ==
  /\ faults.restarts < MaxRestarts /\ FaultsLeft
  /\ \E p \in Images : host' = [host EXCEPT !.pc = "get_info", !.image = p]
  /\ \E k \in Cuts : toHost' = Junk(k)
  /\ \E k \in 0 .. Len(toPi) : toPi' = SubSeq(toPi, 1, k)
  /\ faults' = [faults EXCEPT !.restarts = @ + 1]
  /\ UNCHANGED pi

(* One word is damaged; an address is not, see the README.                  *)
Garbled(w, v) ==
  IF w.op \in {"nbytes", "crc", "code", "count"} THEN Item(w.op, v) ELSE Op("junk")

Flip ==
  /\ faults.flips < MaxFlips /\ FaultsLeft
  /\ \E k \in DOMAIN toPi, v \in Garbles :
       /\ toPi[k].op # "addr"
       /\ toPi' = [toPi EXCEPT ![k] = Garbled(@, v)]
  /\ faults' = [faults EXCEPT !.flips = @ + 1]
  /\ UNCHANGED <<host, pi, toHost>>

------------------------------------------------------------------------------
Init ==
  /\ host \in [pc : {"get_info"}, image : Images]
  /\ pi = [Rebooting EXCEPT !.pc = "ask"]
  /\ \E k \in Cuts : toHost = Junk(k)
  /\ toPi = <<>>
  /\ faults = [resets |-> 0, restarts |-> 0, flips |-> 0]

simple_boot == get_op_string \/ Discard \/ ReplyInfo \/ Drain \/ SendCode \/ Success \/ Mismatch

get_code == wait_for_data \/ HasData \/ ProgInfo \/ PutCode \/ WrongOp \/ Copy \/ CopyDone \/ Up

Next == simple_boot \/ BootTimeout(BootWaits) \/ get_code \/ Reset \/ Restart \/ Flip

Spec == Init /\ [][Next]_vars

------------------------------------------------------------------------------
(* What is copied to ARMBASE stays below the boot loader that copies it,    *)
(* for every size, damaged or not, with which the end does not wrap around. *)
BelowLoader ==
  PiAt("copy") /\ ARMBASE + pi.nbytes < Width => ARMBASE + Len(pi.mem) <= Loader

(* The Pi only ever runs a whole, undamaged image some host was started     *)
(* with, and once a host has read BOOT_SUCCESS its own: whatever is reset,  *)
(* restarted or damaged, a Pi that runs a program and a host behind         *)
(* simple_boot agree on which.                                              *)
Agreement ==
  /\ pi.image = <<>> \/ \E p \in Images : pi.image = Code(p)
  /\ pi.image # <<>> /\ host.pc \notin {"get_info", "drain", "success"} \cup Stopped
       => pi.image = Code(host.image)
==============================================================================
