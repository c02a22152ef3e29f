---------------------------- MODULE Shell_proofs ----------------------------
(***************************************************************************)
(* Proofs about Shell, for all images and sizes, addresses and widths of   *)
(* an address, and any number of faults: what the Pi's boot loader copies  *)
(* stays below the boot loader, every variable keeps to its type, the Pi   *)
(* jumps only into whole images, and a shell that has come to its prompt   *)
(* runs its commands whatever hosts have been killed before it.  As long   *)
(* as restarts are clean, host and Pi agree on the image also after resets *)
(* and damage, only these make the shell die once simple_boot is over, and *)
(* DONE is the answer to the host's own job.                               *)
(*                                                                         *)
(* The first argument is about the line to the Pi.  A word is lost in it   *)
(* or damaged, and a restarted host may write behind the beginning of the  *)
(* message of its predecessor; but what stands where the Pi reads an       *)
(* address, behind PUT_PROG_INFO, is either the address a host has sent or *)
(* an opcode, and an opcode is beyond the boot loader.                     *)
(*                                                                         *)
(* The second is about checksums: none a host sends is 0, the checksum of  *)
(* what is no image, and none the Pi accepts is, unless it was damaged.    *)
(*                                                                         *)
(* The third is about sessions, Dialogue below.  No command is on the line *)
(* before a host has read ACK, and ACK is always the last on the line.  So *)
(* a host at its prompt has the server to itself; and after a command that *)
(* has outlived its host the next host waits for a Pi that does not ask,   *)
(* until the command was EXIT and the Pi is in its boot loader again.      *)
(*                                                                         *)
(* The fourth is about the checksum the Pi sends back, Sessions below: it  *)
(* is the answer to the host's own announcement, and that is the last one  *)
(* on the line, so the Pi takes no other until the host is started again.  *)
(*                                                                         *)
(* The fifth is about what follows that answer, Phase below: host and Pi   *)
(* go through the rest of the protocol together, and what is on both lines *)
(* is known, until the Pi is reset; then it is in its boot loader, which   *)
(* sends nothing but requests, strings and errors.                         *)
(***************************************************************************)
EXTENDS Shell, TLAPS

(* Arithmetic the provers are told.                                         *)
LEMMA SmallMod == ASSUME NEW x \in Nat, NEW w \in Nat, x < w PROVE x % w = x
OBVIOUS

LEMMA Half ==
  /\ Width \in Nat /\ ARMBASE \in Nat /\ Loader \in Nat
  /\ Width \div 2 \in Nat /\ 2 * (Width \div 2) <= Width
  /\ ARMBASE <= Loader /\ Loader <= Width \div 2 - 1 /\ Width \div 2 - 1 \in Nat
BY BootLoaderAssumption

------------------------------------------------------------------------------
(* The words on the line to the Pi.                                         *)
Opcodes == {"PUT_PROG_INFO", "PUT_CODE", "UNIX_READY", "EXIT", "LIST", "UPDATE", "RUN",
            "SEND_CODE", "junk"}

Kinds == {"addr", "nbytes", "crc", "code", "count", "id"}

Packet == [op : Opcodes \cup Kinds, v : Nat]

IsOp(w) == w.v = Width \div 2 - 1 /\ w.op \notin {"addr", "nbytes", "crc", "code", "count"}

(* What may be read as an address.                                          *)
AddrOrOp(w) == w = Item("addr", ARMBASE) \/ IsOp(w)

(* Behind PUT_PROG_INFO comes the address; where the message was cut, the   *)
(* opcode of the next, and behind that its address or another opcode.       *)
Framed(s) ==
  \A k \in 1 .. Len(s) : s[k].op = "PUT_PROG_INFO" =>
    /\ k + 1 <= Len(s) => AddrOrOp(s[k + 1])
    /\ k + 2 <= Len(s) /\ IsOp(s[k + 1]) => AddrOrOp(s[k + 2])

(* The line does not end with the beginning of such a message.              *)
Closed(s) == s # <<>> => s[Len(s)].op # "PUT_PROG_INFO"

------------------------------------------------------------------------------
(* Parts of the line.                                                       *)
LEMMA DropPart ==
  ASSUME NEW s \in Seq(Packet), NEW n \in 0 .. Len(s)
  PROVE  /\ Drop(s, n) \in Seq(Packet) /\ Len(Drop(s, n)) = Len(s) - n
         /\ \A k \in 1 .. Len(s) - n : Drop(s, n)[k] = s[k + n]
BY DEF Drop

LEMMA DropFramed ==
  ASSUME NEW s \in Seq(Packet), NEW n \in 0 .. Len(s), Framed(s)
  PROVE  Framed(Drop(s, n)) /\ (Closed(s) => Closed(Drop(s, n)))
<1> DEFINE t == Drop(s, n)
<1>1. /\ t \in Seq(Packet) /\ Len(t) = Len(s) - n /\ Len(s) \in Nat /\ n \in Nat /\ n <= Len(s)
      /\ \A k \in 1 .. Len(t) : t[k] = s[k + n]
  BY DropPart
<1> HIDE DEF t
<1>2. ASSUME NEW k \in 1 .. Len(t), t[k].op = "PUT_PROG_INFO"
      PROVE  /\ k + 1 <= Len(t) => AddrOrOp(t[k + 1])
             /\ k + 2 <= Len(t) /\ IsOp(t[k + 1]) => AddrOrOp(t[k + 2])
  <2>1. k + n \in 1 .. Len(s) /\ s[k + n].op = "PUT_PROG_INFO"
    BY <1>1, <1>2
  <2>2. /\ k + n + 1 <= Len(s) => AddrOrOp(s[k + n + 1])
        /\ k + n + 2 <= Len(s) /\ IsOp(s[k + n + 1]) => AddrOrOp(s[k + n + 2])
    BY <2>1 DEF Framed
  <2>3. k + 1 <= Len(t) => k + n + 1 <= Len(s) /\ t[k + 1] = s[k + n + 1]
    <3>1. k + 1 <= Len(t) => k + 1 \in 1 .. Len(t) /\ k + 1 + n = k + n + 1
      BY <1>1
    <3> QED
      BY <1>1, <3>1
  <2>4. k + 2 <= Len(t) => k + n + 2 <= Len(s) /\ t[k + 2] = s[k + n + 2] /\ k + 1 <= Len(t)
    <3>1. k + 2 <= Len(t) => k + 2 \in 1 .. Len(t) /\ k + 2 + n = k + n + 2
      BY <1>1
    <3> QED
      BY <1>1, <3>1
  <2> QED
    BY <2>2, <2>3, <2>4
<1>3. ASSUME Closed(s) PROVE Closed(t)
  <2>1. t # <<>> => Len(t) \in 1 .. Len(t) /\ Len(t) + n = Len(s) /\ s # <<>>
    BY <1>1
  <2> QED
    BY <1>1, <1>3, <2>1 DEF Closed
<1>4. Framed(t)
  BY <1>2 DEF Framed
<1> QED
  BY <1>3, <1>4 DEF t

LEMMA TailFramed ==
  ASSUME NEW s \in Seq(Packet), s # <<>>, Framed(s)
  PROVE  /\ Tail(s) \in Seq(Packet) /\ Framed(Tail(s))
         /\ Closed(s) => Closed(Tail(s))
<1>1. Tail(s) = Drop(s, 1) /\ 1 \in 0 .. Len(s)
  BY DEF Drop
<1> QED
  BY <1>1, DropPart, DropFramed

LEMMA CutFramed ==
  ASSUME NEW s \in Seq(Packet), NEW n \in 0 .. Len(s), Framed(s)
  PROVE  SubSeq(s, 1, n) \in Seq(Packet) /\ Framed(SubSeq(s, 1, n))
<1> DEFINE t == SubSeq(s, 1, n)
<1>1. /\ t \in Seq(Packet) /\ Len(t) = n /\ Len(s) \in Nat /\ n \in Nat /\ n <= Len(s)
      /\ \A k \in 1 .. n : t[k] = s[k]
  OBVIOUS
<1> HIDE DEF t
<1>2. \A k \in 1 .. n : k \in 1 .. Len(s) /\ (k + 1 <= n => k + 1 \in 1 .. n)
                        /\ (k + 2 <= n => k + 2 \in 1 .. n /\ k + 1 \in 1 .. n)
  BY <1>1
<1>3. Framed(t)
  BY <1>1, <1>2 DEF Framed
<1> QED
  BY <1>1, <1>3 DEF t

------------------------------------------------------------------------------
(* Messages behind the line.                                                *)
LEMMA Joined ==
  ASSUME NEW s \in Seq(Packet), NEW t \in Seq(Packet)
  PROVE  /\ s \o t \in Seq(Packet) /\ Len(s \o t) = Len(s) + Len(t)
         /\ \A k \in 1 .. Len(s) : (s \o t)[k] = s[k]
         /\ \A k \in 1 .. Len(t) : (s \o t)[Len(s) + k] = t[k]
OBVIOUS

(* What the host appends begins with an opcode.                             *)
LEMMA JoinFramed ==
  ASSUME NEW s \in Seq(Packet), NEW t \in Seq(Packet), Framed(s), Framed(t),
         t # <<>>, IsOp(t[1]), Closed(s) \/ Len(t) = 1 \/ AddrOrOp(t[2])
  PROVE  /\ s \o t \in Seq(Packet) /\ Framed(s \o t)
         /\ Closed(t) => Closed(s \o t)
<1> DEFINE u == s \o t
<1>1. /\ u \in Seq(Packet) /\ Len(u) = Len(s) + Len(t) /\ Len(s) \in Nat /\ Len(t) \in Nat
      /\ \A k \in 1 .. Len(s) : u[k] = s[k]
      /\ \A k \in 1 .. Len(t) : u[Len(s) + k] = t[k]
      /\ 1 <= Len(t)
  BY Joined
<1> HIDE DEF u
<1>2. ASSUME NEW k \in 1 .. Len(u), u[k].op = "PUT_PROG_INFO"
      PROVE  /\ k + 1 <= Len(u) => AddrOrOp(u[k + 1])
             /\ k + 2 <= Len(u) /\ IsOp(u[k + 1]) => AddrOrOp(u[k + 2])
  <2>1. CASE k + 2 <= Len(s)
    <3>1. k \in 1 .. Len(s) /\ k + 1 \in 1 .. Len(s) /\ k + 2 \in 1 .. Len(s)
      BY <1>1, <2>1
    <3> QED
      BY <1>1, <1>2, <3>1 DEF Framed
  <2>2. CASE k + 1 = Len(s)
    <3>1. k \in 1 .. Len(s) /\ k + 1 \in 1 .. Len(s) /\ k + 2 = Len(s) + 1 /\ 1 \in 1 .. Len(t)
      BY <1>1, <2>2
    <3>2. AddrOrOp(u[k + 1]) /\ u[k + 2] = t[1]
      BY <1>1, <1>2, <3>1 DEF Framed
    <3> QED
      BY <3>2 DEF AddrOrOp
  <2>3. CASE k = Len(s)
    <3>1. k \in 1 .. Len(s) /\ k + 1 = Len(s) + 1 /\ 1 \in 1 .. Len(t) /\ s # <<>>
      BY <1>1, <2>3
    <3>2. AddrOrOp(u[k + 1]) /\ ~ Closed(s)
      BY <1>1, <1>2, <2>3, <3>1 DEF AddrOrOp, Closed
    <3>3. k + 2 <= Len(u) => k + 2 = Len(s) + 2 /\ 2 \in 1 .. Len(t) /\ Len(t) # 1
      BY <1>1, <2>3
    <3>4. k + 2 <= Len(u) => AddrOrOp(u[k + 2])
      BY <1>1, <3>2, <3>3
    <3> QED
      BY <3>2, <3>4
  <2>4. CASE k > Len(s)
    <3>1. PICK j \in 1 .. Len(t) : k = Len(s) + j
      <4>1. k - Len(s) \in 1 .. Len(t) /\ k = Len(s) + (k - Len(s))
        BY <1>1, <2>4
      <4> QED
        BY <4>1
    <3>2. t[j].op = "PUT_PROG_INFO"
      BY <1>1, <1>2, <3>1
    <3>3. /\ k + 1 <= Len(u) => j + 1 \in 1 .. Len(t) /\ k + 1 = Len(s) + (j + 1)
          /\ k + 2 <= Len(u) => j + 2 \in 1 .. Len(t) /\ k + 2 = Len(s) + (j + 2)
                                /\ k + 1 <= Len(u)
      BY <1>1, <3>1
    <3>4. /\ j + 1 <= Len(t) => AddrOrOp(t[j + 1])
          /\ j + 2 <= Len(t) /\ IsOp(t[j + 1]) => AddrOrOp(t[j + 2])
      BY <3>2 DEF Framed
    <3>5. /\ k + 1 <= Len(u) => u[k + 1] = t[j + 1] /\ j + 1 <= Len(t)
          /\ k + 2 <= Len(u) => u[k + 2] = t[j + 2] /\ j + 2 <= Len(t)
      BY <1>1, <3>3
    <3> QED
      BY <3>3, <3>4, <3>5
  <2> QED
    BY <1>1, <2>1, <2>2, <2>3, <2>4
<1>3. Framed(u)
  BY <1>2 DEF Framed
<1>4. Closed(t) => Closed(u)
  <2>1. Len(t) \in 1 .. Len(t) /\ u[Len(u)] = t[Len(t)]
    BY <1>1
  <2> QED
    BY <2>1 DEF Closed
<1> QED
  BY <1>1, <1>3, <1>4 DEF u

LEMMA Assoc ==
  ASSUME NEW s \in Seq(Packet), NEW t \in Seq(Packet), NEW u \in Seq(Packet)
  PROVE  (s \o t) \o u = s \o (t \o u)
OBVIOUS

(* An opcode and what belongs to it, other than PUT_PROG_INFO.              *)
LEMMA Message ==
  ASSUME NEW s \in Seq(Packet), Framed(s), Closed(s),
         NEW t \in Seq(Packet), t # <<>>, IsOp(t[1]),
         \A k \in 1 .. Len(t) : t[k].op # "PUT_PROG_INFO"
  PROVE  s \o t \in Seq(Packet) /\ Framed(s \o t) /\ Closed(s \o t)
<1>1. Framed(t)
  BY DEF Framed
<1>2. Len(t) \in 1 .. Len(t)
  OBVIOUS
<1>3. Closed(t)
  BY <1>2 DEF Closed
<1> QED
  BY <1>1, <1>3, JoinFramed

LEMMA OpWord ==
  ASSUME NEW op \in Opcodes
  PROVE  Op(op) \in Packet /\ Op(op).op = op /\ IsOp(Op(op))
BY Half DEF Op, Item, Packet, IsOp, Opcodes

LEMMA OneOp ==
  ASSUME NEW s \in Seq(Packet), Framed(s), Closed(s), NEW op \in Opcodes,
         op # "PUT_PROG_INFO"
  PROVE  /\ Append(s, Op(op)) \in Seq(Packet) /\ Framed(Append(s, Op(op)))
         /\ Closed(Append(s, Op(op)))
<1> DEFINE t == <<Op(op)>>
<1>1. Op(op) \in Packet /\ Op(op).op = op /\ IsOp(Op(op))
  BY OpWord DEF Opcodes
<1>2. t \in Seq(Packet) /\ t # <<>> /\ Len(t) = 1 /\ t[1] = Op(op)
  BY <1>1
<1>3. \A k \in 1 .. Len(t) : k = 1
  BY <1>2
<1>4. Append(s, Op(op)) = s \o t
  BY <1>1
<1> HIDE DEF t
<1> QED
  BY <1>1, <1>2, <1>3, <1>4, Message

LEMMA CodeWords ==
  ASSUME NEW p \in Images
  PROVE  /\ CodeItems(p) \in Seq(Packet) /\ Len(CodeItems(p)) = Size[p] /\ Size[p] \in Nat
         /\ \A k \in 1 .. Size[p] : CodeItems(p)[k].op = "code"
<1>1. p \in Nat /\ Size[p] \in Nat
  BY BootLoaderAssumption
<1>2. Item("code", p) \in Packet /\ Item("code", p).op = "code"
  BY <1>1 DEF Item, Packet, Kinds
<1> QED
  BY <1>1, <1>2 DEF CodeItems

(* The code of an image behind its opcode.                                  *)
LEMMA CodeMessage ==
  ASSUME NEW s \in Seq(Packet), Framed(s), Closed(s), NEW p \in Images,
         NEW op \in {"PUT_CODE", "SEND_CODE"}
  PROVE  LET u == s \o <<Op(op)>> \o CodeItems(p)
         IN  u \in Seq(Packet) /\ Framed(u) /\ Closed(u)
<1> DEFINE a == <<Op(op)>>
           c == CodeItems(p)
<1>1. Op(op) \in Packet /\ Op(op).op = op /\ IsOp(Op(op))
  BY OpWord DEF Opcodes
<1>2. a \in Seq(Packet) /\ Len(a) = 1 /\ a[1] = Op(op)
  BY <1>1
<1>3. /\ c \in Seq(Packet) /\ Len(c) \in Nat
      /\ \A k \in 1 .. Len(c) : c[k].op = "code"
  BY CodeWords
<1> HIDE DEF a, c
<1>4. /\ a \o c \in Seq(Packet) /\ Len(a \o c) = Len(a) + Len(c)
      /\ \A k \in 1 .. Len(a) : (a \o c)[k] = a[k]
      /\ \A k \in 1 .. Len(c) : (a \o c)[Len(a) + k] = c[k]
  BY <1>2, <1>3, Joined
<1>5. a \o c # <<>> /\ (a \o c)[1] = Op(op)
  BY <1>2, <1>3, <1>4
<1>6. ASSUME NEW k \in 1 .. Len(a \o c) PROVE (a \o c)[k].op # "PUT_PROG_INFO"
  <2>1. CASE k = 1
    BY <1>1, <1>5, <2>1
  <2>2. CASE k # 1
    <3>1. k - 1 \in 1 .. Len(c) /\ Len(a) + (k - 1) = k
      BY <1>2, <1>3, <1>4, <2>2
    <3>2. (a \o c)[k] = c[k - 1]
      BY <1>4, <3>1
    <3> QED
      BY <1>3, <3>1, <3>2
  <2> QED
    BY <2>1, <2>2
<1>7. (s \o a) \o c = s \o (a \o c)
  BY <1>2, <1>3, Assoc
<1>8. LET u == s \o (a \o c) IN u \in Seq(Packet) /\ Framed(u) /\ Closed(u)
  BY <1>1, <1>4, <1>5, <1>6, Message
<1> QED
  BY <1>7, <1>8 DEF a, c

(* The arguments of RUN.                                                    *)
LEMMA RunMessage ==
  ASSUME NEW s \in Seq(Packet), Framed(s), Closed(s), NEW job \in Jobs, NEW n \in Clients
  PROVE  LET u == s \o <<Op("RUN"), Item("nbytes", Size[job]), Item("crc", job),
                         Item("count", n)>> \o [k \in 1 .. n |-> Item("id", k)]
         IN  u \in Seq(Packet) /\ Framed(u) /\ Closed(u)
<1> DEFINE a == <<Op("RUN"), Item("nbytes", Size[job]), Item("crc", job), Item("count", n)>>
           c == [k \in 1 .. n |-> Item("id", k)]
<1>1. Op("RUN") \in Packet /\ Op("RUN").op = "RUN" /\ IsOp(Op("RUN"))
  BY OpWord DEF Opcodes
<1>2. job \in Images /\ job \in Nat /\ Size[job] \in Nat /\ n \in Nat
  BY BootLoaderAssumption, ShellAssumption
<1>3. /\ Item("nbytes", Size[job]) \in Packet /\ Item("nbytes", Size[job]).op = "nbytes"
      /\ Item("crc", job) \in Packet /\ Item("crc", job).op = "crc"
      /\ Item("count", n) \in Packet /\ Item("count", n).op = "count"
      /\ \A k \in 1 .. n : Item("id", k) \in Packet /\ Item("id", k).op = "id"
  BY <1>2 DEF Item, Packet, Kinds
<1>4. a \in Seq(Packet) /\ Len(a) = 4 /\ a[1] = Op("RUN")
  BY <1>1, <1>3
<1>5. \A k \in 1 .. 4 : a[k].op # "PUT_PROG_INFO"
  <2>1. \A k \in 1 .. 4 : k = 1 \/ k = 2 \/ k = 3 \/ k = 4
    OBVIOUS
  <2>2. /\ a[2] = Item("nbytes", Size[job]) /\ a[3] = Item("crc", job)
        /\ a[4] = Item("count", n)
    OBVIOUS
  <2> QED
    BY <1>1, <1>3, <1>4, <2>1, <2>2
<1>6. c \in Seq(Packet) /\ Len(c) = n /\ \A k \in 1 .. n : c[k].op = "id"
  BY <1>2, <1>3
<1> HIDE DEF a, c
<1>7. /\ a \o c \in Seq(Packet) /\ Len(a \o c) = Len(a) + Len(c)
      /\ \A k \in 1 .. Len(a) : (a \o c)[k] = a[k]
      /\ \A k \in 1 .. Len(c) : (a \o c)[Len(a) + k] = c[k]
  BY <1>4, <1>6, Joined
<1>8. a \o c # <<>> /\ (a \o c)[1] = Op("RUN")
  BY <1>2, <1>4, <1>6, <1>7
<1>9. ASSUME NEW k \in 1 .. Len(a \o c) PROVE (a \o c)[k].op # "PUT_PROG_INFO"
  <2>1. CASE k \in 1 .. 4
    BY <1>4, <1>5, <1>7, <2>1
  <2>2. CASE k \notin 1 .. 4
    <3>1. k - 4 \in 1 .. Len(c) /\ Len(a) + (k - 4) = k
      BY <1>2, <1>4, <1>6, <1>7, <2>2
    <3>2. (a \o c)[k] = c[k - 4]
      BY <1>7, <3>1
    <3> QED
      BY <1>6, <3>1, <3>2
  <2> QED
    BY <2>1, <2>2
<1>10. (s \o a) \o c = s \o (a \o c)
  BY <1>4, <1>6, Assoc
<1>11. LET u == s \o (a \o c) IN u \in Seq(Packet) /\ Framed(u) /\ Closed(u)
  BY <1>1, <1>7, <1>8, <1>9, Message
<1> QED
  BY <1>10, <1>11 DEF a, c

(* The answer to GET_PROG_INFO, which may follow the beginning of another.  *)
LEMMA InfoMessage ==
  ASSUME NEW s \in Seq(Packet), Framed(s), NEW p \in Images
  PROVE  LET u == s \o <<Op("PUT_PROG_INFO"), Item("addr", ARMBASE),
                         Item("nbytes", Size[p]), Item("crc", p)>>
         IN  u \in Seq(Packet) /\ Framed(u) /\ Closed(u)
<1> DEFINE t == <<Op("PUT_PROG_INFO"), Item("addr", ARMBASE),
                  Item("nbytes", Size[p]), Item("crc", p)>>
<1>1. /\ Op("PUT_PROG_INFO") \in Packet /\ Op("PUT_PROG_INFO").op = "PUT_PROG_INFO"
      /\ IsOp(Op("PUT_PROG_INFO"))
  BY OpWord DEF Opcodes
<1>2. p \in Nat /\ Size[p] \in Nat
  BY BootLoaderAssumption
<1>3. /\ Item("addr", ARMBASE) \in Packet /\ Item("addr", ARMBASE).op = "addr"
      /\ Item("nbytes", Size[p]) \in Packet /\ Item("nbytes", Size[p]).op = "nbytes"
      /\ Item("crc", p) \in Packet /\ Item("crc", p).op = "crc"
  BY <1>2, Half DEF Item, Packet, Kinds
<1>4. /\ t \in Seq(Packet) /\ Len(t) = 4 /\ t # <<>>
      /\ t[1] = Op("PUT_PROG_INFO") /\ t[2] = Item("addr", ARMBASE)
      /\ t[3] = Item("nbytes", Size[p]) /\ t[4] = Item("crc", p)
  BY <1>1, <1>3
<1> HIDE DEF t
<1>5. AddrOrOp(t[2]) /\ ~ IsOp(t[2])
  BY <1>3, <1>4 DEF AddrOrOp, IsOp
<1>6. \A k \in 1 .. Len(t) : t[k].op = "PUT_PROG_INFO" => k = 1
  <2>1. \A k \in 1 .. Len(t) : k = 1 \/ k = 2 \/ k = 3 \/ k = 4
    BY <1>4
  <2> QED
    BY <1>3, <1>4, <2>1
<1>7. Framed(t)
  BY <1>5, <1>6 DEF Framed
<1>8. Closed(t)
  BY <1>3, <1>4 DEF Closed
<1>9. LET u == s \o t IN u \in Seq(Packet) /\ Framed(u) /\ Closed(u)
  BY <1>1, <1>4, <1>5, <1>7, <1>8, JoinFramed
<1> QED
  BY <1>9 DEF t

(* A damaged word.                                                          *)
LEMMA FlipFramed ==
  ASSUME NEW s \in Seq(Packet), Framed(s), NEW k \in DOMAIN s, NEW v \in Garbles,
         s[k].op # "addr"
  PROVE  LET t == [s EXCEPT ![k] = Garbled(@, v)]
         IN  t \in Seq(Packet) /\ Framed(t) /\ (Closed(s) => Closed(t))
<1> DEFINE t == [s EXCEPT ![k] = Garbled(@, v)]
<1>1. v \in Nat /\ s[k] \in Packet /\ DOMAIN s = 1 .. Len(s) /\ Len(s) \in Nat
  BY BootLoaderAssumption
<1>2. /\ Garbled(s[k], v) \in Packet /\ Garbled(s[k], v).op # "PUT_PROG_INFO"
      /\ s[k].op \notin {"nbytes", "crc", "code", "count"} => IsOp(Garbled(s[k], v))
  <2>1. CASE s[k].op \in {"nbytes", "crc", "code", "count"}
    <3>1. Garbled(s[k], v) = Item(s[k].op, v)
      BY <2>1 DEF Garbled
    <3> QED
      BY <1>1, <2>1, <3>1 DEF Item, Packet, Kinds
  <2>2. CASE s[k].op \notin {"nbytes", "crc", "code", "count"}
    <3>1. Garbled(s[k], v) = Op("junk")
      BY <2>2 DEF Garbled
    <3> QED
      BY <3>1, OpWord DEF Opcodes
  <2> QED
    BY <2>1, <2>2
<1>3. /\ t \in Seq(Packet) /\ Len(t) = Len(s) /\ t[k] = Garbled(s[k], v)
      /\ \A j \in 1 .. Len(s) : j # k => t[j] = s[j]
  BY <1>1, <1>2
<1> HIDE DEF t
<1>4. ASSUME NEW j \in 1 .. Len(s)
      PROVE  /\ t[j].op = "PUT_PROG_INFO" => s[j].op = "PUT_PROG_INFO"
             /\ AddrOrOp(s[j]) => AddrOrOp(t[j]) /\ (IsOp(t[j]) => IsOp(s[j]))
  <2>1. CASE j = k
    <3>1. AddrOrOp(s[k]) => IsOp(s[k])
      BY <1>1 DEF AddrOrOp, Item
    <3> QED
      BY <1>2, <1>3, <2>1, <3>1 DEF AddrOrOp, IsOp
  <2>2. CASE j # k
    BY <1>3, <2>2
  <2> QED
    BY <2>1, <2>2
<1>5. \A j \in 1 .. Len(s) :
        /\ j + 1 <= Len(s) => j + 1 \in 1 .. Len(s)
        /\ j + 2 <= Len(s) => (j + 2 \in 1 .. Len(s) /\ j + 1 <= Len(s))
  BY <1>1
<1>6. Framed(t)
  BY <1>3, <1>4, <1>5 DEF Framed
<1>7. Closed(s) => Closed(t)
  <2>1. s # <<>> /\ Len(s) \in 1 .. Len(s)
    BY <1>1
  <2> QED
    BY <1>3, <1>4, <2>1 DEF Closed
<1> QED
  BY <1>3, <1>6, <1>7 DEF t

------------------------------------------------------------------------------
(* A host in one of these states has answered GET_PROG_INFO.                *)
Answering == {"drain", "success", "sync", "ack", "prompt", "echo", "got", "done"}

HostType == [pc : HostPcs, image : Images]

CmdType == [job : Jobs \cup {NoJob}, clients : Clients \cup {0}, count : 0 .. MaxCommands]

(* A host that has answered leaves no beginning of an answer on the line;   *)
(* only one that is restarted meets one.                                    *)
LineOK ==
  /\ host \in HostType
  /\ cmd \in CmdType /\ (host.pc = "echo" => cmd.job \in Jobs)
  /\ toPi \in Seq(Packet) /\ Framed(toPi)
  /\ host.pc \in Answering => Closed(toPi)

PiType == [pc : PiPcs, nbytes : Nat, crc : Nat, mem : Seq(Nat), image : Seq(Nat)]

(* A size that has been accepted keeps below the boot loader, or wraps.     *)
PiOK ==
  /\ pi \in PiType
  /\ pi.pc \in {"down", "ask", "wait", "info", "code"} => pi.mem = <<>>
  /\ pi.pc \in {"code", "copy"} =>
       /\ Len(pi.mem) <= pi.nbytes
       /\ ARMBASE + pi.nbytes < Width => ARMBASE + pi.nbytes < Loader

LoadInv == LineOK /\ PiOK

LEMMA EmptySeq == ASSUME NEW S PROVE <<>> \in Seq(S) /\ Len(<<>>) = 0
OBVIOUS

LEMMA RebootingOK ==
  /\ Rebooting \in PiType /\ Rebooting.pc = "down" /\ Rebooting.mem = <<>>
  /\ [Rebooting EXCEPT !.pc = "ask"] \in PiType
  /\ [Rebooting EXCEPT !.pc = "ask"].pc = "ask" /\ [Rebooting EXCEPT !.pc = "ask"].mem = <<>>
BY EmptySeq DEF Rebooting, PiType, PiPcs

LEMMA InitLoad == ShellInit => LoadInv
<1> SUFFICES ASSUME ShellInit PROVE LoadInv
  OBVIOUS
<1>1. host \in HostType /\ host.pc = "get_info"
  BY DEF ShellInit, Init, HostType, HostPcs
<1>2. cmd \in CmdType
  BY ShellAssumption DEF ShellInit, CmdType
<1>3. toPi = <<>> /\ toPi \in Seq(Packet) /\ Len(toPi) = 0
  BY EmptySeq DEF ShellInit, Init
<1>4. Framed(toPi) /\ Closed(toPi)
  BY <1>3 DEF Framed, Closed
<1>5. PiOK
  BY RebootingOK DEF ShellInit, Init, PiOK
<1> QED
  BY <1>1, <1>2, <1>3, <1>4, <1>5 DEF LoadInv, LineOK

------------------------------------------------------------------------------
(* What the Pi does leaves a rest of the line.                              *)
LEMMA LineKept ==
  ASSUME LineOK, UNCHANGED <<host, cmd, toPi>>
  PROVE  LineOK'
BY DEF LineOK

LEMMA LineDropped ==
  ASSUME LineOK, UNCHANGED <<host, cmd>>, NEW n \in 0 .. Len(toPi), toPi' = Drop(toPi, n)
  PROVE  LineOK'
<1>1. toPi \in Seq(Packet) /\ Framed(toPi)
  BY DEF LineOK
<1>2. toPi' \in Seq(Packet) /\ Framed(toPi') /\ (Closed(toPi) => Closed(toPi'))
  BY <1>1, DropPart, DropFramed
<1> QED
  BY <1>2 DEF LineOK

LEMMA LineTail ==
  ASSUME LineOK, UNCHANGED <<host, cmd>>, toPi # <<>>, toPi' = Tail(toPi)
  PROVE  LineOK'
<1>1. toPi \in Seq(Packet) /\ Framed(toPi)
  BY DEF LineOK
<1>2. toPi' \in Seq(Packet) /\ Framed(toPi') /\ (Closed(toPi) => Closed(toPi'))
  BY <1>1, TailFramed
<1> QED
  BY <1>2 DEF LineOK

(* The host goes on without writing.                                        *)
LEMMA HostMoves ==
  ASSUME LineOK, UNCHANGED <<cmd, toPi>>, NEW next \in HostPcs, HostTo(next),
         host.pc \in Answering \/ next = "dead", next # "echo"
  PROVE  LineOK'
<1>1. host' \in HostType /\ host'.pc = next
  BY DEF HostTo, LineOK, HostType
<1> QED
  BY <1>1 DEF LineOK, Answering

(* The host goes on with a message.                                         *)
LEMMA HostWrites ==
  ASSUME LineOK, host' \in HostType, cmd' \in CmdType, host'.pc = "echo" => cmd'.job \in Jobs,
         toPi' \in Seq(Packet), Framed(toPi'), Closed(toPi')
  PROVE  LineOK'
BY DEF LineOK

------------------------------------------------------------------------------
(* How steps change the Pi.                                                 *)
LEMMA PiKept == ASSUME PiOK, UNCHANGED pi PROVE PiOK'
BY DEF PiOK

LEMMA PiReboots == ASSUME pi' = Rebooting PROVE PiOK'
BY RebootingOK DEF PiOK

(* The Pi goes on, outside of the steps that matter here.                   *)
LEMMA PiGoes ==
  ASSUME PiOK, NEW next \in PiPcs, pi' = [pi EXCEPT !.pc = next],
         next \in {"code", "copy"} => pi.pc = "code",
         next \in {"ask", "wait", "info"} => pi.mem = <<>>, next \notin {"down", "code"}
  PROVE  PiOK'
<1>1. pi' \in PiType /\ pi'.pc = next /\ pi'.mem = pi.mem /\ pi'.nbytes = pi.nbytes
  BY DEF PiOK, PiType
<1> QED
  BY <1>1 DEF PiOK

(* The size the Pi accepts for the address it is given.                     *)
LEMMA Accepted ==
  ASSUME LineOK, Next32("PUT_PROG_INFO"), Len(toPi) >= 4,
         ~ Collides(toPi[2].v, toPi[3].v)
  PROVE  /\ toPi[3].v \in Nat /\ toPi[4].v \in Nat
         /\ ARMBASE + toPi[3].v < Width => ARMBASE + toPi[3].v < Loader
<1> DEFINE a == toPi[2].v
           n == toPi[3].v
<1>1. toPi \in Seq(Packet) /\ Framed(toPi)
  BY DEF LineOK
<1>2. 1 \in 1 .. Len(toPi) /\ 2 \in 1 .. Len(toPi) /\ 3 \in 1 .. Len(toPi) /\ 4 \in 1 .. Len(toPi)
  BY <1>1
<1>3. toPi[2] \in Packet /\ toPi[3] \in Packet /\ toPi[4] \in Packet
  BY <1>1, <1>2
<1>4. a \in Nat /\ n \in Nat /\ toPi[4].v \in Nat
  BY <1>3 DEF Packet
<1>5. toPi[1].op = "PUT_PROG_INFO"
  BY <1>1, <1>2 DEF Next32
<1>6. AddrOrOp(toPi[2]) /\ (IsOp(toPi[2]) => AddrOrOp(toPi[3]))
  BY <1>1, <1>2, <1>5 DEF Framed
<1>7. a >= ARMBASE /\ (a + n) % Width < Loader
  <2>1. (a + n) % Width \in Int
    BY <1>4, Half
  <2> QED
    BY <1>4, <2>1, Half DEF Collides
<1>8. a = ARMBASE \/ a = Width \div 2 - 1
  BY <1>6 DEF AddrOrOp, IsOp, Item
<1>9. ASSUME a # ARMBASE PROVE FALSE
  <2>1. IsOp(toPi[2]) /\ a = Width \div 2 - 1
    BY <1>6, <1>8, <1>9 DEF AddrOrOp, Item
  <2>2. n = ARMBASE \/ n = Width \div 2 - 1
    BY <1>6, <2>1 DEF AddrOrOp, IsOp, Item
  <2> DEFINE h == Width \div 2
  <2>3. h \in Nat /\ 2 * h <= Width /\ a = h - 1 /\ n <= h - 1 /\ Loader <= h - 1
    BY <2>1, <2>2, Half
  <2> HIDE DEF h, a, n
  <2>4. a + n \in Nat /\ a + n < Width /\ a + n >= Loader
    BY <1>4, <2>3, Half
  <2>5. (a + n) % Width = a + n
    BY <2>4, Half, SmallMod
  <2> QED
    BY <1>7, <2>4, <2>5, Half
<1>10. ASSUME a = ARMBASE, ARMBASE + n < Width PROVE ARMBASE + n < Loader
  <2> HIDE DEF a, n
  <2>1. ARMBASE + n \in Nat
    BY <1>4, Half
  <2>2. (ARMBASE + n) % Width = ARMBASE + n
    BY <1>10, <2>1, Half, SmallMod
  <2> QED
    BY <1>7, <1>10, <2>2
<1> QED
  BY <1>4, <1>9, <1>10

LEMMA JoinedNat ==
  ASSUME NEW s \in Seq(Nat), NEW t \in Seq(Nat)
  PROVE  s \o t \in Seq(Nat) /\ Len(s \o t) = Len(s) + Len(t)
OBVIOUS

(* What is copied is no more than what was announced.                       *)
LEMMA Copied ==
  ASSUME LineOK, PiOK, CopyWords
  PROVE  /\ pi' \in PiType /\ pi'.pc = pi.pc /\ pi'.nbytes = pi.nbytes
         /\ Len(pi'.mem) <= pi.nbytes
         /\ \E n \in 0 .. Len(toPi) : toPi' = Drop(toPi, n)
<1> DEFINE n == IF Len(toPi) < pi.nbytes - Len(pi.mem) THEN Len(toPi)
                ELSE pi.nbytes - Len(pi.mem)
           t == [k \in 1 .. n |-> toPi[k].v]
<1>1. toPi \in Seq(Packet) /\ pi \in PiType
  BY DEF LineOK, PiOK
<1>2. pi.nbytes \in Nat /\ pi.mem \in Seq(Nat) /\ Len(pi.mem) \in Nat /\ Len(toPi) \in Nat
  BY <1>1 DEF PiType
<1>3. n > 0 /\ pi' = [pi EXCEPT !.mem = @ \o t] /\ toPi' = Drop(toPi, n)
  BY DEF CopyWords
<1>4. n \in 0 .. Len(toPi) /\ n \in Nat /\ n <= pi.nbytes - Len(pi.mem)
  BY <1>2, <1>3
<1> HIDE DEF n
<1>5. \A k \in 1 .. n : toPi[k].v \in Nat
  <2>1. \A k \in 1 .. n : k \in 1 .. Len(toPi)
    BY <1>2, <1>4
  <2>2. \A k \in 1 .. n : toPi[k] \in Packet
    BY <1>1, <2>1
  <2> QED
    BY <2>2 DEF Packet
<1>6. t \in Seq(Nat) /\ Len(t) = n
  BY <1>4, <1>5
<1> HIDE DEF t
<1>7. pi.mem \o t \in Seq(Nat) /\ Len(pi.mem \o t) = Len(pi.mem) + n
  BY <1>2, <1>6, JoinedNat
<1>8. pi' = [pi EXCEPT !.mem = pi.mem \o t]
  BY <1>1, <1>3
<1>9. /\ pi' \in PiType /\ pi'.pc = pi.pc /\ pi'.nbytes = pi.nbytes
      /\ pi'.mem = pi.mem \o t
  BY <1>1, <1>7, <1>8 DEF PiType
<1> QED
  BY <1>2, <1>3, <1>4, <1>7, <1>9

------------------------------------------------------------------------------
(* The steps.                                                               *)
LEMMA HostKeeps ==
  ASSUME LineOK, PiOK, HostStep
  PROVE  LineOK' /\ PiOK'
<1>0. host \in HostType /\ cmd \in CmdType /\ toPi \in Seq(Packet) /\ Framed(toPi)
      /\ (host.pc \in Answering => Closed(toPi)) /\ (host.pc = "echo" => cmd.job \in Jobs)
  BY DEF LineOK
<1>1. ASSUME UNCHANGED pi, UNCHANGED <<host, cmd, toPi>> PROVE LineOK' /\ PiOK'
  BY <1>1, LineKept, PiKept
<1>2. ASSUME UNCHANGED pi, UNCHANGED <<cmd, toPi>>, NEW next \in HostPcs, HostTo(next),
             host.pc \in Answering \/ next = "dead", next # "echo"
      PROVE  LineOK' /\ PiOK'
  BY <1>2, HostMoves, PiKept
<1>3. CASE get_op_string /\ Keep
  BY <1>1, <1>3 DEF get_op_string, Keep
<1>4. CASE Discard /\ Keep
  BY <1>1, <1>4 DEF Discard, Keep
<1>5. CASE ReplyInfo /\ Keep
  <2>1. /\ host' = [host EXCEPT !.pc = "drain"] /\ UNCHANGED <<pi, cmd>>
        /\ toPi' = toPi \o <<Op("PUT_PROG_INFO"), Item("addr", ARMBASE),
                             Item("nbytes", Size[host.image]), Item("crc", host.image)>>
    BY <1>5 DEF ReplyInfo, HostTo, Keep
  <2>2. host' \in HostType /\ host'.pc = "drain" /\ host.image \in Images
    BY <1>0, <2>1 DEF HostType, HostPcs
  <2>3. toPi' \in Seq(Packet) /\ Framed(toPi') /\ Closed(toPi')
    BY <1>0, <2>1, <2>2, InfoMessage
  <2>4. LineOK'
    BY <1>0, <2>1, <2>2, <2>3, HostWrites
  <2> QED
    BY <2>1, <2>4, PiKept
<1>6. CASE Drain /\ Keep
  BY <1>1, <1>6 DEF Drain, Keep
<1>7. CASE SendCode /\ Keep
  <2>1. /\ host.pc = "drain" /\ host' = [host EXCEPT !.pc = "success"] /\ UNCHANGED <<pi, cmd>>
        /\ toPi' = toPi \o <<Op("PUT_CODE")>> \o CodeItems(host.image)
    BY <1>7 DEF SendCode, HostAt, HostTo, Keep
  <2>2. host' \in HostType /\ host'.pc = "success" /\ host.image \in Images
    BY <1>0, <2>1 DEF HostType, HostPcs
  <2>3. Closed(toPi)
    BY <1>0, <2>1 DEF Answering
  <2>4. toPi' \in Seq(Packet) /\ Framed(toPi') /\ Closed(toPi')
    BY <1>0, <2>1, <2>2, <2>3, CodeMessage
  <2>5. LineOK'
    BY <1>0, <2>1, <2>2, <2>4, HostWrites
  <2> QED
    BY <2>1, <2>5, PiKept
<1>8. CASE Success /\ Keep
  BY <1>2, <1>8 DEF Success, HostAt, Keep, HostPcs, Answering
<1>9. CASE (Mismatch \/ BootTimeout(PiWaits)) /\ Keep
  <2>1. HostTo("dead") /\ UNCHANGED <<pi, toPi, cmd>>
    BY <1>9 DEF Mismatch, BootTimeout, Die, Keep
  <2> QED
    BY <1>2, <2>1 DEF HostPcs
<1>10. CASE SyncDiscard
  BY <1>1, <1>10 DEF SyncDiscard, Keep
<1>11. CASE SyncReady
  <2>1. /\ host.pc = "sync" /\ host' = [host EXCEPT !.pc = "ack"] /\ UNCHANGED <<pi, cmd>>
        /\ toPi' = Append(toPi, Op("UNIX_READY"))
    BY <1>11 DEF SyncReady, HostReads, HostAt, HostTo, Keep
  <2>2. host' \in HostType /\ host'.pc = "ack"
    BY <1>0, <2>1 DEF HostType, HostPcs
  <2>3. Closed(toPi)
    BY <1>0, <2>1 DEF Answering
  <2>4. toPi' \in Seq(Packet) /\ Framed(toPi') /\ Closed(toPi')
    BY <1>0, <2>1, <2>3, OneOp DEF Opcodes
  <2>5. LineOK'
    BY <1>0, <2>1, <2>2, <2>4, HostWrites
  <2> QED
    BY <2>1, <2>5, PiKept
<1>12. CASE SyncDrain \/ SyncAck
  <2>1. /\ host.pc = "ack" /\ UNCHANGED <<pi, toPi, cmd>>
        /\ HostTo("ack") \/ HostTo("prompt")
    BY <1>12 DEF SyncDrain, SyncAck, HostReads, HostAt, Keep
  <2> QED
    BY <1>2, <2>1 DEF HostPcs, Answering
<1>13. CASE SendJob
  <2>1. /\ host.pc = "echo" /\ host' = [host EXCEPT !.pc = "got"] /\ UNCHANGED <<pi, cmd>>
        /\ toPi' = toPi \o <<Op("SEND_CODE")>> \o CodeItems(cmd.job)
    BY <1>13 DEF SendJob, HostAt, HostTo, Keep
  <2>2. host' \in HostType /\ host'.pc = "got" /\ cmd.job \in Images
    BY <1>0, <2>1, ShellAssumption DEF HostType, HostPcs
  <2>3. Closed(toPi)
    BY <1>0, <2>1 DEF Answering
  <2>4. toPi' \in Seq(Packet) /\ Framed(toPi') /\ Closed(toPi')
    BY <1>0, <2>1, <2>2, <2>3, CodeMessage
  <2>5. LineOK'
    BY <1>0, <2>1, <2>2, <2>4, HostWrites
  <2> QED
    BY <2>1, <2>5, PiKept
<1>14. CASE CodeGot \/ JobDone
  <2>1. /\ host.pc \in {"got", "done"} /\ UNCHANGED <<pi, toPi, cmd>>
        /\ HostTo("done") \/ HostTo("prompt")
    BY <1>14 DEF CodeGot, JobDone, HostReads, HostAt, Keep
  <2> QED
    BY <1>2, <2>1 DEF HostPcs, Answering
<1>15. CASE ShellMismatch \/ ShellTimeout(PiWaits)
  <2>1. HostTo("dead") /\ UNCHANGED <<pi, toPi, cmd>>
    BY <1>15 DEF ShellMismatch, ShellTimeout, Die, Keep
  <2> QED
    BY <1>2, <2>1 DEF HostPcs
<1> QED
  BY <1>3, <1>4, <1>5, <1>6, <1>7, <1>8, <1>9, <1>10, <1>11, <1>12, <1>13, <1>14, <1>15
  DEF HostStep, simple_boot

LEMMA UserKeeps ==
  ASSUME LineOK, PiOK, UserStep
  PROVE  LineOK' /\ PiOK'
<1>0. host \in HostType /\ cmd \in CmdType /\ toPi \in Seq(Packet) /\ Framed(toPi)
      /\ (host.pc \in Answering => Closed(toPi))
  BY DEF LineOK
<1>1. Command
  BY DEF UserStep, ExitCommand, OtherCommand, RunCommand
<1>2. Closed(toPi) /\ UNCHANGED pi /\ host.pc = "prompt" /\ cmd.count + 1 \in 0 .. MaxCommands
  BY <1>0, <1>1, ShellAssumption DEF Command, HostAt, Answering, CmdType
<1>3. CASE ExitCommand \/ OtherCommand
  <2>1. /\ host' = [host EXCEPT !.pc = "exit"] \/ UNCHANGED host
        /\ cmd' = [cmd EXCEPT !.job = NoJob, !.count = cmd.count + 1]
        /\ \E op \in {"EXIT", "LIST", "UPDATE"} : toPi' = Append(toPi, Op(op))
    BY <1>0, <1>3 DEF ExitCommand, OtherCommand, HostTo, CmdType
  <2>2. host' \in HostType /\ host'.pc # "echo"
    BY <1>0, <1>2, <2>1 DEF HostType, HostPcs
  <2>3. cmd' \in CmdType
    BY <1>0, <1>2, <2>1 DEF CmdType
  <2>4. toPi' \in Seq(Packet) /\ Framed(toPi') /\ Closed(toPi')
    BY <1>0, <1>2, <2>1, OneOp DEF Opcodes
  <2> QED
    BY <1>2, <2>2, <2>3, <2>4, HostWrites, PiKept
<1>4. ASSUME NEW job \in Jobs, NEW n \in Clients, RunCommand(job, n) PROVE LineOK' /\ PiOK'
  <2>1. /\ host' = [host EXCEPT !.pc = "echo"]
        /\ cmd' = [job |-> job, clients |-> n, count |-> cmd.count + 1]
        /\ toPi' = toPi \o <<Op("RUN"), Item("nbytes", Size[job]), Item("crc", job),
                             Item("count", n)>> \o [k \in 1 .. n |-> Item("id", k)]
    BY <1>4 DEF RunCommand, HostTo
  <2>2. host' \in HostType
    BY <1>0, <2>1 DEF HostType, HostPcs
  <2>3. cmd' \in CmdType /\ cmd'.job \in Jobs
    BY <1>2, <2>1 DEF CmdType
  <2>4. toPi' \in Seq(Packet) /\ Framed(toPi') /\ Closed(toPi')
    BY <1>0, <1>2, <2>1, RunMessage
  <2> QED
    BY <1>2, <2>2, <2>3, <2>4, HostWrites, PiKept
<1> QED
  BY <1>3, <1>4 DEF UserStep

LEMMA FaultKeeps ==
  ASSUME LineOK, PiOK, Reset \/ Restart \/ Flip, Keep
  PROVE  LineOK' /\ PiOK'
<1>0. host \in HostType /\ cmd \in CmdType /\ toPi \in Seq(Packet) /\ Framed(toPi)
  BY DEF LineOK
<1>1. CASE Reset
  BY <1>1, LineKept, PiReboots DEF Reset, Keep
<1>2. CASE Restart
  <2>1. PICK p \in Images : host' = [host EXCEPT !.pc = "get_info", !.image = p]
    BY <1>2 DEF Restart
  <2>2. PICK k \in 0 .. Len(toPi) : toPi' = SubSeq(toPi, 1, k)
    BY <1>2 DEF Restart
  <2>3. host' \in HostType /\ host'.pc = "get_info"
    BY <1>0, <2>1 DEF HostType, HostPcs
  <2>4. toPi' \in Seq(Packet) /\ Framed(toPi')
    BY <1>0, <2>2, CutFramed
  <2>5. LineOK'
    BY <1>0, <2>3, <2>4 DEF LineOK, Keep, Answering
  <2> QED
    BY <1>2, <2>5, PiKept DEF Restart
<1>3. CASE Flip
  <2>1. PICK k \in DOMAIN toPi, v \in Garbles :
          toPi[k].op # "addr" /\ toPi' = [toPi EXCEPT ![k] = Garbled(@, v)]
    BY <1>3 DEF Flip
  <2>2. toPi' \in Seq(Packet) /\ Framed(toPi') /\ (Closed(toPi) => Closed(toPi'))
    BY <1>0, <2>1, FlipFramed
  <2>3. UNCHANGED <<host, pi, cmd>>
    BY <1>3 DEF Flip, Keep
  <2>4. LineOK'
    BY <2>2, <2>3 DEF LineOK
  <2> QED
    BY <2>3, <2>4, PiKept
<1> QED
  BY <1>1, <1>2, <1>3

LEMMA PiStepKeeps ==
  ASSUME LineOK, PiOK, PiStep \/ PiRepeats
  PROVE  LineOK' /\ PiOK'
<1>0. pi \in PiType /\ toPi \in Seq(Packet) /\ Len(toPi) \in Nat
  BY DEF LineOK, PiOK
(* The three ways the line is left, and the two ways the Pi goes on.        *)
<1> DEFINE Left == \/ toPi' = toPi
                   \/ toPi # <<>> /\ toPi' = Tail(toPi)
                   \/ \E n \in 0 .. Len(toPi) : toPi' = Drop(toPi, n)
           To(next) == pi' = [pi EXCEPT !.pc = next]
<1>1. ASSUME UNCHANGED <<host, cmd>>, Left PROVE LineOK'
  BY <1>1, LineKept, LineTail, LineDropped
<1>2. ASSUME UNCHANGED <<host, cmd>>, Left, pi' = Rebooting PROVE LineOK' /\ PiOK'
  BY <1>1, <1>2, PiReboots
<1>3. ASSUME UNCHANGED <<host, cmd>>, Left,
             NEW next \in PiPcs \ {"down", "ask", "wait", "info", "code", "copy"}, To(next)
      PROVE  LineOK' /\ PiOK'
  BY <1>1, <1>3, PiGoes
<1>4. ASSUME UNCHANGED <<host, cmd>>, Left, pi.pc \in {"ask", "wait", "down"},
             NEW next \in {"ask", "wait", "info"}, To(next)
      PROVE  LineOK' /\ PiOK'
  <2>1. pi.mem = <<>> /\ next \in PiPcs /\ next \notin {"down", "code", "copy"}
    BY <1>4 DEF PiOK, PiPcs
  <2>2. PiOK'
    BY <1>4, <2>1, PiGoes
  <2> QED
    BY <1>1, <1>4, <2>2
<1> HIDE DEF Left
<1>5. /\ UNCHANGED toPi => Left
      /\ toPi # <<>> /\ toPi' = Tail(toPi) => Left
      /\ \A n \in 0 .. Len(toPi) : toPi' = Drop(toPi, n) => Left
  BY DEF Left
<1>6. CASE (HasData \/ wait_for_data) /\ Keep
  <2>1. /\ pi.pc \in {"ask", "wait"} /\ UNCHANGED <<host, cmd, toPi>>
        /\ To("info") \/ To("wait")
    BY <1>6 DEF HasData, wait_for_data, PiAt, PiSends, Keep
  <2> QED
    BY <1>4, <1>5, <2>1
<1>7. CASE ProgInfo /\ Keep
  <2>1. /\ Next32("PUT_PROG_INFO") /\ Len(toPi) >= 4 /\ pi.pc = "info"
        /\ UNCHANGED <<host, cmd>> /\ toPi' = Drop(toPi, 4)
    BY <1>7 DEF ProgInfo, PiAt, boot_err, PiSends, Keep
  <2>2. Left
    BY <1>0, <1>5, <2>1
  <2>3. CASE Collides(toPi[2].v, toPi[3].v)
    BY <1>2, <1>7, <2>1, <2>2, <2>3 DEF ProgInfo, boot_err, PiSends
  <2>4. CASE ~ Collides(toPi[2].v, toPi[3].v)
    <3>1. pi' = [pi EXCEPT !.pc = "code", !.nbytes = toPi[3].v, !.crc = toPi[4].v]
      BY <1>7, <2>4 DEF ProgInfo, PiSends
    <3>2. /\ toPi[3].v \in Nat /\ toPi[4].v \in Nat
          /\ ARMBASE + toPi[3].v < Width => ARMBASE + toPi[3].v < Loader
      BY <2>1, <2>4, Accepted
    <3>3. /\ pi' \in PiType /\ pi'.pc = "code" /\ pi'.nbytes = toPi[3].v
          /\ pi'.mem = pi.mem
      BY <1>0, <3>1, <3>2 DEF PiType, PiPcs
    <3>4. pi.mem = <<>>
      BY <2>1 DEF PiOK
    <3>5. PiOK'
      BY <3>2, <3>3, <3>4, EmptySeq DEF PiOK
    <3> QED
      BY <1>1, <2>1, <2>2, <3>5
  <2> QED
    BY <2>3, <2>4
<1>8. CASE PutCode /\ Keep
  <2>1. /\ pi.pc = "code" /\ To("copy") /\ UNCHANGED <<host, cmd>>
        /\ toPi # <<>> /\ toPi' = Tail(toPi)
    BY <1>8 DEF PutCode, PiAt, Next32, Keep
  <2>2. PiOK'
    BY <2>1, PiGoes DEF PiPcs
  <2> QED
    BY <1>1, <1>5, <2>1, <2>2
<1>9. CASE (WrongOp /\ Keep) \/ ServerWrongOp \/ Exit
  <2>1. /\ toPi # <<>> /\ toPi' = Tail(toPi) /\ UNCHANGED <<host, cmd>> /\ pi' = Rebooting
    BY <1>9 DEF WrongOp, ServerWrongOp, Exit, PiReads, Other32, Next32, boot_err, PiSends, Keep
  <2> QED
    BY <1>2, <1>5, <2>1
<1>10. CASE Copy /\ Keep
  <2>1. CopyWords /\ pi.pc = "copy" /\ UNCHANGED <<host, cmd>>
    BY <1>10 DEF Copy, CopyWords, PiAt, Keep
  <2>2. /\ pi' \in PiType /\ pi'.pc = pi.pc /\ pi'.nbytes = pi.nbytes
        /\ Len(pi'.mem) <= pi.nbytes
        /\ \E n \in 0 .. Len(toPi) : toPi' = Drop(toPi, n)
    BY <2>1, Copied
  <2>3. PiOK'
    BY <2>1, <2>2 DEF PiOK
  <2> QED
    BY <1>1, <1>5, <2>1, <2>2, <2>3
<1>11. CASE CopyDone /\ Keep
  <2>1. /\ UNCHANGED <<host, cmd, toPi>> /\ pi.pc = "copy"
        /\ pi' = Rebooting \/ pi' = [pi EXCEPT !.pc = "ready", !.image = pi.mem]
    BY <1>11 DEF CopyDone, PiAt, boot_err, PiSends, Keep
  <2>2. ASSUME pi' = [pi EXCEPT !.pc = "ready", !.image = pi.mem] PROVE PiOK'
    <3>1. pi' \in PiType /\ pi'.pc = "ready"
      BY <1>0, <2>2 DEF PiType, PiPcs
    <3> QED
      BY <3>1 DEF PiOK
  <2> QED
    BY <1>1, <1>2, <1>5, <2>1, <2>2
<1>12. CASE Up /\ Keep
  <2>1. /\ UNCHANGED <<host, cmd>> /\ pi.pc = "down" /\ To("ask")
        /\ \E n \in 0 .. Len(toPi) : toPi' = Drop(toPi, n)
    BY <1>12 DEF Up, PiAt, Keep
  <2> QED
    BY <1>4, <1>5, <2>1
<1>13. CASE wait_for_op \/ HasOp
  <2>1. UNCHANGED <<host, cmd, toPi>> /\ (To("ready_wait") \/ To("unix"))
    BY <1>13 DEF wait_for_op, HasOp, PiSends, Keep
  <2> QED
    BY <1>3, <1>5, <2>1 DEF PiPcs
<1>14. CASE UnixReady \/ Run \/ SendCodeOp
  <2>1. /\ toPi # <<>> /\ toPi' = Tail(toPi) /\ UNCHANGED <<host, cmd>>
        /\ To("main") \/ To("run") \/ To("load")
    BY <1>14 DEF UnixReady, Run, SendCodeOp, PiReads, Next32, PiSends, Keep
  <2> QED
    BY <1>3, <1>5, <2>1 DEF PiPcs
<1>15. CASE IgnoreOp
  <2>1. toPi # <<>> /\ toPi' = Tail(toPi) /\ UNCHANGED <<host, cmd, pi>>
    BY <1>15 DEF IgnoreOp, Other32, Keep
  <2> QED
    BY <1>1, <1>5, <2>1, PiKept
<1>16. CASE RunArgs
  <2>1. /\ Len(toPi) >= ArgsLen /\ toPi' = Drop(toPi, ArgsLen) /\ UNCHANGED <<host, cmd>>
        /\ pi' = [pi EXCEPT !.pc = "send", !.nbytes = toPi[1].v, !.crc = toPi[2].v,
                            !.mem = <<>>]
    BY <1>16 DEF RunArgs, PiSends, Keep
  <2>2. Len(toPi) >= 3 /\ ArgsLen = 3 + toPi[3].v
    BY <1>0, <2>1 DEF ArgsLen
  <2>3. toPi[1] \in Packet /\ toPi[2] \in Packet /\ toPi[3] \in Packet
    BY <1>0, <2>2
  <2>4. toPi[1].v \in Nat /\ toPi[2].v \in Nat /\ toPi[3].v \in Nat
    BY <2>3 DEF Packet
  <2>5. ArgsLen \in 0 .. Len(toPi)
    BY <1>0, <2>1, <2>2, <2>4
  <2>6. pi' \in PiType /\ pi'.pc = "send"
    BY <1>0, <2>1, <2>4, EmptySeq DEF PiType, PiPcs
  <2>7. PiOK'
    BY <2>6 DEF PiOK
  <2> QED
    BY <1>1, <1>5, <2>1, <2>5, <2>7
<1>17. CASE LoadJob
  <2>1. CopyWords /\ pi.pc = "load" /\ UNCHANGED <<host, cmd>>
    BY <1>17 DEF LoadJob, CopyWords, PiAt, Keep
  <2>2. /\ pi' \in PiType /\ pi'.pc = "load"
        /\ \E n \in 0 .. Len(toPi) : toPi' = Drop(toPi, n)
    BY <2>1, Copied
  <2>3. PiOK'
    BY <2>2 DEF PiOK
  <2> QED
    BY <1>1, <1>5, <2>1, <2>2, <2>3
<1>18. CASE JobLoaded \/ Relay
  <2>1. /\ UNCHANGED <<host, cmd, toPi>>
        /\ To("relay") \/ To("main") \/ pi' = Rebooting
    BY <1>18 DEF JobLoaded, Relay, PiSends, Keep
  <2> QED
    BY <1>2, <1>3, <1>5, <2>1 DEF PiPcs
<1> QED
  BY <1>6, <1>7, <1>8, <1>9, <1>10, <1>11, <1>12, <1>13, <1>14, <1>15, <1>16, <1>17, <1>18
  DEF PiStep, PiRepeats

LEMMA NextLoad == LoadInv /\ [ShellNext]_shellVars => LoadInv'
<1> SUFFICES ASSUME LoadInv, [ShellNext]_shellVars PROVE LoadInv'
  OBVIOUS
<1>1. LineOK /\ PiOK
  BY DEF LoadInv
<1>2. CASE UNCHANGED shellVars
  BY <1>1, <1>2, LineKept, PiKept DEF shellVars, vars, LoadInv
<1>3. CASE ShellNext
  BY <1>1, <1>3, HostKeeps, UserKeeps, PiStepKeeps, FaultKeeps DEF ShellNext, LoadInv
<1> QED
  BY <1>2, <1>3

(* get_code never copies a program over itself, unless the end of what is   *)
(* announced wraps around, whatever is reset, restarted or damaged.         *)
THEOREM LoaderStands == ShellSpec => []BelowLoader
<1>1. LoadInv => BelowLoader
  <2> SUFFICES ASSUME LoadInv PROVE BelowLoader
    OBVIOUS
  <2>1. pi.nbytes \in Nat /\ pi.mem \in Seq(Nat) /\ Len(pi.mem) \in Nat
    BY DEF LoadInv, PiOK, PiType
  <2>2. pi.pc = "copy" => /\ Len(pi.mem) <= pi.nbytes
                          /\ ARMBASE + pi.nbytes < Width => ARMBASE + pi.nbytes < Loader
    BY DEF LoadInv, PiOK
  <2> QED
    BY <2>1, <2>2, Half DEF BelowLoader, PiAt
<1>2. ShellSpec => []LoadInv
  BY InitLoad, NextLoad, PTL DEF ShellSpec
<1> QED
  BY <1>1, <1>2, PTL

------------------------------------------------------------------------------
(* Types.  A damaged checksum may be the checksum of what is no image: with  *)
(* it the Pi could run anything.                                            *)

Trusted == faults.flips = 0 \/ 0 \notin Garbles

(* A word that is not 0.                                                    *)
WordType == [op : Opcodes \cup Kinds, v : 1 .. Width - 1]

HostOps == {"PRINT_STRING", "strlen", "junk", "GET_PROG_INFO", "GET_CODE", "crc", "count",
            "BOOT_SUCCESS", "BOOT_ERROR", "PI_READY", "ACK", "CODE_GOT", "DONE"}

Byte == [op : HostOps, v : 0 .. Width - 1, i : 0 .. 4]

FaultType == [resets : 0 .. MaxResets, restarts : 0 .. MaxRestarts, flips : 0 .. MaxFlips]

(* A Pi that has accepted a checksum has one that is an image's, or wrong;  *)
(* it runs an image, or is in its boot loader.                              *)
Sound(p) ==
  /\ p.nbytes \in 0 .. Width - 1 /\ p.crc \in 0 .. Width - 1 /\ p.mem \in Seq(0 .. Width - 1)
  /\ p.pc \in {"code", "copy"} => p.crc # 0
  /\ p.pc \in InLoader => p.image = <<>>
  /\ p.pc \notin InLoader => \E i \in Images : p.image = Code(i)

Typed == toPi \in Seq(WordType) /\ toHost \in Seq(Byte) /\ Sound(pi) /\ faults \in FaultType

LEMMA Bounds ==
  /\ Width \in Nat /\ Width > 1 /\ ARMBASE \in 1 .. Width - 1 /\ Width \div 2 - 1 \in 1 .. Width - 1
  /\ \A p \in Images : p \in 1 .. Width - 1 /\ Size[p] \in 1 .. Width - 1
  /\ \A n \in Clients : n \in 1 .. Width - 1
<1>1. \A p \in Images : p \in Nat \ {0} /\ Size[p] \in Nat \ {0} /\ p < Width /\ Size[p] < Width
  BY BootLoaderAssumption
<1>2. \A n \in Clients : n \in Nat \ {0} /\ n < Width
  BY ShellAssumption
<1> DEFINE h == Width \div 2
<1>3. /\ Width \in Nat /\ ARMBASE \in Nat /\ ARMBASE > 0 /\ h \in Nat /\ 2 * h <= Width
      /\ Loader \in Nat /\ ARMBASE <= Loader /\ Loader <= h - 1
  BY Half, BootLoaderAssumption
<1> HIDE DEF h
<1>4. Width > 1 /\ ARMBASE \in 1 .. Width - 1 /\ h - 1 \in 1 .. Width - 1
  BY <1>3
<1> QED
  BY <1>1, <1>2, <1>3, <1>4 DEF h

LEMMA Parts ==
  ASSUME NEW T, NEW s \in Seq(T)
  PROVE  /\ \A n \in 0 .. Len(s) : Drop(s, n) \in Seq(T) /\ SubSeq(s, 1, n) \in Seq(T)
         /\ s # <<>> => Tail(s) \in Seq(T)
BY DEF Drop

LEMMA Put ==
  ASSUME NEW T, NEW s \in Seq(T), NEW t \in Seq(T)
  PROVE  s \o t \in Seq(T)
OBVIOUS

LEMMA OpTyped ==
  ASSUME NEW op \in Opcodes
  PROVE  Op(op) \in WordType /\ <<Op(op)>> \in Seq(WordType)
<1>1. Op(op) \in WordType
  BY Bounds DEF Op, Item, WordType
<1> QED
  BY <1>1

LEMMA ItemTyped ==
  ASSUME NEW op \in Kinds, NEW v \in 1 .. Width - 1
  PROVE  Item(op, v) \in WordType
BY DEF Item, WordType

LEMMA CodeTyped ==
  ASSUME NEW p \in Images
  PROVE  CodeItems(p) \in Seq(WordType)
<1>1. Size[p] \in Nat /\ Item("code", p) \in WordType
  BY Bounds, ItemTyped DEF Kinds
<1> QED
  BY <1>1 DEF CodeItems

LEMMA GarbledTyped ==
  ASSUME 0 \notin Garbles, NEW w \in WordType, NEW v \in Garbles
  PROVE  Garbled(w, v) \in WordType
<1>1. v \in 1 .. Width - 1
  <2>1. v \in 0 .. Width - 1 /\ v # 0
    BY BootLoaderAssumption
  <2> QED
    BY <2>1, Bounds
<1>2. CASE w.op \in {"nbytes", "crc", "code", "count"}
  <2>1. Garbled(w, v) = Item(w.op, v)
    BY <1>2 DEF Garbled
  <2> QED
    BY <1>1, <1>2, <2>1, ItemTyped DEF Kinds
<1>3. CASE w.op \notin {"nbytes", "crc", "code", "count"}
  <2>1. Garbled(w, v) = Op("junk")
    BY <1>3 DEF Garbled
  <2> QED
    BY <2>1, OpTyped DEF Opcodes
<1> QED
  BY <1>2, <1>3

(* What the Pi sends.                                                       *)
LEMMA WordBytes ==
  ASSUME NEW op \in HostOps, NEW v \in 0 .. Width - 1
  PROVE  Word(op, v) \in Seq(Byte)
<1>1. \A i \in 1 .. 4 : [op |-> op, v |-> v, i |-> i] \in Byte
  BY DEF Byte
<1> QED
  BY <1>1 DEF Word

LEMMA JunkBytes ==
  ASSUME NEW n \in Nat
  PROVE  Junk(n) \in Seq(Byte)
<1>1. [op |-> "junk", v |-> 0, i |-> 0] \in Byte
  BY Bounds DEF Byte, HostOps
<1> QED
  BY <1>1 DEF Junk

LEMMA SaidBytes ==
  /\ boot_putk \o Word("BOOT_ERROR", 0) \in Seq(Byte)
  /\ boot_putk \o Word("BOOT_SUCCESS", 0) \in Seq(Byte)
<1>1. 0 \in 0 .. Width - 1
  BY Bounds
<1>2. /\ Word("PRINT_STRING", 0) \in Seq(Byte) /\ Word("strlen", 0) \in Seq(Byte)
      /\ Word("BOOT_ERROR", 0) \in Seq(Byte) /\ Word("BOOT_SUCCESS", 0) \in Seq(Byte)
  BY <1>1, WordBytes DEF HostOps
<1>3. Junk(TextLen) \in Seq(Byte)
  BY JunkBytes, BootLoaderAssumption
<1>4. boot_putk \in Seq(Byte)
  BY <1>2, <1>3, Put DEF boot_putk
<1> QED
  BY <1>2, <1>4, Put

LEMMA Received ==
  ASSUME toHost \in Seq(Byte), NEW s \in Seq(Byte)
  PROVE  ToHost(s) \in Seq(Byte)
BY Put, EmptySeq DEF ToHost

(* What the Pi holds.                                                       *)
LEMMA ImageCode ==
  ASSUME NEW p \in Images
  PROVE  Code(p) # <<>> /\ Code(p) \in Seq(Images)
<1>1. Size[p] \in Nat /\ Size[p] > 0
  BY Bounds
<1>2. Code(p) \in Seq(Images) /\ Len(Code(p)) = Size[p]
  BY <1>1 DEF Code
<1> QED
  BY <1>1, <1>2

LEMMA Checked ==
  ASSUME NEW mem, crc32(mem) # 0
  PROVE  \E p \in Images : mem = Code(p)
BY DEF crc32

LEMMA SoundReboots ==
  ASSUME NEW p, p = Rebooting \/ p = [Rebooting EXCEPT !.pc = "ask"]
  PROVE  Sound(p)
<1>1. 0 \in 0 .. Width - 1 /\ <<>> \in Seq(0 .. Width - 1)
  BY Bounds, EmptySeq
<1>2. /\ p.nbytes = 0 /\ p.crc = 0 /\ p.mem = <<>> /\ p.image = <<>> /\ p.pc \in {"down", "ask"}
  BY DEF Rebooting
<1> QED
  BY <1>1, <1>2 DEF Sound, InLoader

LEMMA SoundGoes ==
  ASSUME pi \in PiType, Sound(pi), NEW next \in PiPcs, NEW p, p = [pi EXCEPT !.pc = next],
         next \in InLoader <=> pi.pc \in InLoader,
         next \in {"code", "copy"} => pi.pc \in {"code", "copy"}
  PROVE  Sound(p)
<1>1. p.nbytes = pi.nbytes /\ p.crc = pi.crc /\ p.mem = pi.mem /\ p.image = pi.image /\ p.pc = next
  BY DEF PiType
<1> QED
  BY <1>1 DEF Sound

(* Words are copied.                                                        *)
LEMMA SoundCopies ==
  ASSUME LineOK, pi \in PiType, Sound(pi), toPi \in Seq(WordType), CopyWords
  PROVE  Sound(pi') /\ toPi' \in Seq(WordType)
<1> DEFINE n == IF Len(toPi) < pi.nbytes - Len(pi.mem) THEN Len(toPi)
                ELSE pi.nbytes - Len(pi.mem)
           t == [k \in 1 .. n |-> toPi[k].v]
           V == 0 .. Width - 1
<1>1. pi.nbytes \in Nat /\ pi.mem \in Seq(V) /\ Len(pi.mem) \in Nat /\ Len(toPi) \in Nat
  BY DEF PiType, Sound
<1>2. n > 0 /\ pi' = [pi EXCEPT !.mem = @ \o t] /\ toPi' = Drop(toPi, n)
  BY DEF CopyWords
<1>3. n \in 0 .. Len(toPi) /\ n \in Nat
  BY <1>1, <1>2
<1> HIDE DEF n
<1>4. \A k \in 1 .. n : toPi[k].v \in V
  <2>1. \A k \in 1 .. n : k \in 1 .. Len(toPi)
    BY <1>1, <1>3
  <2>2. \A k \in 1 .. n : toPi[k] \in WordType
    BY <2>1
  <2>3. \A x \in 1 .. Width - 1 : x \in V
    BY Bounds
  <2> QED
    BY <2>2, <2>3 DEF WordType
<1> HIDE DEF V
<1>5. t \in Seq(V)
  BY <1>3, <1>4
<1> HIDE DEF t
<1>6. pi.mem \o t \in Seq(V)
  BY <1>1, <1>5, Put
<1>7. /\ pi'.nbytes = pi.nbytes /\ pi'.crc = pi.crc /\ pi'.mem = pi.mem \o t
      /\ pi'.image = pi.image /\ pi'.pc = pi.pc
  BY <1>2 DEF PiType
<1>8. Sound(pi')
  BY <1>6, <1>7 DEF Sound, V
<1>9. toPi' \in Seq(WordType)
  BY <1>2, <1>3, Parts
<1> QED
  BY <1>8, <1>9

LEMMA InitTyped == ShellInit => Typed
<1> SUFFICES ASSUME ShellInit PROVE Typed
  OBVIOUS
<1>1. toPi \in Seq(WordType)
  BY EmptySeq DEF ShellInit, Init
<1>2. PICK k \in Cuts : toHost = Junk(k)
  BY DEF ShellInit, Init
<1>3. k \in Nat
  BY BootLoaderAssumption
<1>4. toHost \in Seq(Byte)
  BY <1>2, <1>3, JunkBytes
<1>5. Sound(pi)
  BY SoundReboots DEF ShellInit, Init
<1>6. faults \in FaultType
  <2>1. MaxResets \in Nat /\ MaxRestarts \in Nat /\ MaxFlips \in Nat
    BY BootLoaderAssumption
  <2> QED
    BY <2>1 DEF ShellInit, Init, FaultType
<1> QED
  BY <1>1, <1>4, <1>5, <1>6 DEF Typed

(* The host reads the beginning of the line, and writes its messages.       *)
LEMMA HostTyped ==
  ASSUME LineOK, Typed, HostStep
  PROVE  Typed'
<1>0. /\ host \in HostType /\ cmd \in CmdType /\ (host.pc = "echo" => cmd.job \in Jobs)
      /\ toPi \in Seq(WordType) /\ toHost \in Seq(Byte) /\ Len(toHost) \in Nat
      /\ Sound(pi) /\ faults \in FaultType
  BY DEF LineOK, Typed
<1>1. host.image \in Images
  BY <1>0 DEF HostType
<1>2. \A n \in Nat : Len(toHost) >= n => Drop(toHost, n) \in Seq(Byte)
  <2>1. \A n \in Nat : Len(toHost) >= n => n \in 0 .. Len(toHost)
    BY <1>0
  <2> QED
    BY <1>0, <2>1, Parts
<1>3. \A op : Starts(op) => Drop(toHost, 4) \in Seq(Byte)
  BY <1>2 DEF Starts
<1>4. ASSUME UNCHANGED <<pi, faults>>, toHost' \in Seq(Byte), toPi' \in Seq(WordType)
      PROVE  Typed'
  BY <1>0, <1>4 DEF Typed
<1>5. CASE (get_op_string \/ Discard \/ Drain) /\ Keep
  <2>1. 8 + TextLen \in Nat
    BY BootLoaderAssumption
  <2>2. toHost' \in Seq(Byte) /\ UNCHANGED <<pi, faults, toPi>>
    BY <1>2, <1>5, <2>1 DEF get_op_string, Discard, Drain
  <2> QED
    BY <1>0, <1>4, <2>2
<1>6. CASE ReplyInfo /\ Keep
  <2>1. /\ toHost' \in Seq(Byte) /\ UNCHANGED <<pi, faults>>
        /\ toPi' = toPi \o <<Op("PUT_PROG_INFO"), Item("addr", ARMBASE),
                             Item("nbytes", Size[host.image]), Item("crc", host.image)>>
    BY <1>3, <1>6 DEF ReplyInfo
  <2>2. /\ Op("PUT_PROG_INFO") \in WordType /\ Item("addr", ARMBASE) \in WordType
        /\ Item("nbytes", Size[host.image]) \in WordType /\ Item("crc", host.image) \in WordType
    BY <1>1, OpTyped, ItemTyped, Bounds DEF Opcodes, Kinds
  <2>3. <<Op("PUT_PROG_INFO"), Item("addr", ARMBASE), Item("nbytes", Size[host.image]),
          Item("crc", host.image)>> \in Seq(WordType)
    BY <2>2
  <2> QED
    BY <1>0, <1>4, <2>1, <2>3, Put
<1>7. CASE SendCode /\ Keep
  <2>1. /\ toHost' \in Seq(Byte) /\ UNCHANGED <<pi, faults>>
        /\ toPi' = toPi \o <<Op("PUT_CODE")>> \o CodeItems(host.image)
    BY <1>2, <1>7 DEF SendCode
  <2>2. <<Op("PUT_CODE")>> \in Seq(WordType) /\ CodeItems(host.image) \in Seq(WordType)
    BY <1>1, OpTyped, CodeTyped DEF Opcodes
  <2> QED
    BY <1>0, <1>4, <2>1, <2>2, Put
<1>8. CASE Success /\ Keep
  BY <1>0, <1>3, <1>4, <1>8 DEF Success
<1>9. CASE (Mismatch \/ BootTimeout(PiWaits)) /\ Keep
  BY <1>0, <1>4, <1>9, EmptySeq DEF Mismatch, BootTimeout, Die
<1>10. CASE SyncDiscard
  BY <1>0, <1>2, <1>4, <1>10 DEF SyncDiscard
<1>11. CASE SyncReady
  <2>1. /\ toHost' \in Seq(Byte) /\ UNCHANGED <<pi, faults>>
        /\ toPi' = Append(toPi, Op("UNIX_READY"))
    BY <1>3, <1>11 DEF SyncReady, HostReads
  <2>2. Op("UNIX_READY") \in WordType
    BY OpTyped DEF Opcodes
  <2>3. toPi' \in Seq(WordType)
    BY <1>0, <2>1, <2>2
  <2> QED
    BY <1>4, <2>1, <2>3
<1>12. CASE SyncDrain \/ SyncAck \/ CodeGot
  BY <1>0, <1>3, <1>4, <1>12 DEF SyncDrain, SyncAck, CodeGot, HostReads
<1>13. CASE SendJob
  <2>1. /\ toHost' \in Seq(Byte) /\ UNCHANGED <<pi, faults>> /\ host.pc = "echo"
        /\ toPi' = toPi \o <<Op("SEND_CODE")>> \o CodeItems(cmd.job)
    BY <1>2, <1>13 DEF SendJob, HostAt
  <2>2. cmd.job \in Images
    BY <1>0, <2>1, ShellAssumption
  <2>3. <<Op("SEND_CODE")>> \in Seq(WordType) /\ CodeItems(cmd.job) \in Seq(WordType)
    BY <2>2, OpTyped, CodeTyped DEF Opcodes
  <2> QED
    BY <1>0, <1>4, <2>1, <2>3, Put
<1>14. CASE JobDone
  BY <1>0, <1>2, <1>4, <1>14 DEF JobDone
<1>15. CASE ShellMismatch \/ ShellTimeout(PiWaits)
  BY <1>0, <1>4, <1>15, EmptySeq DEF ShellMismatch, ShellTimeout, Die
<1> QED
  BY <1>5, <1>6, <1>7, <1>8, <1>9, <1>10, <1>11, <1>12, <1>13, <1>14, <1>15
  DEF HostStep, simple_boot

LEMMA UserTyped ==
  ASSUME LineOK, Typed, UserStep
  PROVE  Typed'
<1>0. toPi \in Seq(WordType)
  BY DEF Typed
<1>1. UNCHANGED <<pi, toHost, faults>>
  BY DEF UserStep, ExitCommand, OtherCommand, RunCommand, Command
<1>2. CASE ExitCommand \/ OtherCommand
  <2>1. \E op \in {"EXIT", "LIST", "UPDATE"} : toPi' = Append(toPi, Op(op))
    BY <1>2 DEF ExitCommand, OtherCommand
  <2>2. \A op \in {"EXIT", "LIST", "UPDATE"} : Op(op) \in WordType
    BY OpTyped DEF Opcodes
  <2> QED
    BY <1>0, <1>1, <2>1, <2>2 DEF Typed
<1>3. ASSUME NEW job \in Jobs, NEW n \in Clients, RunCommand(job, n) PROVE Typed'
  <2> DEFINE a == <<Op("RUN"), Item("nbytes", Size[job]), Item("crc", job), Item("count", n)>>
             c == [k \in 1 .. n |-> Item("id", k)]
  <2>1. toPi' = toPi \o a \o c
    BY <1>3 DEF RunCommand
  <2>2. job \in Images /\ n \in 1 .. Width - 1 /\ Width \in Nat /\ n \in Nat
    BY ShellAssumption, Bounds
  <2>3. /\ Op("RUN") \in WordType /\ Item("nbytes", Size[job]) \in WordType
        /\ Item("crc", job) \in WordType /\ Item("count", n) \in WordType
    BY <2>2, OpTyped, ItemTyped, Bounds DEF Opcodes, Kinds
  <2>4. \A k \in 1 .. n : Item("id", k) \in WordType
    <3>1. \A k \in 1 .. n : k \in 1 .. Width - 1
      BY <2>2
    <3> QED
      BY <3>1, ItemTyped DEF Kinds
  <2>5. a \in Seq(WordType)
    BY <2>3
  <2>6. c \in Seq(WordType)
    BY <2>2, <2>4
  <2> HIDE DEF a, c
  <2>7. toPi' \in Seq(WordType)
    BY <1>0, <2>1, <2>5, <2>6, Put
  <2> QED
    BY <1>1, <2>7 DEF Typed
<1> QED
  BY <1>2, <1>3 DEF UserStep

LEMMA Counted ==
  ASSUME faults \in FaultType
  PROVE  /\ faults.resets < MaxResets => [faults EXCEPT !.resets = @ + 1] \in FaultType
         /\ faults.restarts < MaxRestarts => [faults EXCEPT !.restarts = @ + 1] \in FaultType
         /\ faults.flips < MaxFlips => /\ [faults EXCEPT !.flips = @ + 1] \in FaultType
                                       /\ [faults EXCEPT !.flips = @ + 1].flips # 0
<1> DEFINE a == faults.resets
           b == faults.restarts
           c == faults.flips
<1>1. /\ MaxResets \in Nat /\ MaxRestarts \in Nat /\ MaxFlips \in Nat
      /\ a \in 0 .. MaxResets /\ b \in 0 .. MaxRestarts /\ c \in 0 .. MaxFlips
      /\ faults = [resets |-> a, restarts |-> b, flips |-> c]
  BY BootLoaderAssumption DEF FaultType
<1>2. /\ [faults EXCEPT !.resets = @ + 1] = [resets |-> a + 1, restarts |-> b, flips |-> c]
      /\ [faults EXCEPT !.restarts = @ + 1] = [resets |-> a, restarts |-> b + 1, flips |-> c]
      /\ [faults EXCEPT !.flips = @ + 1] = [resets |-> a, restarts |-> b, flips |-> c + 1]
  BY <1>1
<1> HIDE DEF a, b, c
<1>3. /\ a < MaxResets => a + 1 \in 0 .. MaxResets
      /\ b < MaxRestarts => b + 1 \in 0 .. MaxRestarts
      /\ c < MaxFlips => c + 1 \in 0 .. MaxFlips /\ c + 1 # 0
  BY <1>1
<1>4. \A x \in 0 .. MaxResets, y \in 0 .. MaxRestarts, z \in 0 .. MaxFlips :
        [resets |-> x, restarts |-> y, flips |-> z] \in FaultType
  BY DEF FaultType
<1>5. a < MaxResets => [faults EXCEPT !.resets = @ + 1] \in FaultType
  BY <1>1, <1>2, <1>3, <1>4
<1>6. b < MaxRestarts => [faults EXCEPT !.restarts = @ + 1] \in FaultType
  BY <1>1, <1>2, <1>3, <1>4
<1>7. c < MaxFlips => /\ [faults EXCEPT !.flips = @ + 1] \in FaultType
                      /\ [faults EXCEPT !.flips = @ + 1].flips # 0
  BY <1>1, <1>2, <1>3, <1>4
<1> QED
  BY <1>5, <1>6, <1>7 DEF a, b, c

LEMMA FaultTyped ==
  ASSUME Typed, Trusted', Reset \/ Restart \/ Flip
  PROVE  Typed'
<1>0. /\ toPi \in Seq(WordType) /\ toHost \in Seq(Byte) /\ Sound(pi) /\ faults \in FaultType
      /\ MaxResets \in Nat /\ MaxRestarts \in Nat /\ MaxFlips \in Nat /\ \A k \in Cuts : k \in Nat
  BY BootLoaderAssumption DEF Typed
<1>1. CASE Reset
  <2>1. PICK k \in Cuts : toHost' = ToHost(Junk(k))
    BY <1>1 DEF Reset
  <2>2. toHost' \in Seq(Byte)
    BY <1>0, <2>1, JunkBytes, Received
  <2>3. faults' \in FaultType
    BY <1>0, <1>1, Counted DEF Reset
  <2>4. Sound(pi')
    BY <1>1, SoundReboots DEF Reset
  <2> QED
    BY <1>0, <1>1, <2>2, <2>3, <2>4 DEF Typed, Reset
<1>2. CASE Restart
  <2>1. PICK k \in Cuts : toHost' = Junk(k)
    BY <1>2 DEF Restart
  <2>2. PICK n \in 0 .. Len(toPi) : toPi' = SubSeq(toPi, 1, n)
    BY <1>2 DEF Restart
  <2>3. toHost' \in Seq(Byte) /\ toPi' \in Seq(WordType)
    BY <1>0, <2>1, <2>2, JunkBytes, Parts
  <2>4. faults' \in FaultType
    BY <1>0, <1>2, Counted DEF Restart
  <2> QED
    BY <1>0, <1>2, <2>3, <2>4 DEF Typed, Restart
<1>3. CASE Flip
  <2>1. PICK k \in DOMAIN toPi, v \in Garbles : toPi' = [toPi EXCEPT ![k] = Garbled(@, v)]
    BY <1>3 DEF Flip
  <2>2. toPi[k] \in WordType
    BY <1>0, <2>1
  <2>3. 0 \notin Garbles
    BY <1>0, <1>3, Counted DEF Trusted, Flip
  <2>4. Garbled(toPi[k], v) \in WordType
    BY <2>2, <2>3, GarbledTyped
  <2>5. toPi' \in Seq(WordType)
    BY <1>0, <2>1, <2>4
  <2>6. faults' \in FaultType
    BY <1>0, <1>3, Counted DEF Flip
  <2> QED
    BY <1>0, <1>3, <2>5, <2>6 DEF Typed, Flip
<1> QED
  BY <1>1, <1>2, <1>3

LEMMA PiTyped ==
  ASSUME LineOK, pi \in PiType, Typed, PiStep \/ PiRepeats
  PROVE  Typed'
<1>0. /\ toPi \in Seq(WordType) /\ toHost \in Seq(Byte) /\ Sound(pi) /\ faults \in FaultType
      /\ Len(toPi) \in Nat /\ pi \in PiType
  BY DEF Typed
<1> DEFINE Rest == \/ toPi' = toPi
                   \/ toPi # <<>> /\ toPi' = Tail(toPi)
                   \/ \E n \in 0 .. Len(toPi) : toPi' = Drop(toPi, n)
           Sent == toHost' = toHost \/ \E s \in Seq(Byte) : toHost' = ToHost(s)
           To(next) == pi' = [pi EXCEPT !.pc = next]
<1>1. ASSUME UNCHANGED faults, Rest, Sent, Sound(pi') PROVE Typed'
  <2>1. toPi' \in Seq(WordType)
    BY <1>0, <1>1, Parts
  <2>2. toHost' \in Seq(Byte)
    BY <1>0, <1>1, Received
  <2> QED
    BY <1>0, <1>1, <2>1, <2>2 DEF Typed
<1> HIDE DEF Rest, Sent
<1>2. /\ UNCHANGED toPi => Rest
      /\ toPi # <<>> /\ toPi' = Tail(toPi) => Rest
      /\ \A n \in 0 .. Len(toPi) : toPi' = Drop(toPi, n) => Rest
      /\ UNCHANGED toHost => Sent
      /\ \A s \in Seq(Byte) : toHost' = ToHost(s) => Sent
  BY DEF Rest, Sent
<1>3. /\ 0 \in 0 .. Width - 1 /\ <<>> \in Seq(Byte) /\ Junk(8) \in Seq(Byte)
      /\ \A op \in HostOps : Word(op, 0) \in Seq(Byte)
  BY Bounds, EmptySeq, JunkBytes, WordBytes
<1>4. ASSUME UNCHANGED faults, Rest, Sent, pi' = Rebooting PROVE Typed'
  BY <1>1, <1>4, SoundReboots
<1>5. ASSUME UNCHANGED faults, Rest, Sent, pi.pc \notin InLoader,
             NEW next \in PiPcs \ InLoader, To(next)
      PROVE  Typed'
  <2>1. Sound(pi')
    BY <1>0, <1>5, SoundGoes DEF InLoader
  <2> QED
    BY <1>1, <1>5, <2>1
<1>6. ASSUME UNCHANGED faults, Rest, Sent, pi.pc \in InLoader,
             NEW next \in {"ask", "wait", "info"}, To(next)
      PROVE  Typed'
  <2>1. Sound(pi')
    BY <1>0, <1>6, SoundGoes DEF InLoader, PiPcs
  <2> QED
    BY <1>1, <1>6, <2>1
<1>7. CASE (HasData \/ wait_for_data) /\ Keep
  <2>1. /\ pi.pc \in {"ask", "wait"} /\ UNCHANGED <<faults, toPi>>
        /\ To("info") \/ To("wait")
    BY <1>7 DEF HasData, wait_for_data, PiAt, PiSends
  <2>2. toHost' = toHost \/ toHost' = ToHost(Word("GET_PROG_INFO", 0))
    BY <1>7 DEF HasData, wait_for_data, PiSends
  <2>3. Sent
    BY <1>2, <1>3, <2>2 DEF HostOps
  <2> QED
    BY <1>2, <1>6, <2>1, <2>3 DEF InLoader
<1>8. CASE ProgInfo /\ Keep
  <2>1. /\ Len(toPi) >= 4 /\ pi.pc = "info" /\ UNCHANGED faults /\ toPi' = Drop(toPi, 4)
    BY <1>8 DEF ProgInfo, PiAt, boot_err, PiSends
  <2>2. Rest
    BY <1>0, <1>2, <2>1
  <2>3. CASE Collides(toPi[2].v, toPi[3].v)
    <3>1. toHost' = ToHost(boot_putk \o Word("BOOT_ERROR", 0)) /\ pi' = Rebooting
      BY <1>8, <2>3 DEF ProgInfo, boot_err, PiSends
    <3> QED
      BY <1>2, <1>4, <2>1, <2>2, <3>1, SaidBytes
  <2>4. CASE ~ Collides(toPi[2].v, toPi[3].v)
    <3>1. /\ pi' = [pi EXCEPT !.pc = "code", !.nbytes = toPi[3].v, !.crc = toPi[4].v]
          /\ toHost' = ToHost(Word("GET_CODE", 0) \o Word("crc", toPi[4].v))
      BY <1>8, <2>4 DEF ProgInfo, PiSends
    <3>2. toPi[3] \in WordType /\ toPi[4] \in WordType
      BY <1>0, <2>1
    <3>3. toPi[3].v \in 1 .. Width - 1 /\ toPi[4].v \in 1 .. Width - 1
      BY <3>2 DEF WordType
    <3>4. toPi[3].v \in 0 .. Width - 1 /\ toPi[4].v \in 0 .. Width - 1 /\ toPi[4].v # 0
      BY <3>3, Bounds
    <3>5. /\ pi'.pc = "code" /\ pi'.nbytes = toPi[3].v /\ pi'.crc = toPi[4].v
          /\ pi'.mem = pi.mem /\ pi'.image = pi.image
      BY <1>0, <3>1 DEF PiType
    <3>6. Sound(pi')
      BY <1>0, <2>1, <3>4, <3>5 DEF Sound, InLoader
    <3>7. Word("GET_CODE", 0) \in Seq(Byte) /\ Word("crc", toPi[4].v) \in Seq(Byte)
      BY <1>3, <3>4, WordBytes DEF HostOps
    <3>8. Sent
      BY <1>2, <3>1, <3>7, Put
    <3> QED
      BY <1>1, <2>1, <2>2, <3>6, <3>8
  <2> QED
    BY <2>3, <2>4
<1>9. CASE PutCode /\ Keep
  <2>1. /\ pi.pc = "code" /\ To("copy") /\ UNCHANGED <<faults, toHost>>
        /\ toPi # <<>> /\ toPi' = Tail(toPi)
    BY <1>9 DEF PutCode, PiAt, Next32
  <2>2. Sound(pi')
    BY <1>0, <2>1, SoundGoes DEF InLoader, PiPcs
  <2> QED
    BY <1>1, <1>2, <2>1, <2>2
<1>10. CASE (WrongOp /\ Keep) \/ ServerWrongOp \/ Exit
  <2>1. toPi # <<>> /\ toPi' = Tail(toPi) /\ UNCHANGED faults /\ pi' = Rebooting
    BY <1>10 DEF WrongOp, ServerWrongOp, Exit, PiReads, Other32, Next32, boot_err, PiSends
  <2>2. toHost' = ToHost(boot_putk \o Word("BOOT_ERROR", 0)) \/ toHost' = ToHost(Junk(8))
    BY <1>10 DEF WrongOp, ServerWrongOp, Exit, PiReads, boot_err, PiSends
  <2>3. Sent
    BY <1>2, <1>3, <2>2, SaidBytes
  <2> QED
    BY <1>2, <1>4, <2>1, <2>3
<1>11. CASE (Copy /\ Keep) \/ LoadJob
  <2>1. CopyWords /\ UNCHANGED <<faults, toHost>>
    BY <1>11 DEF Copy, LoadJob, CopyWords
  <2>2. Sound(pi') /\ toPi' \in Seq(WordType)
    BY <1>0, <2>1, SoundCopies
  <2> QED
    BY <1>0, <2>1, <2>2 DEF Typed
<1>12. CASE CopyDone /\ Keep
  <2>1. UNCHANGED <<faults, toPi>> /\ pi.pc = "copy"
    BY <1>12 DEF CopyDone, PiAt, boot_err, PiSends
  <2>2. CASE crc32(pi.mem) # pi.crc
    <3>1. toHost' = ToHost(boot_putk \o Word("BOOT_ERROR", 0)) /\ pi' = Rebooting
      BY <1>12, <2>2 DEF CopyDone, boot_err, PiSends
    <3> QED
      BY <1>2, <1>4, <2>1, <3>1, SaidBytes
  <2>3. CASE crc32(pi.mem) = pi.crc
    <3>1. /\ toHost' = ToHost(boot_putk \o Word("BOOT_SUCCESS", 0))
          /\ pi' = [pi EXCEPT !.pc = "ready", !.image = pi.mem]
      BY <1>12, <2>3 DEF CopyDone, PiSends
    <3>2. \E p \in Images : pi.mem = Code(p)
      BY <1>0, <2>1, <2>3, Checked DEF Sound
    <3>3. /\ pi'.pc = "ready" /\ pi'.nbytes = pi.nbytes /\ pi'.crc = pi.crc
          /\ pi'.mem = pi.mem /\ pi'.image = pi.mem
      BY <1>0, <3>1 DEF PiType
    <3>4. Sound(pi')
      BY <1>0, <3>2, <3>3 DEF Sound, InLoader
    <3> QED
      BY <1>1, <1>2, <2>1, <3>1, <3>4, SaidBytes
  <2> QED
    BY <2>2, <2>3
<1>13. CASE Up /\ Keep
  <2>1. /\ UNCHANGED <<faults, toHost>> /\ pi.pc = "down" /\ To("ask")
        /\ \E n \in 0 .. Len(toPi) : toPi' = Drop(toPi, n)
    BY <1>13 DEF Up, PiAt
  <2> QED
    BY <1>2, <1>6, <2>1 DEF InLoader
<1>14. CASE wait_for_op \/ HasOp
  <2>1. /\ UNCHANGED <<faults, toPi>> /\ (To("ready_wait") \/ To("unix"))
        /\ pi.pc \in {"ready", "ready_wait"}
    BY <1>14 DEF wait_for_op, HasOp, PiAt, PiSends
  <2>2. toHost' = toHost \/ toHost' = ToHost(Word("PI_READY", 0))
    BY <1>14 DEF wait_for_op, HasOp, PiSends
  <2>3. Sent
    BY <1>2, <1>3, <2>2 DEF HostOps
  <2> QED
    BY <1>2, <1>5, <2>1, <2>3 DEF PiPcs, InLoader
<1>15. CASE UnixReady \/ Run \/ SendCodeOp
  <2>1. /\ toPi # <<>> /\ toPi' = Tail(toPi) /\ UNCHANGED faults
        /\ To("main") \/ To("run") \/ To("load")
        /\ pi.pc \in {"unix", "main", "send"}
    BY <1>15 DEF UnixReady, Run, SendCodeOp, PiReads, PiAt, Next32, PiSends
  <2>2. toHost' = ToHost(<<>>) \/ toHost' = ToHost(Word("ACK", 0))
    BY <1>15 DEF UnixReady, Run, SendCodeOp, PiReads, PiSends
  <2>3. Sent
    BY <1>2, <1>3, <2>2 DEF HostOps
  <2> QED
    BY <1>2, <1>5, <2>1, <2>3 DEF PiPcs, InLoader
<1>16. CASE IgnoreOp
  <2>1. toPi # <<>> /\ toPi' = Tail(toPi) /\ UNCHANGED <<faults, toHost, pi>>
    BY <1>16 DEF IgnoreOp, Other32
  <2>2. Sound(pi')
    BY <1>0, <2>1
  <2> QED
    BY <1>1, <1>2, <2>1, <2>2
<1>17. CASE RunArgs
  <2>1. /\ Len(toPi) >= ArgsLen /\ toPi' = Drop(toPi, ArgsLen) /\ UNCHANGED faults
        /\ pi.pc = "run" /\ toHost' = ToHost(Word("count", toPi[3].v) \o Word("crc", toPi[2].v))
        /\ pi' = [pi EXCEPT !.pc = "send", !.nbytes = toPi[1].v, !.crc = toPi[2].v,
                            !.mem = <<>>]
    BY <1>17 DEF RunArgs, PiAt, PiSends
  <2>2. toPi \in Seq(Packet)
    BY DEF LineOK
  <2>3. Len(toPi) >= 3 /\ ArgsLen = 3 + toPi[3].v
    <3>1. CASE Len(toPi) < 3
      BY <1>0, <2>1, <3>1 DEF ArgsLen
    <3>2. CASE Len(toPi) >= 3
      BY <1>0, <3>2 DEF ArgsLen
    <3> QED
      BY <1>0, <3>1, <3>2
  <2>4. toPi[1] \in WordType /\ toPi[2] \in WordType /\ toPi[3] \in WordType
    BY <1>0, <2>3
  <2>5. /\ toPi[1].v \in 1 .. Width - 1 /\ toPi[2].v \in 1 .. Width - 1
        /\ toPi[3].v \in 1 .. Width - 1
    BY <2>4 DEF WordType
  <2>6. /\ toPi[1].v \in 0 .. Width - 1 /\ toPi[2].v \in 0 .. Width - 1
        /\ toPi[3].v \in 0 .. Width - 1
    BY <2>5, Bounds
  <2>7. ArgsLen \in 0 .. Len(toPi)
    <3> DEFINE a == ArgsLen
               v == toPi[3].v
    <3>1. v \in Nat
      BY <2>5
    <3>2. a = 3 + v /\ Len(toPi) >= a /\ Len(toPi) \in Nat
      BY <1>0, <2>1, <2>3
    <3> HIDE DEF a, v
    <3>3. a \in 0 .. Len(toPi)
      BY <3>1, <3>2
    <3> QED
      BY <3>3 DEF a
  <2>8. /\ pi'.pc = "send" /\ pi'.nbytes = toPi[1].v /\ pi'.crc = toPi[2].v
        /\ pi'.mem = <<>> /\ pi'.image = pi.image
    BY <1>0, <2>1 DEF PiType
  <2>9. <<>> \in Seq(0 .. Width - 1)
    BY EmptySeq
  <2>10. Sound(pi')
    BY <1>0, <2>1, <2>6, <2>8, <2>9 DEF Sound, InLoader
  <2>11. Word("count", toPi[3].v) \in Seq(Byte) /\ Word("crc", toPi[2].v) \in Seq(Byte)
    BY <2>6, WordBytes DEF HostOps
  <2>12. Sent
    BY <1>2, <2>1, <2>11, Put
  <2>13. Rest
    BY <1>2, <2>1, <2>7
  <2> QED
    BY <1>1, <2>1, <2>10, <2>12, <2>13
<1>18. CASE JobLoaded \/ Relay
  <2>1. /\ UNCHANGED <<faults, toPi>> /\ pi.pc \in {"load", "relay"}
        /\ To("relay") \/ To("main") \/ pi' = Rebooting
    BY <1>18 DEF JobLoaded, Relay, PiAt, PiSends
  <2>2. \/ toHost' = ToHost(Word("CODE_GOT", 0)) \/ toHost' = ToHost(Junk(8))
        \/ toHost' = ToHost(Word("DONE", 0))
    BY <1>18 DEF JobLoaded, Relay, PiSends
  <2>3. Sent
    BY <1>2, <1>3, <2>2 DEF HostOps
  <2> QED
    BY <1>2, <1>4, <1>5, <2>1, <2>3 DEF PiPcs, InLoader
<1> QED
  BY <1>7, <1>8, <1>9, <1>10, <1>11, <1>12, <1>13, <1>14, <1>15, <1>16, <1>17, <1>18
  DEF PiStep, PiRepeats

LEMMA FaultSteps ==
  ASSUME [ShellNext]_shellVars, ~ Reset, ~ Restart, ~ Flip
  PROVE  UNCHANGED faults
<1>1. ASSUME HostStep PROVE UNCHANGED faults
  BY <1>1 DEF HostStep, simple_boot, get_op_string, Discard, ReplyInfo, Drain, SendCode, Success,
              Mismatch, BootTimeout, SyncDiscard, SyncReady, SyncDrain, SyncAck, SendJob, CodeGot,
              JobDone, ShellMismatch, ShellTimeout, HostReads, Die
<1>2. ASSUME UserStep PROVE UNCHANGED faults
  BY <1>2 DEF UserStep, ExitCommand, OtherCommand, RunCommand, Command
<1>3. ASSUME PiStep \/ PiRepeats PROVE UNCHANGED faults
  BY <1>3 DEF PiStep, PiRepeats, HasData, ProgInfo, PutCode, WrongOp, Copy, CopyDone, Up, HasOp,
              UnixReady, Exit, Run, IgnoreOp, RunArgs, SendCodeOp, ServerWrongOp, LoadJob,
              JobLoaded, Relay, CopyWords, PiReads, PiSends, boot_err, wait_for_data, wait_for_op
<1> QED
  BY <1>1, <1>2, <1>3 DEF ShellNext, shellVars, vars

(* Faults are counted, and trust once lost does not come back.              *)
LEMMA FaultsCounted ==
  ASSUME faults \in FaultType, [ShellNext]_shellVars
  PROVE  faults' \in FaultType /\ (Trusted' => Trusted)
<1>1. CASE UNCHANGED faults
  BY <1>1 DEF Trusted
<1>2. CASE Reset
  <2>1. faults.resets < MaxResets /\ faults' = [faults EXCEPT !.resets = @ + 1]
    BY <1>2 DEF Reset
  <2>2. faults'.flips = faults.flips
    BY <2>1 DEF FaultType
  <2> QED
    BY <2>1, <2>2, Counted DEF Trusted
<1>3. CASE Restart
  <2>1. faults.restarts < MaxRestarts /\ faults' = [faults EXCEPT !.restarts = @ + 1]
    BY <1>3 DEF Restart
  <2>2. faults'.flips = faults.flips
    BY <2>1 DEF FaultType
  <2> QED
    BY <2>1, <2>2, Counted DEF Trusted
<1>4. CASE Flip
  <2>1. faults.flips < MaxFlips /\ faults' = [faults EXCEPT !.flips = @ + 1]
    BY <1>4 DEF Flip
  <2> QED
    BY <2>1, Counted DEF Trusted
<1> QED
  BY <1>1, <1>2, <1>3, <1>4, FaultSteps

TrustedInv == LoadInv /\ faults \in FaultType /\ (Trusted => Typed)

LEMMA InitTrusted == ShellInit => TrustedInv
BY InitLoad, InitTyped DEF TrustedInv, Typed

LEMMA NextTrusted == TrustedInv /\ [ShellNext]_shellVars => TrustedInv'
<1> SUFFICES ASSUME TrustedInv, [ShellNext]_shellVars, Trusted' PROVE Typed'
  BY NextLoad, FaultsCounted DEF TrustedInv
<1>1. LineOK /\ pi \in PiType /\ Typed
  BY FaultsCounted DEF TrustedInv, LoadInv, PiOK
<1>2. CASE UNCHANGED shellVars
  <2>1. UNCHANGED <<toPi, toHost, pi, faults>>
    BY <1>2 DEF shellVars, vars
  <2> QED
    BY <1>1, <2>1 DEF Typed, Sound
<1>3. CASE ShellNext
  BY <1>1, <1>3, HostTyped, UserTyped, PiTyped, FaultTyped DEF ShellNext
<1> QED
  BY <1>2, <1>3

(* What holds as long as no damage has met the checksum of what is no image.*)
LEMMA TrustedTypes ==
  ASSUME TrustedInv, Trusted
  PROVE  ShellTypeOK /\ (pi.image = <<>> \/ \E p \in Images : pi.image = Code(p))
<1>1. /\ host \in HostType /\ cmd \in CmdType /\ pi \in PiType
      /\ toPi \in Seq(WordType) /\ toHost \in Seq(Byte) /\ Sound(pi) /\ faults \in FaultType
  BY DEF TrustedInv, LoadInv, LineOK, PiOK, Typed
<1>2. /\ pi.pc \in InLoader => pi.image = <<>>
      /\ pi.pc \notin InLoader => \E p \in Images : pi.image = Code(p)
  BY <1>1 DEF Sound
<1>3. pi.image \in Seq(Images) /\ (pi.pc \in InLoader <=> pi.image = <<>>)
  BY <1>2, ImageCode, EmptySeq
<1>4. pi \in [pc : PiPcs, nbytes : 0 .. Width - 1, crc : 0 .. Width - 1,
              mem : Seq(0 .. Width - 1), image : Seq(Images)]
  BY <1>1, <1>3 DEF Sound, PiType
<1>5. \A b \in ToSet(toHost) : b.i \in 0 .. 4 /\ b.v \in 0 .. Width - 1
  <2>1. \A b \in ToSet(toHost) : b \in Byte
    BY <1>1 DEF ToSet
  <2> QED
    BY <2>1 DEF Byte
<1>6. \A w \in ToSet(toPi) : w.v \in 0 .. Width - 1
  <2>1. \A w \in ToSet(toPi) : w \in WordType
    BY <1>1 DEF ToSet
  <2>2. \A v \in 1 .. Width - 1 : v \in 0 .. Width - 1
    BY Bounds
  <2> QED
    BY <2>1, <2>2 DEF WordType
<1>7. ShellTypeOK
  BY <1>1, <1>3, <1>4, <1>5, <1>6 DEF ShellTypeOK, HostType, CmdType, FaultType
<1> QED
  BY <1>2, <1>7

(* Host, Pi and line keep to their types through every reset, restart and   *)
(* damage; a Pi is behind its boot loader exactly when it runs an image.    *)
(* The exception is a damaged checksum that happens to be that of what is   *)
(* no image: then the Pi may run words that are none.                       *)
THEOREM ShellTyped == ShellSpec => [](Trusted => ShellTypeOK)
<1>1. TrustedInv => (Trusted => ShellTypeOK)
  BY TrustedTypes
<1>2. ShellSpec => []TrustedInv
  BY InitTrusted, NextTrusted, PTL DEF ShellSpec
<1> QED
  BY <1>1, <1>2, PTL

(* What the Pi jumps into is a whole image some host was started with: in   *)
(* part of one, or in a mix of two after a restart, get_code sees that the  *)
(* checksum announced is not that of what it has copied.                    *)
RunsImage == pi.image = <<>> \/ \E p \in Images : pi.image = Code(p)

THEOREM WholeImages == ShellSpec => [](Trusted => RunsImage)
<1>1. TrustedInv => (Trusted => RunsImage)
  BY TrustedTypes DEF RunsImage
<1>2. ShellSpec => []TrustedInv
  BY InitTrusted, NextTrusted, PTL DEF ShellSpec
<1> QED
  BY <1>1, <1>2, PTL

------------------------------------------------------------------------------
(* The dialogue of host and server, when nothing is reset or damaged.       *)

Undisturbed == faults.resets = 0 /\ faults.flips = 0

(* Words a server passes over.                                              *)
Mute == [op : (Opcodes \cup Kinds) \ {"RUN", "EXIT"}, v : 1 .. Width - 1]

Loud(w) == w.op \in {"RUN", "EXIT"}

OneLoud(s) == \A j, k \in 1 .. Len(s) : Loud(s[j]) /\ Loud(s[k]) => j = k

BytesOf(ops) == [op : ops, v : 0 .. Width - 1, i : 0 .. 4]

NoAck == BytesOf(HostOps \ {"ACK"})

Idle == BytesOf(HostOps \ {"ACK", "GET_PROG_INFO"})

(* ACK, or what is left of it, is the last on the line.                     *)
Ends(s) == \A k \in 1 .. Len(s) : s[k].op = "ACK" => Len(s) - k = 4 - s[k].i

(* No command is on its way.  The Pi reads what hosts have sent to its boot *)
(* loader, and it is the server when it sends ACK.                          *)
Before ==
  /\ host.pc \in {"get_info", "drain", "success", "sync", "ack", "dead", "exit"}
  /\ pi.pc \in InLoader \cup {"ready", "ready_wait", "unix", "main"}
  /\ toPi \in Seq(Mute)
  /\ Ends(toHost) /\ (pi.pc # "main" => toHost \in Seq(NoAck))

(* A command outlives its host.  The next one meets a Pi that does not ask. *)
Abandoned ==
  /\ host.pc \in {"get_info", "dead", "exit"}
  /\ toHost \in Seq(Idle)
  /\ \/ pi.pc = "main" /\ OneLoud(toPi)
     \/ pi.pc \in {"run", "send", "load", "relay"} /\ toPi \in Seq(Mute)

Ids(n) == [k \in 1 .. n |-> Item("id", k)]

Arguments(job, n) == <<Item("nbytes", Size[job]), Item("crc", job), Item("count", n)>> \o Ids(n)

RunWords(job, n) ==
  <<Op("RUN"), Item("nbytes", Size[job]), Item("crc", job), Item("count", n)>> \o Ids(n)

(* RUN is on its way, has been read, or has been answered.                  *)
Asked ==
  \/ /\ pi.pc = "main" /\ toHost = <<>>
     /\ \E n \in 0 .. Len(toPi) : /\ SubSeq(toPi, 1, n) \in Seq(Mute)
                                  /\ Drop(toPi, n) = RunWords(cmd.job, cmd.clients)
  \/ pi.pc = "run" /\ toHost = <<>> /\ toPi = Arguments(cmd.job, cmd.clients)
  \/ /\ pi.pc = "send" /\ pi.nbytes = Size[cmd.job] /\ pi.mem = <<>> /\ toPi = <<>>
     /\ toHost = Word("count", cmd.clients) \o Word("crc", cmd.job)

(* The job is on its way, has been read, or has been copied, and the server *)
(* has said so or has already sent it on.                                   *)
Loading ==
  \/ /\ pi.pc = "send" /\ pi.nbytes = Size[cmd.job] /\ pi.mem = <<>> /\ toHost = <<>>
     /\ toPi = <<Op("SEND_CODE")>> \o CodeItems(cmd.job)
  \/ /\ pi.pc = "load" /\ pi.nbytes = Size[cmd.job] /\ pi.mem = <<>> /\ toHost = <<>>
     /\ toPi = CodeItems(cmd.job)
  \/ /\ pi.pc = "load" /\ pi.nbytes = Size[cmd.job] /\ pi.mem = Code(cmd.job) /\ toHost = <<>>
     /\ toPi = <<>>
  \/ pi.pc = "relay" /\ pi.mem = Code(cmd.job) /\ toPi = <<>> /\ toHost = Word("CODE_GOT", 0)
  \/ /\ pi.pc = "main" /\ relayed = Code(cmd.job) /\ toPi = <<>>
     /\ toHost = Word("CODE_GOT", 0) \o Word("DONE", 0)

Relaying ==
  \/ pi.pc = "relay" /\ pi.mem = Code(cmd.job) /\ toPi = <<>> /\ toHost = <<>>
  \/ pi.pc = "main" /\ relayed = Code(cmd.job) /\ toPi = <<>> /\ toHost = Word("DONE", 0)

(* Host and server are in the same command.                                 *)
Serving ==
  \/ host.pc = "prompt" /\ pi.pc = "main" /\ toHost = <<>> /\ toPi \in Seq(Mute)
  \/ /\ cmd.job \in Jobs /\ cmd.clients \in Clients
     /\ \/ host.pc = "echo" /\ Asked
        \/ host.pc = "got" /\ Loading
        \/ host.pc = "done" /\ Relaying

Dialogue == Before \/ Abandoned \/ Serving

(* What the line to the Pi holds.                                           *)
LEMMA MuteWord ==
  ASSUME NEW w \in WordType
  PROVE  w \in Mute <=> ~ Loud(w)
BY DEF WordType, Mute, Loud, Opcodes, Kinds

LEMMA MuteLoud ==
  ASSUME NEW s \in Seq(Mute)
  PROVE  OneLoud(s)
<1>1. \A k \in 1 .. Len(s) : s[k] \in Mute
  OBVIOUS
<1>2. \A k \in 1 .. Len(s) : ~ Loud(s[k])
  BY <1>1 DEF Mute, Loud
<1> QED
  BY <1>2 DEF OneLoud

LEMMA MuteOp ==
  ASSUME NEW op \in Opcodes \ {"RUN", "EXIT"}
  PROVE  Op(op) \in Mute /\ <<Op(op)>> \in Seq(Mute)
<1>1. Op(op) \in Mute
  BY Bounds DEF Op, Item, Mute
<1> QED
  BY <1>1

LEMMA MuteItem ==
  ASSUME NEW op \in Kinds, NEW v \in 1 .. Width - 1
  PROVE  Item(op, v) \in Mute
BY DEF Item, Mute, Kinds

LEMMA MuteCode ==
  ASSUME NEW p \in Images
  PROVE  CodeItems(p) \in Seq(Mute)
<1>1. Size[p] \in Nat /\ Item("code", p) \in Mute
  BY Bounds, MuteItem DEF Kinds
<1> QED
  BY <1>1 DEF CodeItems

(* Parts of a line with one command have at most one.                       *)
LEMMA OneLoudCut ==
  ASSUME NEW s \in Seq(WordType), OneLoud(s), NEW n \in 0 .. Len(s)
  PROVE  OneLoud(SubSeq(s, 1, n))
<1> DEFINE t == SubSeq(s, 1, n)
<1>1. Len(t) = n /\ \A k \in 1 .. n : k \in 1 .. Len(s) /\ t[k] = s[k]
  OBVIOUS
<1> HIDE DEF t
<1>2. OneLoud(t)
  BY <1>1 DEF OneLoud
<1> QED
  BY <1>2 DEF t

LEMMA OneLoudTail ==
  ASSUME NEW s \in Seq(WordType), OneLoud(s), s # <<>>
  PROVE  OneLoud(Tail(s)) /\ (Loud(Head(s)) => Tail(s) \in Seq(Mute))
<1> DEFINE t == Tail(s)
<1>1. /\ t \in Seq(WordType) /\ Len(t) = Len(s) - 1 /\ Len(s) \in Nat /\ Len(s) >= 1
      /\ \A k \in 1 .. Len(t) : t[k] = s[k + 1]
      /\ Head(s) = s[1]
  OBVIOUS
<1> HIDE DEF t
<1>2. \A k \in 1 .. Len(t) : k + 1 \in 1 .. Len(s) /\ 1 \in 1 .. Len(s) /\ k + 1 # 1 /\ k \in Nat
  BY <1>1
<1>3. OneLoud(t)
  <2> SUFFICES ASSUME NEW j \in 1 .. Len(t), NEW k \in 1 .. Len(t), Loud(t[j]), Loud(t[k])
               PROVE  j = k
    BY DEF OneLoud
  <2>1. Loud(s[j + 1]) /\ Loud(s[k + 1])
    BY <1>1
  <2>2. j + 1 = k + 1
    BY <1>2, <2>1 DEF OneLoud
  <2> QED
    BY <1>2, <2>2
<1>4. ASSUME Loud(Head(s)) PROVE t \in Seq(Mute)
  <2>1. \A k \in 1 .. Len(t) : ~ Loud(t[k])
    BY <1>1, <1>2, <1>4 DEF OneLoud
  <2>2. \A k \in 1 .. Len(t) : t[k] \in WordType
    BY <1>1
  <2>3. \A k \in 1 .. Len(t) : t[k] \in Mute
    BY <2>1, <2>2, MuteWord
  <2> QED
    BY <1>1, <2>3
<1> QED
  BY <1>3, <1>4 DEF t

LEMMA OneLoudJoin ==
  ASSUME NEW s \in Seq(Mute), NEW t \in Seq(WordType), t # <<>>, Tail(t) \in Seq(Mute)
  PROVE  OneLoud(s \o t)
<1> DEFINE u == s \o t
<1>1. /\ Len(s) \in Nat /\ Len(t) \in Nat /\ Len(u) = Len(s) + Len(t)
      /\ \A k \in 1 .. Len(s) : u[k] = s[k] /\ s[k] \in Mute
      /\ \A k \in 1 .. Len(t) : u[Len(s) + k] = t[k]
      /\ \A k \in 1 .. Len(t) - 1 : t[k + 1] \in Mute
  <2>1. \A k \in 1 .. Len(t) - 1 : Tail(t)[k] = t[k + 1] /\ Tail(t)[k] \in Mute
    OBVIOUS
  <2>2. \A k \in 1 .. Len(s) : s[k] \in Mute
    OBVIOUS
  <2> QED
    BY <2>1, <2>2
<1> HIDE DEF u
<1>2. ASSUME NEW k \in 1 .. Len(u), k # Len(s) + 1 PROVE u[k] \in Mute
  <2>1. CASE k <= Len(s)
    BY <1>1, <2>1
  <2>2. CASE k > Len(s) + 1
    <3>1. /\ k - Len(s) - 1 \in 1 .. Len(t) - 1 /\ k - Len(s) \in 1 .. Len(t)
          /\ Len(s) + (k - Len(s)) = k /\ (k - Len(s) - 1) + 1 = k - Len(s)
      BY <1>1, <2>2
    <3>2. u[k] = t[k - Len(s)] /\ t[k - Len(s)] \in Mute
      BY <1>1, <3>1
    <3> QED
      BY <3>2
  <2> QED
    BY <1>1, <1>2, <2>1, <2>2
<1>3. \A k \in 1 .. Len(u) : Loud(u[k]) => k = Len(s) + 1
  BY <1>2 DEF Mute, Loud
<1>4. OneLoud(u)
  BY <1>3 DEF OneLoud
<1> QED
  BY <1>4 DEF u

LEMMA Elements ==
  ASSUME NEW S, NEW T, NEW s \in Seq(S), NEW t \in Seq(T)
  PROVE  /\ Len(s) \in Nat /\ Len(t) \in Nat /\ Len(s \o t) = Len(s) + Len(t)
         /\ \A k \in 1 .. Len(s) : (s \o t)[k] = s[k]
         /\ \A k \in 1 .. Len(t) : (s \o t)[Len(s) + k] = t[k]
OBVIOUS

(* What the line to the host holds.                                         *)
LEMMA WordIn ==
  ASSUME NEW ops, NEW op \in ops, NEW v \in 0 .. Width - 1
  PROVE  /\ Word(op, v) \in Seq(BytesOf(ops)) /\ Len(Word(op, v)) = 4
         /\ \A k \in 1 .. 4 : Word(op, v)[k].op = op /\ Word(op, v)[k].v = v /\ Word(op, v)[k].i = k
<1>1. \A i \in 1 .. 4 : [op |-> op, v |-> v, i |-> i] \in BytesOf(ops)
  BY DEF BytesOf
<1> QED
  BY <1>1 DEF Word

LEMMA JunkIn ==
  ASSUME NEW ops, "junk" \in ops, NEW n \in Nat
  PROVE  Junk(n) \in Seq(BytesOf(ops))
<1>1. [op |-> "junk", v |-> 0, i |-> 0] \in BytesOf(ops)
  BY Bounds DEF BytesOf
<1> QED
  BY <1>1 DEF Junk

LEMMA SaidIn ==
  /\ boot_putk \o Word("BOOT_ERROR", 0) \in Seq(NoAck)
  /\ boot_putk \o Word("BOOT_SUCCESS", 0) \in Seq(NoAck)
<1>1. 0 \in 0 .. Width - 1
  BY Bounds
<1>2. /\ Word("PRINT_STRING", 0) \in Seq(NoAck) /\ Word("strlen", 0) \in Seq(NoAck)
      /\ Word("BOOT_ERROR", 0) \in Seq(NoAck) /\ Word("BOOT_SUCCESS", 0) \in Seq(NoAck)
  BY <1>1, WordIn DEF NoAck, HostOps
<1>3. Junk(TextLen) \in Seq(NoAck)
  BY JunkIn, BootLoaderAssumption DEF NoAck, HostOps
<1>4. boot_putk \in Seq(NoAck)
  BY <1>2, <1>3, Put DEF boot_putk
<1> QED
  BY <1>2, <1>4, Put

LEMMA IdleNoAck == ASSUME NEW s \in Seq(Idle) PROVE s \in Seq(NoAck)
<1>1. \A b \in Idle : b \in NoAck
  BY DEF Idle, NoAck, BytesOf
<1>2. \A k \in 1 .. Len(s) : s[k] \in Idle
  OBVIOUS
<1> QED
  BY <1>1, <1>2

LEMMA NoAckEnds == ASSUME NEW s \in Seq(NoAck) PROVE Ends(s)
<1>1. \A k \in 1 .. Len(s) : s[k] \in NoAck
  OBVIOUS
<1> QED
  BY <1>1 DEF Ends, NoAck, BytesOf

LEMMA EndsDrop ==
  ASSUME NEW s \in Seq(Byte), Ends(s), NEW n \in 0 .. Len(s)
  PROVE  Ends(Drop(s, n))
<1> DEFINE t == Drop(s, n)
<1>1. /\ Len(t) = Len(s) - n /\ Len(s) \in Nat /\ n \in Nat /\ n <= Len(s)
      /\ \A k \in 1 .. Len(t) : t[k] = s[k + n] /\ k + n \in 1 .. Len(s)
  BY DEF Drop
<1> HIDE DEF t
<1>2. ASSUME NEW k \in 1 .. Len(t), t[k].op = "ACK" PROVE Len(t) - k = 4 - t[k].i
  <2>1. Len(s) - (k + n) = 4 - s[k + n].i
    BY <1>1, <1>2 DEF Ends
  <2> QED
    BY <1>1, <2>1
<1> QED
  BY <1>2 DEF Ends, t

(* ACK follows.                                                             *)
LEMMA AckEnds ==
  ASSUME NEW s \in Seq(NoAck)
  PROVE  Ends(s \o Word("ACK", 0))
<1> DEFINE a == Word("ACK", 0)
           u == s \o a
<1>0. 0 \in 0 .. Width - 1
  BY Bounds
<1>1. a \in Seq(Byte) /\ Len(a) = 4 /\ \A k \in 1 .. 4 : a[k].i = k
  <2>1. "ACK" \in HostOps
    BY DEF HostOps
  <2> QED
    BY <1>0, <2>1, WordIn, WordBytes
<1> HIDE DEF a
<1>2. /\ Len(u) = Len(s) + 4 /\ Len(s) \in Nat
      /\ \A k \in 1 .. Len(s) : u[k] = s[k] /\ s[k] \in NoAck
      /\ \A k \in 1 .. 4 : u[Len(s) + k] = a[k]
  <2>1. \A k \in 1 .. Len(s) : s[k] \in NoAck
    OBVIOUS
  <2>2. s \in Seq(NoAck) /\ a \in Seq(Byte)
    BY <1>1
  <2>3. /\ Len(s) \in Nat /\ Len(s \o a) = Len(s) + Len(a)
        /\ \A k \in 1 .. Len(s) : (s \o a)[k] = s[k]
        /\ \A k \in 1 .. Len(a) : (s \o a)[Len(s) + k] = a[k]
    BY <2>2, Elements
  <2> QED
    BY <1>1, <2>1, <2>3
<1> HIDE DEF u
<1>3. ASSUME NEW k \in 1 .. Len(u), u[k].op = "ACK" PROVE Len(u) - k = 4 - u[k].i
  <2>1. CASE k <= Len(s)
    <3>1. u[k] \in NoAck
      BY <1>2, <2>1
    <3> QED
      BY <1>3, <3>1 DEF NoAck, BytesOf
  <2>2. CASE k > Len(s)
    <3> DEFINE j == k - Len(s)
    <3>1. j \in 1 .. 4 /\ Len(s) + j = k
      BY <1>2, <2>2
    <3>2. u[k] = a[j]
      BY <1>2, <3>1
    <3>3. u[k].i = j
      BY <1>1, <3>1, <3>2
    <3> QED
      BY <1>2, <3>1, <3>3
  <2> QED
    BY <1>2, <2>1, <2>2
<1> QED
  BY <1>3 DEF Ends, u, a

(* The host reads ACK.                                                      *)
LEMMA AckRead ==
  ASSUME toHost \in Seq(Byte), Ends(toHost), Starts("ACK")
  PROVE  Drop(toHost, 4) = <<>> /\ toHost \notin Seq(NoAck)
<1>1. Len(toHost) \in Nat /\ Len(toHost) >= 4 /\ toHost[1].op = "ACK" /\ toHost[1].i = 1
  BY DEF Starts
<1>2. Len(toHost) - 1 = 4 - 1
  <2>1. 1 \in 1 .. Len(toHost)
    BY <1>1
  <2>2. Len(toHost) - 1 = 4 - toHost[1].i
    BY <1>1, <2>1 DEF Ends
  <2> QED
    BY <1>1, <2>2
<1>3. Len(toHost) = 4
  BY <1>1, <1>2
<1>4. Drop(toHost, 4) = <<>>
  BY <1>3 DEF Drop
<1>5. ASSUME toHost \in Seq(NoAck) PROVE FALSE
  <2>1. toHost[1] \in NoAck
    BY <1>3, <1>5
  <2> QED
    BY <1>1, <2>1 DEF NoAck, BytesOf
<1> QED
  BY <1>4, <1>5

(* What the Pi says adds to the line, unless the host has stopped.          *)
LEMMA Heard ==
  ASSUME NEW T, toHost \in Seq(T), NEW s \in Seq(T)
  PROVE  ToHost(s) \in Seq(T)
BY Put, EmptySeq DEF ToHost

(* Two words after each other.                                              *)
LEMMA JoinHalves ==
  ASSUME NEW T, NEW s \in Seq(T), NEW t \in Seq(T)
  PROVE  /\ Len(s) \in 0 .. Len(s \o t)
         /\ SubSeq(s \o t, 1, Len(s)) = s /\ Drop(s \o t, Len(s)) = t
<1> DEFINE u == s \o t
           n == Len(s)
           a == SubSeq(u, 1, n)
           b == Drop(u, n)
<1>1. /\ u \in Seq(T) /\ n \in Nat /\ Len(t) \in Nat /\ Len(u) = n + Len(t)
      /\ \A k \in 1 .. n : u[k] = s[k]
      /\ \A k \in 1 .. Len(t) : u[n + k] = t[k]
  BY Put, Elements
<1> HIDE DEF u, n
<1>2. n \in 0 .. Len(u)
  BY <1>1
<1>3. /\ a \in Seq(T) /\ Len(a) = n /\ \A k \in 1 .. n : a[k] = u[k]
      /\ b \in Seq(T) /\ Len(b) = Len(u) - n /\ \A k \in 1 .. Len(u) - n : b[k] = u[n + k]
  BY <1>1, <1>2 DEF Drop
<1> HIDE DEF a, b
<1>4. a = s
  <2>1. Len(a) = Len(s) /\ \A k \in 1 .. Len(s) : a[k] = s[k]
    BY <1>1, <1>3 DEF n
  <2> QED
    BY <1>3, <2>1
<1>5. b = t
  <2>1. Len(u) - n = Len(t)
    BY <1>1
  <2>2. Len(b) = Len(t) /\ \A k \in 1 .. Len(t) : b[k] = t[k]
    BY <1>1, <1>3, <2>1
  <2>3. b \in Seq(T) /\ t \in Seq(T)
    BY <1>3
  <2> QED
    BY <2>2, <2>3
<1> QED
  BY <1>2, <1>4, <1>5 DEF a, b, u, n

LEMMA WordElements ==
  ASSUME NEW s \in Seq(WordType), NEW t \in Seq(WordType)
  PROVE  /\ Len(s) \in Nat /\ Len(t) \in Nat /\ Len(s \o t) = Len(s) + Len(t)
         /\ \A k \in 1 .. Len(s) : (s \o t)[k] = s[k]
         /\ \A k \in 1 .. Len(t) : (s \o t)[Len(s) + k] = t[k]
OBVIOUS

LEMMA WordsApart ==
  ASSUME NEW t \in Seq(Byte), NEW u \in Seq(Byte), Len(t) = 4, Len(u) = 4
  PROVE  /\ t \o u \in Seq(Byte) /\ Len(t \o u) = 8
         /\ Drop(t \o u, 8) = <<>> /\ Drop(t \o u, 4) = u
         /\ \A k \in 1 .. 4 : (t \o u)[k] = t[k] /\ (t \o u)[4 + k] = u[k]
<1>1. t \in Seq(Byte) /\ u \in Seq(Byte)
  OBVIOUS
<1>2. t \o u \in Seq(Byte)
  BY <1>1, Put
<1>3. Drop(t \o u, Len(t)) = u
  BY <1>1, JoinHalves
<1>4. /\ Len(t \o u) = Len(t) + Len(u)
      /\ \A k \in 1 .. Len(t) : (t \o u)[k] = t[k]
      /\ \A k \in 1 .. Len(u) : (t \o u)[Len(t) + k] = u[k]
  <2>1. \A a, b \in Seq(Byte) :
          /\ Len(a \o b) = Len(a) + Len(b)
          /\ \A k \in 1 .. Len(a) : (a \o b)[k] = a[k]
          /\ \A k \in 1 .. Len(b) : (a \o b)[Len(a) + k] = b[k]
    BY Elements
  <2> QED
    BY <1>1, <2>1
<1> DEFINE s == t \o u
<1>5. s \in Seq(Byte) /\ Len(s) = 8
  BY <1>2, <1>4
<1> HIDE DEF s
<1>6. Drop(s, 8) = <<>>
  BY <1>5 DEF Drop
<1>7. Drop(s, 8) = Drop(t \o u, 8)
  BY DEF s
<1>8. \A k \in 1 .. 4 : (t \o u)[k] = t[k] /\ (t \o u)[4 + k] = u[k]
  BY <1>4
<1> QED
  BY <1>2, <1>3, <1>4, <1>6, <1>7, <1>8

(* Which steps a server takes.                                              *)
LEMMA ServerSteps ==
  ASSUME PiStep \/ PiRepeats
  PROVE  /\ pi.pc = "main" => Exit \/ Run \/ IgnoreOp
         /\ pi.pc = "run" => RunArgs
         /\ pi.pc = "send" => SendCodeOp \/ (ServerWrongOp /\ Other32("SEND_CODE"))
         /\ pi.pc = "load" => LoadJob \/ JobLoaded
         /\ pi.pc = "relay" => Relay
<1>1. (wait_for_data \/ HasData \/ ProgInfo \/ PutCode \/ WrongOp \/ Copy \/ CopyDone \/ Up)
        => pi.pc \in InLoader
  BY DEF wait_for_data, HasData, ProgInfo, PutCode, WrongOp, Copy, CopyDone, Up, PiAt, InLoader
<1>2. wait_for_op \/ HasOp => pi.pc \in {"ready", "ready_wait"}
  BY DEF wait_for_op, HasOp, PiAt
<1>3. /\ UnixReady => pi.pc = "unix"
      /\ Exit \/ Run \/ IgnoreOp => pi.pc = "main"
      /\ RunArgs => pi.pc = "run"
      /\ SendCodeOp => pi.pc = "send"
      /\ LoadJob \/ JobLoaded => pi.pc = "load"
      /\ Relay => pi.pc = "relay"
      /\ ServerWrongOp => pi.pc = "unix" \/ (pi.pc = "send" /\ Other32("SEND_CODE"))
  BY DEF UnixReady, Exit, Run, IgnoreOp, RunArgs, SendCodeOp, LoadJob, JobLoaded, Relay,
         ServerWrongOp, PiReads, PiAt
<1> QED
  BY <1>1, <1>2, <1>3 DEF PiStep, PiRepeats, InLoader

------------------------------------------------------------------------------
(* Before: a host that synchronizes.                                        *)
LEMMA HostBefore ==
  ASSUME LineOK, Typed, Before, HostStep
  PROVE  Before' \/ Serving'
<1> DEFINE Pcs == {"get_info", "drain", "success", "sync", "ack", "dead", "exit"}
<1>0. /\ host \in HostType /\ host.pc \in Pcs
      /\ toPi \in Seq(Mute) /\ toHost \in Seq(Byte) /\ Len(toHost) \in Nat
  BY DEF LineOK, Typed, Before
<1>1. ASSUME UNCHANGED pi, host'.pc \in Pcs, toPi' \in Seq(Mute),
             toHost' = <<>> \/ \E n \in 0 .. Len(toHost) : toHost' = Drop(toHost, n)
      PROVE  Before'
  <2>1. CASE toHost' = <<>>
    <3>1. toHost' \in Seq(NoAck)
      BY <2>1, EmptySeq
    <3>2. Ends(toHost')
      BY <3>1, NoAckEnds
    <3> QED
      BY <1>1, <3>1, <3>2 DEF Before
  <2>2. ASSUME NEW n \in 0 .. Len(toHost), toHost' = Drop(toHost, n) PROVE Before'
    <3>1. Ends(toHost')
      BY <1>0, <2>2, EndsDrop DEF Before
    <3>2. pi.pc # "main" => toHost' \in Seq(NoAck)
      BY <2>2, Parts DEF Before
    <3> QED
      BY <1>1, <3>1, <3>2 DEF Before
  <2> QED
    BY <1>1, <2>1, <2>2
<1>2. /\ \A n \in Nat : Len(toHost) >= n => n \in 0 .. Len(toHost)
      /\ \A op : Starts(op) => 4 \in 0 .. Len(toHost)
      /\ 8 + TextLen \in Nat
  BY <1>0, BootLoaderAssumption DEF Starts
<1>3. ASSUME NEW next, HostTo(next) PROVE host'.pc = next
  BY <1>0, <1>3 DEF HostTo, HostType
<1>4. CASE (get_op_string \/ Discard \/ Drain) /\ Keep
  <2>1. /\ UNCHANGED <<pi, toPi, host>>
        /\ \E n \in 0 .. Len(toHost) : toHost' = Drop(toHost, n)
    BY <1>2, <1>4 DEF get_op_string, Discard, Drain
  <2> QED
    BY <1>0, <1>1, <2>1
<1>5. CASE ReplyInfo /\ Keep
  <2>1. /\ UNCHANGED pi /\ host'.pc = "drain"
        /\ \E n \in 0 .. Len(toHost) : toHost' = Drop(toHost, n)
        /\ toPi' = toPi \o <<Op("PUT_PROG_INFO"), Item("addr", ARMBASE),
                             Item("nbytes", Size[host.image]), Item("crc", host.image)>>
    BY <1>2, <1>3, <1>5 DEF ReplyInfo
  <2>2. host.image \in Images
    BY <1>0 DEF HostType
  <2>3. /\ Op("PUT_PROG_INFO") \in Mute /\ Item("addr", ARMBASE) \in Mute
        /\ Item("nbytes", Size[host.image]) \in Mute /\ Item("crc", host.image) \in Mute
    BY <2>2, MuteOp, MuteItem, Bounds DEF Opcodes, Kinds
  <2>4. <<Op("PUT_PROG_INFO"), Item("addr", ARMBASE), Item("nbytes", Size[host.image]),
          Item("crc", host.image)>> \in Seq(Mute)
    BY <2>3
  <2>5. toPi' \in Seq(Mute)
    BY <1>0, <2>1, <2>4, Put
  <2> QED
    BY <1>1, <2>1, <2>5
<1>6. CASE SendCode /\ Keep
  <2>1. /\ UNCHANGED pi /\ host'.pc = "success"
        /\ \E n \in 0 .. Len(toHost) : toHost' = Drop(toHost, n)
        /\ toPi' = toPi \o <<Op("PUT_CODE")>> \o CodeItems(host.image)
    BY <1>2, <1>3, <1>6 DEF SendCode
  <2>2. host.image \in Images
    BY <1>0 DEF HostType
  <2>3. <<Op("PUT_CODE")>> \in Seq(Mute) /\ CodeItems(host.image) \in Seq(Mute)
    BY <2>2, MuteOp, MuteCode DEF Opcodes
  <2>4. toPi' \in Seq(Mute)
    BY <1>0, <2>1, <2>3, Put
  <2> QED
    BY <1>1, <2>1, <2>4
<1>7. CASE Success /\ Keep
  <2>1. /\ UNCHANGED <<pi, toPi>> /\ host'.pc = "sync"
        /\ \E n \in 0 .. Len(toHost) : toHost' = Drop(toHost, n)
    BY <1>2, <1>3, <1>7 DEF Success
  <2> QED
    BY <1>0, <1>1, <2>1
<1>8. CASE ((Mismatch \/ BootTimeout(PiWaits)) /\ Keep) \/ ShellMismatch \/ ShellTimeout(PiWaits)
  <2>1. UNCHANGED <<pi, toPi>> /\ host'.pc = "dead" /\ toHost' = <<>>
    BY <1>3, <1>8 DEF Mismatch, BootTimeout, ShellMismatch, ShellTimeout, Die
  <2> QED
    BY <1>0, <1>1, <2>1
<1>9. CASE SyncDiscard
  <2>1. /\ UNCHANGED <<pi, toPi, host>>
        /\ \E n \in 0 .. Len(toHost) : toHost' = Drop(toHost, n)
    BY <1>2, <1>9 DEF SyncDiscard
  <2> QED
    BY <1>0, <1>1, <2>1
<1>10. CASE SyncReady
  <2>1. /\ UNCHANGED pi /\ host'.pc = "ack"
        /\ \E n \in 0 .. Len(toHost) : toHost' = Drop(toHost, n)
        /\ toPi' = Append(toPi, Op("UNIX_READY"))
    BY <1>2, <1>3, <1>10 DEF SyncReady, HostReads
  <2>2. Op("UNIX_READY") \in Mute
    BY MuteOp DEF Opcodes
  <2>3. toPi' \in Seq(Mute)
    BY <1>0, <2>1, <2>2
  <2> QED
    BY <1>1, <2>1, <2>3
<1>11. CASE SyncDrain
  <2>1. /\ UNCHANGED <<pi, toPi>> /\ host'.pc = "ack"
        /\ \E n \in 0 .. Len(toHost) : toHost' = Drop(toHost, n)
    BY <1>2, <1>3, <1>11 DEF SyncDrain, HostReads
  <2> QED
    BY <1>0, <1>1, <2>1
<1>12. CASE SyncAck
  <2>1. /\ UNCHANGED <<pi, toPi>> /\ host'.pc = "prompt" /\ Starts("ACK")
        /\ toHost' = Drop(toHost, 4)
    BY <1>3, <1>12 DEF SyncAck, HostReads
  <2>2. toHost' = <<>> /\ toHost \notin Seq(NoAck)
    BY <1>0, <2>1, AckRead DEF Before
  <2>3. pi'.pc = "main"
    BY <2>1, <2>2 DEF Before
  <2> QED
    BY <1>0, <2>1, <2>2, <2>3 DEF Serving
<1>13. ~ SendJob /\ ~ CodeGot /\ ~ JobDone
  BY <1>0 DEF SendJob, CodeGot, JobDone, HostReads, HostAt
<1> QED
  BY <1>4, <1>5, <1>6, <1>7, <1>8, <1>9, <1>10, <1>11, <1>12, <1>13 DEF HostStep, simple_boot

LEMMA PiBefore ==
  ASSUME LineOK, PiOK, Typed, Before, PiStep \/ PiRepeats
  PROVE  Before'
<1>0. /\ toPi \in Seq(Mute) /\ toHost \in Seq(Byte) /\ pi \in PiType
      /\ Len(toPi) \in Nat
  BY DEF Typed, Before, PiOK
<1> DEFINE Rest == \/ toPi' = toPi
                   \/ toPi # <<>> /\ toPi' = Tail(toPi)
                   \/ \E n \in 0 .. Len(toPi) : toPi' = Drop(toPi, n)
           Sent == toHost' = toHost \/ \E s \in Seq(NoAck) : toHost' = ToHost(s)
           To(next) == pi' = [pi EXCEPT !.pc = next]
           Quiet == InLoader \cup {"ready", "ready_wait", "unix"}
<1>1. Rest => toPi' \in Seq(Mute)
  BY <1>0, Parts
<1>2. ASSUME UNCHANGED host, Rest, Sent, pi.pc # "main", pi'.pc \in Quiet PROVE Before'
  <2>1. toHost \in Seq(NoAck)
    BY <1>2 DEF Before
  <2>2. toHost' \in Seq(NoAck)
    BY <1>2, <2>1, Heard
  <2>3. Ends(toHost')
    BY <2>2, NoAckEnds
  <2> QED
    BY <1>1, <1>2, <2>2, <2>3 DEF Before
<1> HIDE DEF Rest, Sent
<1>3. /\ UNCHANGED toPi => Rest
      /\ toPi # <<>> /\ toPi' = Tail(toPi) => Rest
      /\ \A n \in 0 .. Len(toPi) : toPi' = Drop(toPi, n) => Rest
      /\ UNCHANGED toHost => Sent
      /\ \A s \in Seq(NoAck) : toHost' = ToHost(s) => Sent
  BY DEF Rest, Sent
<1>4. /\ Junk(8) \in Seq(NoAck) /\ <<>> \in Seq(NoAck)
      /\ \A op \in HostOps \ {"ACK"} : Word(op, 0) \in Seq(NoAck)
  <2>1. 0 \in 0 .. Width - 1 /\ "junk" \in HostOps \ {"ACK"}
    BY Bounds DEF HostOps
  <2>2. Junk(8) \in Seq(NoAck)
    BY <2>1, JunkIn DEF NoAck
  <2>3. \A op \in HostOps \ {"ACK"} : Word(op, 0) \in Seq(NoAck)
    BY <2>1, WordIn DEF NoAck
  <2> QED
    BY <2>2, <2>3, EmptySeq
<1>5. ASSUME NEW next, To(next) PROVE pi'.pc = next
  BY <1>0, <1>5 DEF PiType
<1>6. pi' = Rebooting => pi'.pc \in Quiet
  BY DEF Rebooting, InLoader
<1>7. CASE (HasData \/ wait_for_data) /\ Keep
  <2>1. /\ pi.pc \in {"ask", "wait"} /\ UNCHANGED <<host, toPi>> /\ pi'.pc \in {"info", "wait"}
        /\ toHost' = toHost \/ toHost' = ToHost(Word("GET_PROG_INFO", 0))
    BY <1>5, <1>7 DEF HasData, wait_for_data, PiAt, PiSends
  <2> QED
    BY <1>2, <1>3, <1>4, <2>1 DEF HostOps, InLoader
<1>8. CASE ProgInfo /\ Keep
  <2>1. /\ Len(toPi) >= 4 /\ pi.pc = "info" /\ UNCHANGED host /\ toPi' = Drop(toPi, 4)
    BY <1>8 DEF ProgInfo, PiAt, boot_err, PiSends
  <2>2. Rest
    BY <1>0, <1>3, <2>1
  <2>3. CASE Collides(toPi[2].v, toPi[3].v)
    <3>1. toHost' = ToHost(boot_putk \o Word("BOOT_ERROR", 0)) /\ pi' = Rebooting
      BY <1>8, <2>3 DEF ProgInfo, boot_err, PiSends
    <3> QED
      BY <1>2, <1>3, <1>6, <2>1, <2>2, <3>1, SaidIn
  <2>4. CASE ~ Collides(toPi[2].v, toPi[3].v)
    <3>1. /\ pi' = [pi EXCEPT !.pc = "code", !.nbytes = toPi[3].v, !.crc = toPi[4].v]
          /\ toHost' = ToHost(Word("GET_CODE", 0) \o Word("crc", toPi[4].v))
      BY <1>8, <2>4 DEF ProgInfo, PiSends
    <3>2. pi'.pc = "code"
      BY <1>0, <3>1 DEF PiType
    <3>3. toPi[4] \in Mute
      BY <1>0, <2>1
    <3>4. toPi[4].v \in 0 .. Width - 1
      BY <3>3, Bounds DEF Mute
    <3>5. Word("GET_CODE", 0) \in Seq(NoAck) /\ Word("crc", toPi[4].v) \in Seq(NoAck)
      BY <1>4, <3>4, WordIn DEF HostOps, NoAck
    <3>6. Sent
      BY <1>3, <3>1, <3>5, Put
    <3> QED
      BY <1>2, <2>1, <2>2, <3>2, <3>6 DEF InLoader
  <2> QED
    BY <2>3, <2>4
<1>9. CASE PutCode /\ Keep
  <2>1. /\ pi.pc = "code" /\ pi'.pc = "copy" /\ UNCHANGED <<host, toHost>>
        /\ toPi # <<>> /\ toPi' = Tail(toPi)
    BY <1>5, <1>9 DEF PutCode, PiAt, Next32
  <2> QED
    BY <1>2, <1>3, <2>1 DEF InLoader
<1>10. CASE (WrongOp /\ Keep) \/ ServerWrongOp
  <2>1. /\ toPi # <<>> /\ toPi' = Tail(toPi) /\ UNCHANGED host /\ pi' = Rebooting /\ pi.pc # "main"
        /\ toHost' = ToHost(boot_putk \o Word("BOOT_ERROR", 0))
    BY <1>10 DEF WrongOp, ServerWrongOp, Other32, PiAt, boot_err, PiSends
  <2> QED
    BY <1>2, <1>3, <1>6, <2>1, SaidIn
<1>11. CASE Copy /\ Keep
  <2>1. CopyWords /\ pi.pc = "copy" /\ UNCHANGED <<host, toHost>>
    BY <1>11 DEF Copy, CopyWords, PiAt
  <2>2. pi'.pc = "copy" /\ \E n \in 0 .. Len(toPi) : toPi' = Drop(toPi, n)
    BY <1>0, <2>1, Copied
  <2> QED
    BY <1>2, <1>3, <2>1, <2>2 DEF InLoader
<1>12. CASE CopyDone /\ Keep
  <2>1. /\ UNCHANGED <<host, toPi>> /\ pi.pc = "copy"
        /\ \/ toHost' = ToHost(boot_putk \o Word("BOOT_ERROR", 0)) /\ pi' = Rebooting
           \/ /\ toHost' = ToHost(boot_putk \o Word("BOOT_SUCCESS", 0))
              /\ pi' = [pi EXCEPT !.pc = "ready", !.image = pi.mem]
    BY <1>12 DEF CopyDone, PiAt, boot_err, PiSends
  <2>2. pi' = [pi EXCEPT !.pc = "ready", !.image = pi.mem] => pi'.pc = "ready"
    BY <1>0 DEF PiType
  <2> QED
    BY <1>2, <1>3, <1>6, <2>1, <2>2, SaidIn
<1>13. CASE Up /\ Keep
  <2>1. /\ UNCHANGED <<host, toHost>> /\ pi.pc = "down" /\ pi'.pc = "ask"
        /\ \E n \in 0 .. Len(toPi) : toPi' = Drop(toPi, n)
    BY <1>5, <1>13 DEF Up, PiAt
  <2> QED
    BY <1>2, <1>3, <2>1 DEF InLoader
<1>14. CASE wait_for_op \/ HasOp
  <2>1. /\ UNCHANGED <<host, toPi>> /\ pi'.pc \in {"ready_wait", "unix"} /\ pi.pc # "main"
        /\ toHost' = toHost \/ toHost' = ToHost(Word("PI_READY", 0))
    BY <1>5, <1>14 DEF wait_for_op, HasOp, PiAt, PiSends
  <2> QED
    BY <1>2, <1>3, <1>4, <2>1 DEF HostOps
<1>15. CASE UnixReady
  <2>1. /\ toPi # <<>> /\ toPi' = Tail(toPi) /\ UNCHANGED host /\ pi.pc = "unix" /\ pi'.pc = "main"
        /\ toHost' = ToHost(Word("ACK", 0))
    BY <1>5, <1>15 DEF UnixReady, PiReads, PiAt, Next32, PiSends
  <2>2. toHost \in Seq(NoAck)
    BY <2>1 DEF Before
  <2>3. Ends(toHost')
    <3>1. CASE host.pc \in Stopped
      BY <1>4, <2>1, <3>1, NoAckEnds DEF ToHost
    <3>2. CASE host.pc \notin Stopped
      BY <2>1, <2>2, <3>2, AckEnds DEF ToHost
    <3> QED
      BY <3>1, <3>2
  <2>4. toPi' \in Seq(Mute)
    BY <1>1, <1>3, <2>1
  <2> QED
    BY <2>1, <2>3, <2>4 DEF Before
<1>16. CASE pi.pc = "main"
  <2>1. \A op \in {"RUN", "EXIT"} : ~ Next32(op)
    <3>1. toPi # <<>> => Head(toPi) \in Mute
      BY <1>0
    <3> QED
      BY <3>1 DEF Next32, Mute
  <2>2. IgnoreOp
    BY <1>16, <2>1, ServerSteps DEF Exit, Run, PiReads
  <2>3. toPi # <<>> /\ toPi' = Tail(toPi) /\ UNCHANGED <<host, pi, toHost>>
    BY <2>2 DEF IgnoreOp, Other32
  <2>4. toPi' \in Seq(Mute)
    BY <1>1, <1>3, <2>3
  <2> QED
    BY <2>3, <2>4 DEF Before
<1>17. /\ RunArgs => pi.pc = "run"
       /\ SendCodeOp => pi.pc = "send"
       /\ LoadJob \/ JobLoaded => pi.pc = "load"
       /\ Relay => pi.pc = "relay"
       /\ Exit \/ Run \/ IgnoreOp => pi.pc = "main"
  BY DEF RunArgs, SendCodeOp, LoadJob, JobLoaded, Relay, Exit, Run, IgnoreOp, PiReads, PiAt
<1>18. pi.pc \notin {"run", "send", "load", "relay"}
  BY DEF Before, InLoader
<1> QED
  BY <1>7, <1>8, <1>9, <1>10, <1>11, <1>12, <1>13, <1>14, <1>15, <1>16, <1>17, <1>18
  DEF PiStep, PiRepeats

------------------------------------------------------------------------------
(* Abandoned: a command whose host has gone.                                *)

LEMMA ArgsWords ==
  ASSUME toPi \in Seq(WordType), Len(toPi) >= ArgsLen
  PROVE  /\ ArgsLen \in 0 .. Len(toPi) /\ ArgsLen = 3 + toPi[3].v
         /\ \A k \in 1 .. 3 : toPi[k].v \in 0 .. Width - 1
<1> DEFINE a == ArgsLen
           v == toPi[3].v
<1>0. Len(toPi) \in Nat
  OBVIOUS
<1>1. Len(toPi) >= 3 /\ a = 3 + v
  <2>1. CASE Len(toPi) < 3
    BY <1>0, <2>1 DEF ArgsLen
  <2>2. CASE Len(toPi) >= 3
    BY <1>0, <2>2 DEF ArgsLen
  <2> QED
    BY <1>0, <2>1, <2>2
<1>2. \A k \in 1 .. 3 : toPi[k] \in WordType
  BY <1>0, <1>1
<1>3. \A k \in 1 .. 3 : toPi[k].v \in 1 .. Width - 1
  BY <1>2 DEF WordType
<1>4. v \in Nat
  BY <1>3
<1> HIDE DEF a, v
<1>5. a \in 0 .. Len(toPi)
  BY <1>0, <1>1, <1>4 DEF a
<1>6. \A x \in 1 .. Width - 1 : x \in 0 .. Width - 1
  BY Bounds
<1> QED
  BY <1>1, <1>3, <1>5, <1>6 DEF a, v

LEMMA HostAbandoned ==
  ASSUME LineOK, Typed, Abandoned, HostStep
  PROVE  Abandoned'
<1>0. /\ host \in HostType /\ host.pc \in {"get_info", "dead", "exit"}
      /\ toHost \in Seq(Idle) /\ Len(toHost) \in Nat
  BY DEF LineOK, Typed, Abandoned
<1>1. ASSUME UNCHANGED <<pi, toPi>>, host'.pc \in {"get_info", "dead", "exit"},
             toHost' = <<>> \/ \E n \in 0 .. Len(toHost) : toHost' = Drop(toHost, n)
      PROVE  Abandoned'
  <2>1. toHost' \in Seq(Idle)
    BY <1>0, <1>1, Parts, EmptySeq
  <2> QED
    BY <1>1, <2>1 DEF Abandoned
<1>2. /\ \A n \in Nat : Len(toHost) >= n => n \in 0 .. Len(toHost)
      /\ 8 + TextLen \in Nat
  BY <1>0, BootLoaderAssumption
<1>3. ~ Starts("GET_PROG_INFO")
  <2> SUFFICES ASSUME Starts("GET_PROG_INFO") PROVE FALSE
    OBVIOUS
  <2>1. toHost[1].op = "GET_PROG_INFO" /\ Len(toHost) >= 4
    BY DEF Starts
  <2>2. toHost[1] \in Idle
    BY <1>0, <2>1
  <2> QED
    BY <2>1, <2>2 DEF Idle, BytesOf
<1>4. CASE get_op_string \/ Discard
  <2>1. /\ UNCHANGED <<pi, toPi, host>>
        /\ \E n \in 0 .. Len(toHost) : toHost' = Drop(toHost, n)
    BY <1>2, <1>4 DEF get_op_string, Discard
  <2> QED
    BY <1>0, <1>1, <2>1
<1>5. CASE BootTimeout(PiWaits)
  <2>1. UNCHANGED <<pi, toPi>> /\ host' = [host EXCEPT !.pc = "dead"] /\ toHost' = <<>>
    BY <1>5 DEF BootTimeout, Die, HostTo
  <2>2. host'.pc = "dead"
    BY <1>0, <2>1 DEF HostType
  <2> QED
    BY <1>1, <2>1, <2>2
<1>6. ~ ReplyInfo
  BY <1>3 DEF ReplyInfo
<1>7. /\ ~ Drain /\ ~ SendCode /\ ~ Success /\ ~ Mismatch /\ ~ SyncDiscard /\ ~ SyncReady
      /\ ~ SyncDrain /\ ~ SyncAck /\ ~ SendJob /\ ~ CodeGot /\ ~ JobDone /\ ~ ShellMismatch
      /\ ~ ShellTimeout(PiWaits)
  BY <1>0 DEF Drain, SendCode, Success, Mismatch, SyncDiscard, SyncReady, SyncDrain, SyncAck,
              SendJob, CodeGot, JobDone, ShellMismatch, ShellTimeout, HostReads, HostAt
<1> QED
  BY <1>4, <1>5, <1>6, <1>7 DEF HostStep, simple_boot

LEMMA PiAbandoned ==
  ASSUME LineOK, PiOK, Typed, Abandoned, PiStep \/ PiRepeats
  PROVE  Before' \/ Abandoned'
<1>0. /\ host.pc \in {"get_info", "dead", "exit"} /\ toHost \in Seq(Idle)
      /\ toPi \in Seq(WordType) /\ pi \in PiType
  BY DEF Typed, Abandoned, PiOK
<1>1. ASSUME NEW next, pi' = [pi EXCEPT !.pc = next] PROVE pi'.pc = next
  BY <1>0, <1>1 DEF PiType
<1>2. ASSUME UNCHANGED host, pi' = Rebooting, toPi' \in Seq(Mute), NEW s \in Seq(NoAck),
             toHost' = ToHost(s)
      PROVE  Before'
  <2>1. toHost' \in Seq(NoAck)
    BY <1>0, <1>2, IdleNoAck, Heard
  <2>2. Ends(toHost')
    BY <2>1, NoAckEnds
  <2>3. pi'.pc = "down"
    BY <1>2 DEF Rebooting
  <2> QED
    BY <1>0, <1>2, <2>1, <2>2, <2>3 DEF Before, InLoader
<1>3. ASSUME UNCHANGED host, toHost' = toHost \/ \E s \in Seq(Idle) : toHost' = ToHost(s),
             \/ pi'.pc = "main" /\ OneLoud(toPi')
             \/ pi'.pc \in {"run", "send", "load", "relay", "main"} /\ toPi' \in Seq(Mute)
      PROVE  Abandoned'
  <2>1. toHost' \in Seq(Idle)
    BY <1>0, <1>3, Heard
  <2>2. toPi' \in Seq(Mute) => OneLoud(toPi')
    BY MuteLoud
  <2> QED
    BY <1>0, <1>3, <2>1, <2>2 DEF Abandoned
<1>4. /\ Junk(8) \in Seq(NoAck) /\ <<>> \in Seq(Idle)
      /\ Word("CODE_GOT", 0) \in Seq(Idle) /\ Word("DONE", 0) \in Seq(Idle)
  <2>1. 0 \in 0 .. Width - 1 /\ "junk" \in HostOps \ {"ACK"}
    BY Bounds DEF HostOps
  <2>2. "CODE_GOT" \in HostOps \ {"ACK", "GET_PROG_INFO"}
        /\ "DONE" \in HostOps \ {"ACK", "GET_PROG_INFO"}
    BY DEF HostOps
  <2>3. Junk(8) \in Seq(NoAck)
    BY <2>1, JunkIn DEF NoAck
  <2>4. Word("CODE_GOT", 0) \in Seq(Idle) /\ Word("DONE", 0) \in Seq(Idle)
    BY <2>1, <2>2, WordIn DEF Idle
  <2> QED
    BY <2>3, <2>4, EmptySeq
<1>5. CASE pi.pc = "main"
  <2>0. OneLoud(toPi)
    BY <1>5 DEF Abandoned
  <2>1. toPi # <<>> => OneLoud(Tail(toPi)) /\ (Loud(Head(toPi)) => Tail(toPi) \in Seq(Mute))
    BY <1>0, <2>0, OneLoudTail
  <2>2. CASE Exit
    <3>1. /\ UNCHANGED host /\ toHost' = ToHost(Junk(8)) /\ pi' = Rebooting
          /\ toPi # <<>> /\ Head(toPi).op = "EXIT" /\ toPi' = Tail(toPi)
      BY <2>2 DEF Exit, PiReads, PiSends, Next32
    <3> QED
      BY <1>2, <1>4, <2>1, <3>1 DEF Loud
  <2>3. CASE Run
    <3>1. /\ UNCHANGED host /\ toHost' = ToHost(<<>>) /\ pi'.pc = "run"
          /\ toPi # <<>> /\ Head(toPi).op = "RUN" /\ toPi' = Tail(toPi)
      BY <1>1, <2>3 DEF Run, PiReads, PiSends, Next32
    <3> QED
      BY <1>3, <1>4, <2>1, <3>1 DEF Loud
  <2>4. CASE IgnoreOp
    <3>1. UNCHANGED <<host, pi, toHost>> /\ toPi # <<>> /\ toPi' = Tail(toPi)
      BY <2>4 DEF IgnoreOp, Other32
    <3> QED
      BY <1>3, <1>5, <2>1, <3>1
  <2> QED
    BY <1>5, <2>2, <2>3, <2>4, ServerSteps
<1>6. CASE pi.pc = "run"
  <2>1. RunArgs /\ toPi \in Seq(Mute)
    BY <1>6, ServerSteps DEF Abandoned
  <2>2. /\ Len(toPi) >= ArgsLen /\ toPi' = Drop(toPi, ArgsLen) /\ UNCHANGED host
        /\ toHost' = ToHost(Word("count", toPi[3].v) \o Word("crc", toPi[2].v))
        /\ pi' = [pi EXCEPT !.pc = "send", !.nbytes = toPi[1].v, !.crc = toPi[2].v,
                            !.mem = <<>>]
    BY <2>1 DEF RunArgs, PiSends
  <2>3. pi'.pc = "send"
    BY <1>0, <2>2 DEF PiType
  <2>4. ArgsLen \in 0 .. Len(toPi) /\ \A k \in 1 .. 3 : toPi[k].v \in 0 .. Width - 1
    BY <1>0, <2>2, ArgsWords
  <2>5. toPi' \in Seq(Mute)
    BY <2>1, <2>2, <2>4, Parts
  <2>6. Word("count", toPi[3].v) \in Seq(Idle) /\ Word("crc", toPi[2].v) \in Seq(Idle)
    <3>1. toPi[2].v \in 0 .. Width - 1 /\ toPi[3].v \in 0 .. Width - 1
      BY <2>4
    <3>2. {"count", "crc"} \subseteq HostOps \ {"ACK", "GET_PROG_INFO"}
      BY DEF HostOps
    <3> QED
      BY <3>1, <3>2, WordIn DEF Idle
  <2>7. Word("count", toPi[3].v) \o Word("crc", toPi[2].v) \in Seq(Idle)
    BY <2>6, Put
  <2> QED
    BY <1>3, <2>2, <2>3, <2>5, <2>7
<1>7. CASE pi.pc = "send"
  <2>1. toPi \in Seq(Mute)
    BY <1>7 DEF Abandoned
  <2>2. CASE SendCodeOp
    <3>1. /\ UNCHANGED host /\ toHost' = ToHost(<<>>) /\ pi'.pc = "load"
          /\ toPi # <<>> /\ toPi' = Tail(toPi)
      BY <1>1, <2>2 DEF SendCodeOp, PiReads, PiSends, Next32
    <3> QED
      BY <1>3, <1>4, <2>1, <3>1, Parts
  <2>3. CASE ServerWrongOp
    <3>1. /\ UNCHANGED host /\ toHost' = ToHost(boot_putk \o Word("BOOT_ERROR", 0))
          /\ pi' = Rebooting /\ toPi # <<>> /\ toPi' = Tail(toPi)
      BY <2>3 DEF ServerWrongOp, Other32, boot_err, PiSends
    <3> QED
      BY <1>2, <2>1, <3>1, SaidIn, Parts
  <2> QED
    BY <1>7, <2>2, <2>3, ServerSteps
<1>8. CASE pi.pc = "load"
  <2>1. toPi \in Seq(Mute)
    BY <1>8 DEF Abandoned
  <2>2. CASE LoadJob
    <3>1. CopyWords /\ UNCHANGED <<host, toHost>>
      BY <2>2 DEF LoadJob, CopyWords
    <3>2. pi'.pc = "load" /\ \E n \in 0 .. Len(toPi) : toPi' = Drop(toPi, n)
      BY <1>0, <1>8, <3>1, Copied
    <3>3. toPi' \in Seq(Mute)
      BY <2>1, <3>2, Parts
    <3> QED
      BY <1>3, <3>1, <3>2, <3>3
  <2>3. CASE JobLoaded
    <3>1. /\ UNCHANGED <<host, toPi>>
          /\ \/ pi'.pc = "relay" /\ toHost' = ToHost(Word("CODE_GOT", 0))
             \/ pi' = Rebooting /\ toHost' = ToHost(Junk(8))
      BY <1>1, <2>3 DEF JobLoaded, PiSends
    <3> QED
      BY <1>2, <1>3, <1>4, <2>1, <3>1
  <2> QED
    BY <1>8, <2>2, <2>3, ServerSteps
<1>9. CASE pi.pc = "relay"
  <2>1. toPi \in Seq(Mute) /\ Relay
    BY <1>9, ServerSteps DEF Abandoned
  <2>2. /\ UNCHANGED <<host, toPi>> /\ pi'.pc = "main" /\ toHost' = ToHost(Word("DONE", 0))
    BY <1>1, <2>1 DEF Relay, PiSends
  <2> QED
    BY <1>3, <1>4, <2>1, <2>2
<1> QED
  BY <1>5, <1>6, <1>7, <1>8, <1>9 DEF Abandoned

------------------------------------------------------------------------------
(* Serving: host and server in the same command.                            *)

(* The words of RUN.                                                        *)
LEMMA RunLine ==
  ASSUME NEW job \in Jobs, NEW n \in Clients
  PROVE  /\ RunWords(job, n) \in Seq(WordType) /\ RunWords(job, n) # <<>>
         /\ Head(RunWords(job, n)) = Op("RUN") /\ Tail(RunWords(job, n)) = Arguments(job, n)
         /\ Arguments(job, n) \in Seq(Mute) /\ Len(Arguments(job, n)) = 3 + n
         /\ Drop(Arguments(job, n), 3 + n) = <<>>
         /\ Arguments(job, n)[1].v = Size[job] /\ Arguments(job, n)[2].v = job
         /\ Arguments(job, n)[3].v = n
<1> DEFINE a == Item("nbytes", Size[job])
           b == Item("crc", job)
           c == Item("count", n)
           o == Op("RUN")
           I == Ids(n)
           h == <<o, a, b, c>>
           t == <<a, b, c>>
           r == h \o I
           q == t \o I
<1>1. job \in Images /\ n \in Nat /\ \A k \in 1 .. n : k \in 1 .. Width - 1
  <2>1. job \in Images /\ n \in 1 .. Width - 1 /\ Width \in Nat
    BY ShellAssumption, Bounds
  <2> QED
    BY <2>1
<1>2. a \in Mute /\ b \in Mute /\ c \in Mute /\ \A k \in 1 .. n : Item("id", k) \in Mute
  BY <1>1, MuteItem, Bounds DEF Kinds
<1>3. o \in WordType
  BY OpTyped DEF Opcodes
<1>4. I \in Seq(Mute) /\ Len(I) = n
  BY <1>1, <1>2 DEF Ids
<1>5. a.v = Size[job] /\ b.v = job /\ c.v = n
  BY DEF Item
<1>6. \A w \in Mute : w \in WordType
  BY DEF Mute, WordType
<1> HIDE DEF a, b, c, o, I
<1>7. t \in Seq(Mute) /\ Len(t) = 3 /\ t[1] = a /\ t[2] = b /\ t[3] = c
  BY <1>2
<1>8. h \in Seq(WordType) /\ Len(h) = 4 /\ h[1] = o /\ h[2] = a /\ h[3] = b /\ h[4] = c
  BY <1>2, <1>3, <1>6
<1> HIDE DEF t, h
<1>9. I \in Seq(WordType)
  <2>1. \A k \in 1 .. n : I[k] \in WordType
    BY <1>4, <1>6
  <2> QED
    BY <1>4, <2>1
<1>10. /\ q \in Seq(Mute) /\ Len(q) = 3 + n /\ q[1] = a /\ q[2] = b /\ q[3] = c
       /\ \A k \in 1 .. n : q[3 + k] = I[k]
  <2>1. t \in Seq(Mute) /\ I \in Seq(Mute)
    BY <1>4, <1>7
  <2>2. /\ Len(q) = Len(t) + Len(I) /\ \A k \in 1 .. Len(t) : q[k] = t[k]
        /\ \A k \in 1 .. Len(I) : q[Len(t) + k] = I[k]
    BY <2>1, Elements
  <2>3. q \in Seq(Mute)
    BY <2>1, Put
  <2> QED
    BY <1>4, <1>7, <2>2, <2>3
<1>11. /\ r \in Seq(WordType) /\ Len(r) = 4 + n /\ r[1] = o /\ r[2] = a /\ r[3] = b /\ r[4] = c
       /\ \A k \in 1 .. n : r[4 + k] = I[k]
  <2>1. h \in Seq(WordType) /\ I \in Seq(WordType)
    BY <1>8, <1>9
  <2>2. /\ Len(r) = Len(h) + Len(I) /\ \A k \in 1 .. Len(h) : r[k] = h[k]
        /\ \A k \in 1 .. Len(I) : r[Len(h) + k] = I[k]
    BY <2>1, Elements
  <2>3. r \in Seq(WordType)
    BY <2>1, Put
  <2> QED
    BY <1>1, <1>4, <1>8, <2>2, <2>3
<1> HIDE DEF r, q
<1>12. r # <<>> /\ Head(r) = o
  BY <1>1, <1>11
<1>13. Tail(r) = q
  <2> DEFINE d == Tail(r)
  <2>1. d \in Seq(WordType) /\ Len(d) = 3 + n /\ \A k \in 1 .. 3 + n : d[k] = r[k + 1]
    BY <1>1, <1>11, <1>12
  <2> HIDE DEF d
  <2>2. ASSUME NEW k \in 1 .. 3 + n PROVE d[k] = q[k]
    <3>1. CASE k \in 1 .. 3
      <4>1. k = 1 \/ k = 2 \/ k = 3
        BY <3>1
      <4> QED
        BY <1>10, <1>11, <2>1, <4>1
    <3>2. CASE k \notin 1 .. 3
      <4> DEFINE j == k - 3
      <4>1. j \in 1 .. n /\ 3 + j = k /\ 4 + j = k + 1
        BY <1>1, <3>2
      <4> HIDE DEF j
      <4>2. r[4 + j] = I[j] /\ q[3 + j] = I[j]
        BY <1>10, <1>11, <4>1
      <4> QED
        BY <2>1, <4>1, <4>2
    <3> QED
      BY <3>1, <3>2
  <2>3. q \in Seq(Mute) /\ Len(q) = 3 + n
    BY <1>10
  <2>4. d = q
    BY <2>1, <2>2, <2>3
  <2> QED
    BY <2>4 DEF d
<1>14. Drop(q, 3 + n) = <<>>
  BY <1>1, <1>10 DEF Drop
<1>15. r = RunWords(job, n) /\ q = Arguments(job, n) /\ o = Op("RUN")
  BY DEF RunWords, Arguments, r, q, h, t, I, a, b, c, o
<1> QED
  BY <1>5, <1>10, <1>11, <1>12, <1>13, <1>14, <1>15

(* The words of a job.                                                      *)
LEMMA JobLine ==
  ASSUME NEW p \in Images
  PROVE  LET s == <<Op("SEND_CODE")>> \o CodeItems(p)
         IN  /\ s \in Seq(Mute) /\ s # <<>> /\ Head(s) = Op("SEND_CODE") /\ Tail(s) = CodeItems(p)
             /\ CodeItems(p) \in Seq(Mute) /\ CodeItems(p) # <<>>
<1> DEFINE o == Op("SEND_CODE")
           c == CodeItems(p)
<1>1. o \in Mute /\ c \in Seq(Mute)
  BY MuteOp, MuteCode DEF Opcodes
<1>2. c # <<>>
  <2>1. Len(c) = Size[p]
    BY CodeWords
  <2>2. Size[p] > 0
    BY Bounds
  <2> HIDE DEF c
  <2> QED
    BY <1>1, <2>1, <2>2
<1> HIDE DEF o, c
<1>3. <<o>> \o c \in Seq(Mute) /\ <<o>> \o c # <<>> /\ Head(<<o>> \o c) = o /\ Tail(<<o>> \o c) = c
  BY <1>1
<1> QED
  BY <1>1, <1>2, <1>3 DEF o, c

(* The code of an image tells it from the others.                           *)
LEMMA CodeIs ==
  ASSUME NEW p \in Images
  PROVE  crc32(Code(p)) = p /\ Len(Code(p)) = Size[p]
<1>1. ASSUME NEW q \in Images, Code(p) = Code(q) PROVE p = q
  <2>1. 1 \in 1 .. Size[p] /\ 1 \in 1 .. Size[q]
    BY Bounds
  <2>2. Code(p)[1] = p /\ Code(q)[1] = q
    BY <2>1 DEF Code
  <2> QED
    BY <1>1, <2>2
<1>2. Size[p] \in Nat
  BY Bounds
<1> QED
  BY <1>1, <1>2 DEF crc32, Code

LEMMA Halves ==
  ASSUME NEW T, NEW s \in Seq(T), NEW n \in 0 .. Len(s)
  PROVE  s = SubSeq(s, 1, n) \o Drop(s, n)
<1> DEFINE a == SubSeq(s, 1, n)
           b == Drop(s, n)
           u == a \o b
<1>1. a \in Seq(T) /\ Len(a) = n /\ \A k \in 1 .. n : a[k] = s[k]
  OBVIOUS
<1>2. b \in Seq(T) /\ Len(b) = Len(s) - n /\ \A k \in 1 .. Len(s) - n : b[k] = s[n + k]
  <2>1. b \in Seq(T) /\ Len(b) = Len(s) - n /\ \A k \in 1 .. Len(s) - n : b[k] = s[k + n]
    BY DEF Drop
  <2>2. \A k \in 1 .. Len(s) - n : k + n = n + k
    OBVIOUS
  <2> QED
    BY <2>1, <2>2
<1> HIDE DEF a, b
<1>3. a \in Seq(T) /\ b \in Seq(T)
  BY <1>1, <1>2
<1>4. /\ Len(u) = Len(a) + Len(b) /\ \A k \in 1 .. Len(a) : u[k] = a[k]
      /\ \A k \in 1 .. Len(b) : u[Len(a) + k] = b[k]
  BY <1>3, Elements
<1>5. u \in Seq(T)
  BY <1>3, Put
<1> HIDE DEF u
<1>6. ASSUME NEW k \in 1 .. Len(s) PROVE u[k] = s[k]
  <2>1. CASE k <= n
    <3>1. k \in 1 .. n
      BY <2>1
    <3> QED
      BY <1>1, <1>4, <3>1
  <2>2. CASE k > n
    <3> DEFINE j == k - n
    <3>1. j \in 1 .. Len(s) - n /\ n + j = k
      BY <2>2
    <3> HIDE DEF j
    <3>2. u[n + j] = b[j] /\ b[j] = s[n + j]
      BY <1>1, <1>2, <1>4, <3>1
    <3> QED
      BY <3>1, <3>2
  <2> QED
    BY <2>1, <2>2
<1>7. Len(u) = Len(s)
  BY <1>1, <1>2, <1>4
<1>8. u = s
  BY <1>5, <1>6, <1>7
<1> QED
  BY <1>8 DEF u, a, b

(* A host that is restarted in a command leaves one command on the line.    *)
LEMMA ServingLine ==
  ASSUME Typed, Serving
  PROVE  \/ pi.pc = "main" /\ OneLoud(toPi)
         \/ pi.pc \in {"run", "send", "load", "relay"} /\ toPi \in Seq(Mute)
<1>0. toPi \in Seq(WordType) /\ <<>> \in Seq(Mute)
  BY EmptySeq DEF Typed
<1>1. CASE toPi \in Seq(Mute)
  <2>1. OneLoud(toPi)
    BY <1>1, MuteLoud
  <2> QED
    BY <1>1, <2>1 DEF Serving, Asked, Loading, Relaying
<1>2. CASE toPi \notin Seq(Mute)
  <2>1. cmd.job \in Jobs /\ cmd.clients \in Clients
    BY <1>2 DEF Serving
  <2>2. cmd.job \in Images
    BY <2>1, ShellAssumption
  <2>3. /\ Arguments(cmd.job, cmd.clients) \in Seq(Mute)
        /\ <<Op("SEND_CODE")>> \o CodeItems(cmd.job) \in Seq(Mute)
        /\ CodeItems(cmd.job) \in Seq(Mute)
    BY <2>1, <2>2, RunLine, JobLine
  <2>4. /\ pi.pc = "main"
        /\ \E n \in 0 .. Len(toPi) : /\ SubSeq(toPi, 1, n) \in Seq(Mute)
                                     /\ Drop(toPi, n) = RunWords(cmd.job, cmd.clients)
    BY <1>0, <1>2, <2>3 DEF Serving, Asked, Loading, Relaying
  <2>5. PICK n \in 0 .. Len(toPi) : /\ SubSeq(toPi, 1, n) \in Seq(Mute)
                                    /\ Drop(toPi, n) = RunWords(cmd.job, cmd.clients)
    BY <2>4
  <2> DEFINE s == SubSeq(toPi, 1, n)
             t == Drop(toPi, n)
  <2>6. toPi = s \o t
    BY <1>0, Halves
  <2>7. t = RunWords(cmd.job, cmd.clients) /\ s \in Seq(Mute)
    BY <2>5
  <2>8. t \in Seq(WordType) /\ t # <<>> /\ Tail(t) \in Seq(Mute)
    <3> DEFINE r == RunWords(cmd.job, cmd.clients)
               q == Arguments(cmd.job, cmd.clients)
    <3>1. r \in Seq(WordType) /\ r # <<>> /\ Tail(r) = q /\ q \in Seq(Mute)
      BY <2>1, RunLine
    <3> QED
      BY <2>7, <3>1
  <2> HIDE DEF s, t
  <2>9. OneLoud(toPi)
    BY <2>6, <2>7, <2>8, OneLoudJoin
  <2> QED
    BY <2>4, <2>9
<1> QED
  BY <1>1, <1>2

(* A restart.                                                               *)
LEMMA RestartDialogue ==
  ASSUME LineOK, Typed, Dialogue, Restart
  PROVE  Dialogue'
<1>0. /\ host \in HostType /\ toPi \in Seq(WordType) /\ Len(toPi) \in Nat
  BY DEF LineOK, Typed
<1>1. UNCHANGED pi /\ \E p \in Images : host' = [host EXCEPT !.pc = "get_info", !.image = p]
  BY DEF Restart
<1>2. host'.pc = "get_info"
  BY <1>0, <1>1 DEF HostType
<1>3. PICK k \in Cuts : toHost' = Junk(k)
  BY DEF Restart
<1>4. PICK n \in 0 .. Len(toPi) : toPi' = SubSeq(toPi, 1, n)
  BY DEF Restart
<1>5. toHost' \in Seq(Idle)
  <2>1. k \in Nat /\ "junk" \in HostOps \ {"ACK", "GET_PROG_INFO"}
    BY BootLoaderAssumption DEF HostOps
  <2> QED
    BY <1>3, <2>1, JunkIn DEF Idle
<1>6. toHost' \in Seq(NoAck) /\ Ends(toHost')
  BY <1>5, IdleNoAck, NoAckEnds
<1>7. /\ toPi \in Seq(Mute) => toPi' \in Seq(Mute)
      /\ OneLoud(toPi) => OneLoud(toPi')
  BY <1>0, <1>4, Parts, OneLoudCut
<1>8. CASE Before
  BY <1>1, <1>2, <1>6, <1>7, <1>8 DEF Before, Dialogue
<1>9. CASE Abandoned \/ Serving
  <2>1. \/ pi.pc = "main" /\ OneLoud(toPi)
        \/ pi.pc \in {"run", "send", "load", "relay"} /\ toPi \in Seq(Mute)
    BY <1>9, ServingLine DEF Abandoned
  <2> QED
    BY <1>1, <1>2, <1>5, <1>7, <2>1 DEF Abandoned, Dialogue
<1> QED
  BY <1>8, <1>9 DEF Dialogue

(* Which steps a host takes in a command.                                   *)
LEMMA CommandSteps ==
  ASSUME HostStep
  PROVE  /\ host.pc # "prompt"
         /\ host.pc = "echo" => \/ SendJob
                                \/ Len(toHost) >= 8 /\ ~ EchoOk
                                \/ Len(toHost) < 8 /\ PiWaits
         /\ host.pc = "got" => \/ CodeGot
                               \/ Len(toHost) >= 4 /\ ~ Starts("CODE_GOT")
                               \/ Len(toHost) < 4 /\ PiWaits
         /\ host.pc = "done" => JobDone \/ (Len(toHost) < 4 /\ PiWaits)
<1>1. simple_boot \/ BootTimeout(PiWaits) => host.pc \in {"get_info", "drain", "success"}
  BY DEF simple_boot, get_op_string, Discard, ReplyInfo, Drain, SendCode, Success, Mismatch,
         BootTimeout, HostAt
<1>2. SyncDiscard \/ SyncReady \/ SyncDrain \/ SyncAck => host.pc \in {"sync", "ack"}
  BY DEF SyncDiscard, SyncReady, SyncDrain, SyncAck, HostReads, HostAt
<1>3. /\ SendJob => host.pc = "echo"
      /\ CodeGot => host.pc = "got"
      /\ JobDone => host.pc = "done"
  BY DEF SendJob, CodeGot, JobDone, HostReads, HostAt
<1>4. ShellMismatch => \/ host.pc = "ack"
                       \/ host.pc = "echo" /\ Len(toHost) >= 8 /\ ~ EchoOk
                       \/ host.pc = "got" /\ Len(toHost) >= 4 /\ ~ Starts("CODE_GOT")
  BY DEF ShellMismatch, HostAt
<1>5. ShellTimeout(PiWaits) => /\ host.pc \in {"sync", "ack", "echo", "got", "done"}
                               /\ Len(toHost) < ShellNeeds /\ PiWaits
  BY DEF ShellTimeout
<1>6. /\ host.pc = "echo" => ShellNeeds = 8
      /\ host.pc \in {"got", "done"} => ShellNeeds = 4
  BY Zenon DEF ShellNeeds, HostAt
<1> QED
  BY <1>1, <1>2, <1>3, <1>4, <1>5, <1>6 DEF HostStep

LEMMA Waiting ==
  ASSUME PiWaits
  PROVE  /\ pi.pc \in {"main", "send"} => toPi = <<>>
         /\ pi.pc = "run" => Len(toPi) < ArgsLen
         /\ pi.pc = "load" => Len(pi.mem) < pi.nbytes /\ toPi = <<>>
         /\ pi.pc # "relay"
BY DEF PiWaits, BootWaits, ServerWaits, PiAt

LEMMA OneWord ==
  ASSUME NEW a \in HostOps, NEW x \in 0 .. Width - 1
  PROVE  LET s == Word(a, x)
         IN  /\ s \in Seq(Byte) /\ Len(s) = 4 /\ Drop(s, 4) = <<>>
             /\ \A k \in 1 .. 4 : s[k].op = a /\ s[k].v = x /\ s[k].i = k
<1>1. /\ Word(a, x) \in Seq(Byte) /\ Len(Word(a, x)) = 4
      /\ \A k \in 1 .. 4 : Word(a, x)[k].op = a /\ Word(a, x)[k].v = x /\ Word(a, x)[k].i = k
  BY WordIn, WordBytes
<1> QED
  BY <1>1 DEF Drop

LEMMA HostServing ==
  ASSUME LineOK, PiOK, Typed, Serving, HostStep
  PROVE  /\ Serving' /\ host'.pc # "dead"
         /\ host.pc = "done" => Starts("DONE") /\ relayed = Code(cmd.job)
<1>0. /\ host \in HostType /\ host.pc # "prompt"
      /\ cmd.job \in Jobs /\ cmd.clients \in Clients
      /\ pi.nbytes \in Nat
  BY CommandSteps DEF LineOK, Serving, PiOK, PiType
<1>1. /\ cmd.job \in Images /\ cmd.job \in 0 .. Width - 1 /\ cmd.clients \in 0 .. Width - 1
      /\ 0 \in 0 .. Width - 1
  <2>1. cmd.job \in Images /\ cmd.job \in 1 .. Width - 1 /\ cmd.clients \in 1 .. Width - 1
    BY <1>0, ShellAssumption, Bounds
  <2>2. Width \in Nat /\ Width > 1
    BY Bounds
  <2> QED
    BY <2>1, <2>2
<1>2. ASSUME NEW next, HostTo(next) PROVE host'.pc = next
  BY <1>0, <1>2 DEF HostTo, HostType
<1>3. /\ "count" \in HostOps /\ "crc" \in HostOps /\ "CODE_GOT" \in HostOps /\ "DONE" \in HostOps
  BY DEF HostOps
<1> DEFINE echo == Word("count", cmd.clients) \o Word("crc", cmd.job)
           both == Word("CODE_GOT", 0) \o Word("DONE", 0)
<1>7. /\ Len(echo) = 8 /\ Drop(echo, 8) = <<>>
      /\ \A k \in 1 .. 4 : /\ echo[k] = Word("count", cmd.clients)[k]
                           /\ echo[4 + k] = Word("crc", cmd.job)[k]
  <2> DEFINE c == Word("count", cmd.clients)
             d == Word("crc", cmd.job)
  <2>1. c \in Seq(Byte) /\ d \in Seq(Byte) /\ Len(c) = 4 /\ Len(d) = 4
    BY <1>1, <1>3, OneWord
  <2> HIDE DEF c, d
  <2>2. /\ Len(c \o d) = 8 /\ Drop(c \o d, 8) = <<>>
        /\ \A k \in 1 .. 4 : (c \o d)[k] = c[k] /\ (c \o d)[4 + k] = d[k]
    BY <2>1, WordsApart
  <2> QED
    BY <2>2 DEF c, d
<1>8. /\ Len(both) = 8 /\ Drop(both, 4) = Word("DONE", 0)
      /\ \A k \in 1 .. 4 : both[k] = Word("CODE_GOT", 0)[k]
  <2> DEFINE c == Word("CODE_GOT", 0)
             d == Word("DONE", 0)
  <2>1. c \in Seq(Byte) /\ d \in Seq(Byte) /\ Len(c) = 4 /\ Len(d) = 4
    BY <1>1, <1>3, OneWord
  <2> HIDE DEF c, d
  <2>2. /\ Len(c \o d) = 8 /\ Drop(c \o d, 4) = d
        /\ \A k \in 1 .. 4 : (c \o d)[k] = c[k]
    BY <2>1, WordsApart
  <2> QED
    BY <2>2 DEF c, d
<1>4. CASE host.pc = "echo"
  <2>1. Asked
    BY <1>4 DEF Serving
  <2> DEFINE r == RunWords(cmd.job, cmd.clients)
             q == Arguments(cmd.job, cmd.clients)
  <2>2. r # <<>> /\ q \in Seq(Mute) /\ Len(q) = 3 + cmd.clients /\ q[3].v = cmd.clients
    BY <1>0, RunLine
  <2>3. CASE toHost = <<>>
    <3>1. PiWaits
      BY <1>4, <2>3, CommandSteps DEF SendJob
    <3>2. pi.pc # "send"
      <4> SUFFICES ASSUME pi.pc = "send" PROVE FALSE
        OBVIOUS
      <4>1. toHost = Word("count", cmd.clients) \o Word("crc", cmd.job)
        BY <2>1 DEF Asked
      <4>2. Len(toHost) = 8
        BY <1>7, <4>1
      <4> QED
        BY <2>3, <4>2
    <3>3. CASE pi.pc = "main"
      <4>1. toPi = <<>>
        BY <3>1, <3>3, Waiting
      <4>2. PICK n \in 0 .. Len(toPi) : Drop(toPi, n) = r
        BY <2>1, <3>3 DEF Asked
      <4>3. Drop(toPi, n) = <<>>
        BY <4>1 DEF Drop
      <4> QED
        BY <2>2, <4>2, <4>3
    <3>4. CASE pi.pc = "run"
      <4>1. toPi = q /\ Len(toPi) < ArgsLen
        BY <2>1, <3>1, <3>4, Waiting DEF Asked
      <4>2. cmd.clients \in Nat
        BY <1>1
      <4>3. Len(toPi) = 3 + cmd.clients /\ toPi[3].v = cmd.clients
        BY <2>2, <4>1
      <4> HIDE DEF q
      <4>4. ArgsLen = 3 + cmd.clients
        BY <4>2, <4>3 DEF ArgsLen
      <4> QED
        BY <4>1, <4>2, <4>3, <4>4
    <3> QED
      BY <2>1, <3>2, <3>3, <3>4 DEF Asked
  <2>4. CASE toHost # <<>>
    <3>1. /\ pi.pc = "send" /\ pi.nbytes = Size[cmd.job] /\ pi.mem = <<>> /\ toPi = <<>>
          /\ toHost = Word("count", cmd.clients) \o Word("crc", cmd.job)
      BY <2>1, <2>4 DEF Asked
    <3>2. /\ Len(toHost) = 8 /\ Drop(toHost, 8) = <<>>
          /\ \A k \in 1 .. 4 : /\ toHost[k] = Word("count", cmd.clients)[k]
                               /\ toHost[4 + k] = Word("crc", cmd.job)[k]
      BY <1>7, <3>1
    <3>3. \A k \in 1 .. 4 : /\ Word("count", cmd.clients)[k].op = "count"
                            /\ Word("count", cmd.clients)[k].v = cmd.clients
                            /\ Word("count", cmd.clients)[k].i = k
      BY <1>1, <1>3, OneWord
    <3>4. toHost[5] = Word("crc", cmd.job)[1] /\ toHost[1].v = cmd.clients
      <4>1. 1 \in 1 .. 4 /\ 4 + 1 = 5
        OBVIOUS
      <4> QED
        BY <3>2, <3>3, <4>1
    <3>5. EchoOk
      BY <3>2, <3>3, <3>4 DEF EchoOk, Starts
    <3>6. SendJob
      BY <1>4, <3>2, <3>5, CommandSteps
    <3>7. /\ host'.pc = "got" /\ toHost' = <<>> /\ UNCHANGED <<pi, cmd, relayed>>
          /\ toPi' = toPi \o <<Op("SEND_CODE")>> \o CodeItems(cmd.job)
      BY <1>2, <3>2, <3>6 DEF SendJob, Keep
    <3>8. toPi' = <<Op("SEND_CODE")>> \o CodeItems(cmd.job)
      BY <3>1, <3>7
    <3>9. Loading'
      BY <3>1, <3>7, <3>8 DEF Loading
    <3> QED
      BY <1>0, <1>4, <3>7, <3>9 DEF Serving
  <2> QED
    BY <2>3, <2>4
<1>5. CASE host.pc = "got"
  <2>1. Loading
    BY <1>5 DEF Serving
  <2>2. ASSUME toHost = <<>> PROVE FALSE
    <3>1. PiWaits
      BY <1>5, <2>2, CommandSteps DEF CodeGot, HostReads, Starts
    <3>2. /\ <<Op("SEND_CODE")>> \o CodeItems(cmd.job) # <<>> /\ CodeItems(cmd.job) # <<>>
          /\ Len(Code(cmd.job)) = Size[cmd.job]
      BY <1>1, JobLine, CodeIs
    <3>3. Len(Word("CODE_GOT", 0)) = 4 /\ Len(Word("CODE_GOT", 0) \o Word("DONE", 0)) = 8
      BY <1>1, <1>3, <1>8, OneWord
    <3>4. toHost # Word("CODE_GOT", 0) /\ toHost # Word("CODE_GOT", 0) \o Word("DONE", 0)
      BY <2>2, <3>3
    <3>5. pi.pc = "send" => toPi # <<>>
      BY <2>1, <3>2 DEF Loading
    <3>6. pi.pc = "load" => toPi # <<>> \/ Len(pi.mem) = pi.nbytes
      BY <2>1, <3>2 DEF Loading
    <3>7. pi.pc \in {"send", "load"}
      BY <2>1, <3>4 DEF Loading
    <3> QED
      BY <1>0, <3>1, <3>5, <3>6, <3>7, Waiting
  <2>3. CASE /\ pi.pc = "relay" /\ pi.mem = Code(cmd.job) /\ toPi = <<>>
             /\ toHost = Word("CODE_GOT", 0)
    <3>1. /\ Len(toHost) = 4 /\ Drop(toHost, 4) = <<>>
          /\ \A k \in 1 .. 4 : toHost[k].op = "CODE_GOT" /\ toHost[k].i = k
      BY <1>1, <1>3, <2>3, OneWord
    <3>2. Starts("CODE_GOT")
      BY <3>1 DEF Starts
    <3>3. CodeGot
      BY <1>5, <3>1, <3>2, CommandSteps
    <3>4. host'.pc = "done" /\ toHost' = <<>> /\ UNCHANGED <<pi, toPi, cmd, relayed>>
      BY <1>2, <3>1, <3>3 DEF CodeGot, HostReads, Keep
    <3>5. Relaying'
      BY <2>3, <3>4 DEF Relaying
    <3> QED
      BY <1>0, <1>5, <3>4, <3>5 DEF Serving
  <2>4. CASE /\ pi.pc = "main" /\ relayed = Code(cmd.job) /\ toPi = <<>>
             /\ toHost = Word("CODE_GOT", 0) \o Word("DONE", 0)
    <3>1. /\ Len(toHost) = 8 /\ Drop(toHost, 4) = Word("DONE", 0)
          /\ \A k \in 1 .. 4 : toHost[k] = Word("CODE_GOT", 0)[k]
      BY <1>8, <2>4
    <3>2. \A k \in 1 .. 4 : Word("CODE_GOT", 0)[k].op = "CODE_GOT" /\ Word("CODE_GOT", 0)[k].i = k
      BY <1>1, <1>3, OneWord
    <3>3. Starts("CODE_GOT")
      BY <3>1, <3>2 DEF Starts
    <3>4. CodeGot
      BY <1>5, <3>1, <3>3, CommandSteps
    <3>5. host'.pc = "done" /\ toHost' = Word("DONE", 0) /\ UNCHANGED <<pi, toPi, cmd, relayed>>
      BY <1>2, <3>1, <3>4 DEF CodeGot, HostReads, Keep
    <3>6. Relaying'
      BY <2>4, <3>5 DEF Relaying
    <3> QED
      BY <1>0, <1>5, <3>5, <3>6 DEF Serving
  <2> QED
    BY <2>1, <2>2, <2>3, <2>4 DEF Loading
<1>6. CASE host.pc = "done"
  <2>1. Relaying
    BY <1>6 DEF Serving
  <2>2. CASE /\ pi.pc = "relay" /\ pi.mem = Code(cmd.job) /\ toPi = <<>> /\ toHost = <<>>
    <3>1. ~ JobDone
      BY <2>2 DEF JobDone
    <3> QED
      BY <1>6, <2>2, <3>1, CommandSteps, Waiting
  <2>3. CASE /\ pi.pc = "main" /\ relayed = Code(cmd.job) /\ toPi = <<>>
             /\ toHost = Word("DONE", 0)
    <3>1. /\ Len(toHost) = 4 /\ Drop(toHost, 4) = <<>>
          /\ \A k \in 1 .. 4 : toHost[k].op = "DONE" /\ toHost[k].i = k
      BY <1>1, <1>3, <2>3, OneWord
    <3>2. Starts("DONE")
      BY <3>1 DEF Starts
    <3>3. JobDone
      BY <1>6, <3>1, CommandSteps
    <3>4. host'.pc = "prompt" /\ toHost' = <<>> /\ UNCHANGED <<pi, toPi>>
      BY <1>2, <3>1, <3>3 DEF JobDone
    <3>5. toPi' \in Seq(Mute)
      BY <2>3, <3>4, EmptySeq
    <3> QED
      BY <2>3, <3>2, <3>4, <3>5 DEF Serving
  <2> QED
    BY <2>1, <2>2, <2>3 DEF Relaying
<1> QED
  BY <1>0, <1>4, <1>5, <1>6 DEF Serving

LEMMA PiServing ==
  ASSUME LineOK, PiOK, Typed, Serving, PiStep \/ PiRepeats
  PROVE  Serving'
<1>0. /\ toPi \in Seq(WordType) /\ Len(toPi) \in Nat /\ pi \in PiType /\ host.pc \notin Stopped
  BY DEF Typed, PiOK, Serving, Stopped
<1>1. ASSUME NEW next, pi' = [pi EXCEPT !.pc = next]
      PROVE  pi'.pc = next /\ pi'.mem = pi.mem /\ pi'.nbytes = pi.nbytes
  BY <1>0, <1>1 DEF PiType
<1>2. ASSUME NEW T, toHost \in Seq(T), NEW s, toHost' = ToHost(s) PROVE toHost' = toHost \o s
  BY <1>0, <1>2 DEF ToHost
<1>3. ASSUME NEW T, NEW s \in Seq(T), toHost = <<>>, toHost' = ToHost(s) PROVE toHost' = s
  BY <1>0, <1>3 DEF ToHost
<1>4. ASSUME toPi # <<>>, Head(toPi) \in Mute, pi.pc = "main"
      PROVE  UNCHANGED <<host, pi, toHost, cmd, relayed>> /\ toPi' = Tail(toPi)
  <2>1. ~ Exit /\ ~ Run
    BY <1>4 DEF Exit, Run, PiReads, Next32, Mute
  <2>2. IgnoreOp
    BY <1>4, <2>1, ServerSteps
  <2> QED
    BY <2>2 DEF IgnoreOp, Keep
<1>5. CASE host.pc = "prompt"
  <2>1. pi.pc = "main" /\ toHost = <<>> /\ toPi \in Seq(Mute)
    BY <1>5 DEF Serving
  <2>2. toPi # <<>>
    BY <2>1, ServerSteps DEF Exit, Run, IgnoreOp, PiReads, Next32, Other32
  <2>3. Head(toPi) \in Mute /\ Tail(toPi) \in Seq(Mute)
    BY <2>1, <2>2
  <2> QED
    BY <1>4, <1>5, <2>1, <2>2, <2>3 DEF Serving
<1> DEFINE job == cmd.job
           n == cmd.clients
           r == RunWords(job, n)
           q == Arguments(job, n)
           c == CodeItems(job)
<1>6. host.pc \in {"echo", "got", "done"} => cmd.job \in Jobs /\ cmd.clients \in Clients
  BY DEF Serving
<1>7. ASSUME host.pc \in {"echo", "got", "done"}
      PROVE  /\ job \in Images /\ Size[job] \in Nat /\ Size[job] > 0 /\ n \in Nat
             /\ job \in 0 .. Width - 1 /\ n \in 0 .. Width - 1 /\ 0 \in 0 .. Width - 1
  <2>1. /\ job \in Images /\ job \in 1 .. Width - 1 /\ Size[job] \in 1 .. Width - 1
        /\ n \in 1 .. Width - 1
    BY <1>6, <1>7, ShellAssumption, Bounds
  <2>2. Width \in Nat /\ Width > 1
    BY Bounds
  <2> QED
    BY <2>1, <2>2
<1>8. ASSUME host.pc = "echo", UNCHANGED <<host, cmd>>, Asked' PROVE Serving'
  BY <1>6, <1>8 DEF Serving
<1>9. ASSUME host.pc = "got", UNCHANGED <<host, cmd>>, Loading' PROVE Serving'
  BY <1>6, <1>9 DEF Serving
<1>10. ASSUME host.pc = "done", UNCHANGED <<host, cmd>>, Relaying' PROVE Serving'
  BY <1>6, <1>10 DEF Serving
<1>11. CASE host.pc = "echo" /\ pi.pc = "main"
  <2>1. PICK k \in 0 .. Len(toPi) : SubSeq(toPi, 1, k) \in Seq(Mute) /\ Drop(toPi, k) = r
    BY <1>11 DEF Serving, Asked
  <2>2. toHost = <<>>
    BY <1>11 DEF Serving, Asked
  <2>3. r # <<>> /\ Head(r) = Op("RUN") /\ Tail(r) = q
    <3>1. job \in Jobs /\ n \in Clients
      BY <1>6, <1>11
    <3>2. \A j \in Jobs, m \in Clients :
            /\ RunWords(j, m) # <<>> /\ Head(RunWords(j, m)) = Op("RUN")
            /\ Tail(RunWords(j, m)) = Arguments(j, m)
      BY RunLine
    <3> QED
      BY <3>1, <3>2
  <2>4. toPi # <<>>
    BY <2>1, <2>3 DEF Drop
  <2>5. CASE k = 0
    <3>1. Drop(toPi, 0) = toPi
      BY <1>0 DEF Drop
    <3>2. toPi = r
      BY <2>1, <2>5, <3>1
    <3>3. Head(toPi).op = "RUN"
      BY <2>3, <3>2 DEF Op, Item
    <3>4. Run
      BY <1>11, <3>3, ServerSteps DEF Exit, IgnoreOp, PiReads, Next32, Other32
    <3>5. /\ pi' = [pi EXCEPT !.pc = "run"] /\ toPi' = Tail(toPi) /\ toHost' = ToHost(<<>>)
          /\ UNCHANGED <<host, cmd>>
      BY <3>4 DEF Run, PiReads, PiSends, Keep
    <3>6. toPi' = q /\ toHost' = <<>> /\ pi'.pc = "run"
      BY <1>1, <1>3, <2>2, <2>3, <3>2, <3>5, EmptySeq
    <3>7. Asked'
      BY <3>5, <3>6 DEF Asked
    <3> QED
      BY <1>8, <1>11, <3>5, <3>7
  <2>6. CASE k # 0
    <3>0. k \in Nat /\ k >= 1 /\ k <= Len(toPi) /\ k - 1 \in 0 .. Len(toPi) - 1
      BY <1>0, <2>1, <2>6
    <3> DEFINE s == SubSeq(toPi, 1, k)
    <3>1. Len(s) = k /\ s[1] = toPi[1]
      BY <1>0, <3>0
    <3> HIDE DEF s
    <3>2. s \in Seq(Mute)
      BY <2>1 DEF s
    <3>3. Head(toPi) \in Mute
      BY <1>0, <2>4, <3>0, <3>1, <3>2
    <3>4. UNCHANGED <<host, pi, toHost, cmd, relayed>> /\ toPi' = Tail(toPi)
      BY <1>4, <1>11, <2>4, <3>3
    <3>5. Len(Tail(toPi)) = Len(toPi) - 1 /\ k - 1 \in 0 .. Len(Tail(toPi))
      BY <1>0, <2>4, <3>0
    <3>6. SubSeq(Tail(toPi), 1, k - 1) = Tail(s)
      BY <1>0, <2>4, <3>0 DEF s
    <3>7. Drop(Tail(toPi), k - 1) = Drop(toPi, k)
      BY <1>0, <2>4, <3>0 DEF Drop
    <3>8. Tail(s) \in Seq(Mute)
      BY <3>0, <3>1, <3>2
    <3>9. Asked'
      BY <1>11, <2>1, <2>2, <3>4, <3>5, <3>6, <3>7, <3>8 DEF Asked
    <3> QED
      BY <1>8, <1>11, <3>4, <3>9
  <2> QED
    BY <2>5, <2>6
<1>12. CASE host.pc = "echo" /\ pi.pc = "run"
  <2>1. toPi = q /\ toHost = <<>> /\ RunArgs
    BY <1>12, ServerSteps DEF Serving, Asked
  <2>2. Len(q) = 3 + n /\ Drop(q, 3 + n) = <<>> /\ q[1].v = Size[job] /\ q[2].v = job /\ q[3].v = n
    <3>1. job \in Jobs /\ n \in Clients
      BY <1>6, <1>12
    <3> QED
      BY <3>1, RunLine
  <2>3. /\ Len(toPi) >= ArgsLen /\ toPi' = Drop(toPi, ArgsLen) /\ UNCHANGED <<host, cmd>>
        /\ toHost' = ToHost(Word("count", toPi[3].v) \o Word("crc", toPi[2].v))
        /\ pi' = [pi EXCEPT !.pc = "send", !.nbytes = toPi[1].v, !.crc = toPi[2].v, !.mem = <<>>]
    BY <2>1 DEF RunArgs, PiSends, Keep
  <2>4. ArgsLen = 3 + toPi[3].v
    BY <1>0, <2>3, ArgsWords
  <2>5. toPi' = <<>>
    BY <2>1, <2>2, <2>3, <2>4
  <2>6. pi'.pc = "send" /\ pi'.nbytes = Size[job] /\ pi'.mem = <<>>
    BY <1>0, <2>1, <2>2, <2>3 DEF PiType
  <2>7. toHost' = ToHost(Word("count", n) \o Word("crc", job))
    BY <2>1, <2>2, <2>3
  <2>8. Word("count", n) \in Seq(Byte) /\ Word("crc", job) \in Seq(Byte)
    BY <1>7, <1>12, WordBytes DEF HostOps
  <2>9. toHost' = Word("count", n) \o Word("crc", job)
    BY <1>3, <2>1, <2>7, <2>8, Put
  <2>10. Asked'
    BY <2>3, <2>5, <2>6, <2>9 DEF Asked
  <2> QED
    BY <1>8, <1>12, <2>3, <2>10
<1>13. CASE host.pc = "echo" /\ pi.pc \notin {"main", "run"}
  <2>1. pi.pc = "send" /\ toPi = <<>>
    BY <1>13 DEF Serving, Asked
  <2> QED
    BY <2>1, ServerSteps DEF SendCodeOp, PiReads, Next32, Other32
<1>14. CASE host.pc = "got" /\ pi.pc = "send"
  <2>1. /\ pi.nbytes = Size[job] /\ pi.mem = <<>> /\ toHost = <<>>
        /\ toPi = <<Op("SEND_CODE")>> \o c
    BY <1>14 DEF Serving, Loading
  <2>2. toPi # <<>> /\ Head(toPi) = Op("SEND_CODE") /\ Tail(toPi) = c
    BY <1>7, <1>14, <2>1, JobLine
  <2>3. ~ Other32("SEND_CODE")
    BY <2>2 DEF Other32, Op, Item
  <2>4. SendCodeOp
    BY <1>14, <2>3, ServerSteps
  <2>5. /\ pi' = [pi EXCEPT !.pc = "load"] /\ toPi' = c /\ toHost' = ToHost(<<>>)
        /\ UNCHANGED <<host, cmd>>
    BY <2>2, <2>4 DEF SendCodeOp, PiReads, PiSends, Keep
  <2>6. toHost' = <<>> /\ pi'.pc = "load" /\ pi'.nbytes = Size[job] /\ pi'.mem = <<>>
    BY <1>1, <1>3, <2>1, <2>5, EmptySeq
  <2>7. Loading'
    BY <2>5, <2>6 DEF Loading
  <2> QED
    BY <1>9, <1>14, <2>5, <2>7
<1>15. CASE host.pc = "got" /\ pi.pc = "load" /\ pi.mem = <<>>
  <2>1. pi.nbytes = Size[job] /\ toHost = <<>> /\ toPi = c
    <3>1. Code(job) # <<>>
      BY <1>7, <1>15, ImageCode
    <3> QED
      BY <1>15, <3>1 DEF Serving, Loading
  <2>2. Len(c) = Size[job] /\ \A k \in 1 .. Size[job] : c[k].v = job
    BY <1>7, <1>15 DEF CodeItems, Item
  <2>3. LoadJob
    <3>1. Len(pi.mem) = 0
      BY <1>15
    <3>2. Len(pi.mem) # pi.nbytes
      BY <1>7, <1>15, <2>1, <3>1
    <3> QED
      BY <1>15, <3>2, ServerSteps DEF JobLoaded
  <2> DEFINE m == IF Len(toPi) < pi.nbytes - Len(pi.mem) THEN Len(toPi)
                  ELSE pi.nbytes - Len(pi.mem)
  <2>4. /\ pi' = [pi EXCEPT !.mem = @ \o [k \in 1 .. m |-> toPi[k].v]] /\ toPi' = Drop(toPi, m)
        /\ UNCHANGED <<host, toHost, cmd>>
    BY <2>3 DEF LoadJob, CopyWords, Keep
  <2>5. m = Size[job]
    <3>1. Len(pi.mem) = 0
      BY <1>15
    <3> QED
      BY <1>7, <1>15, <2>1, <2>2, <3>1
  <2> HIDE DEF m
  <2>6. toPi' = <<>>
    BY <1>0, <2>1, <2>2, <2>4, <2>5 DEF Drop
  <2>7. [k \in 1 .. m |-> toPi[k].v] = Code(job)
    BY <2>1, <2>2, <2>5 DEF Code
  <2>8. Code(job) \in Seq(Images)
    BY <1>7, <1>15, ImageCode
  <2>9. pi.mem \o Code(job) = Code(job)
    BY <1>15, <2>8
  <2>10. pi'.pc = "load" /\ pi'.nbytes = Size[job] /\ pi'.mem = Code(job)
    BY <1>0, <1>15, <2>1, <2>4, <2>7, <2>9 DEF PiType
  <2>11. Loading'
    BY <2>1, <2>4, <2>6, <2>10 DEF Loading
  <2> QED
    BY <1>9, <1>15, <2>4, <2>11
<1>16. CASE host.pc = "got" /\ pi.pc = "load" /\ pi.mem # <<>>
  <2>1. pi.nbytes = Size[job] /\ pi.mem = Code(job) /\ toHost = <<>> /\ toPi = <<>>
    BY <1>16 DEF Serving, Loading
  <2>2. crc32(Code(job)) = job /\ Len(Code(job)) = Size[job]
    BY <1>7, <1>16, CodeIs
  <2>3. ~ LoadJob
    <3>1. Len(toPi) = 0 /\ pi.nbytes - Len(pi.mem) = 0
      BY <1>7, <1>16, <2>1, <2>2
    <3> QED
      BY <3>1 DEF LoadJob, CopyWords
  <2>4. JobLoaded
    BY <1>16, <2>3, ServerSteps
  <2>5. /\ pi' = [pi EXCEPT !.pc = "relay"] /\ toHost' = ToHost(Word("CODE_GOT", 0))
        /\ UNCHANGED <<host, cmd, toPi>>
    BY <1>6, <1>16, <2>1, <2>2, <2>4 DEF JobLoaded, PiSends, Keep
  <2>6. Word("CODE_GOT", 0) \in Seq(Byte)
    BY <1>7, <1>16, WordBytes DEF HostOps
  <2>7. toHost' = Word("CODE_GOT", 0) /\ pi'.pc = "relay" /\ pi'.mem = Code(job)
    BY <1>1, <1>3, <2>1, <2>5, <2>6
  <2>8. Loading'
    BY <2>1, <2>5, <2>7 DEF Loading
  <2> QED
    BY <1>9, <1>16, <2>5, <2>8
<1>17. CASE host.pc \in {"got", "done"} /\ pi.pc = "relay"
  <2>1. Relay
    BY <1>17, ServerSteps
  <2>2. /\ relayed' = pi.mem /\ pi' = [pi EXCEPT !.pc = "main"] /\ toHost' = ToHost(Word("DONE", 0))
        /\ UNCHANGED <<host, toPi, cmd>>
    BY <2>1 DEF Relay, PiSends
  <2>3. Word("DONE", 0) \in Seq(Byte) /\ Word("CODE_GOT", 0) \in Seq(Byte)
    BY <1>7, <1>17, WordBytes DEF HostOps
  <2>4. pi'.pc = "main"
    BY <1>1, <2>2
  <2>5. CASE host.pc = "got"
    <3>1. pi.mem = Code(job) /\ toPi = <<>> /\ toHost = Word("CODE_GOT", 0)
      BY <1>17, <2>5 DEF Serving, Loading
    <3>2. toHost' = Word("CODE_GOT", 0) \o Word("DONE", 0)
      BY <1>2, <2>2, <2>3, <3>1
    <3>3. Loading'
      BY <2>2, <2>4, <3>1, <3>2 DEF Loading
    <3> QED
      BY <1>9, <2>2, <2>5, <3>3
  <2>6. CASE host.pc = "done"
    <3>1. pi.mem = Code(job) /\ toPi = <<>> /\ toHost = <<>>
      BY <1>17, <2>6 DEF Serving, Relaying
    <3>2. toHost' = Word("DONE", 0)
      BY <1>3, <2>2, <2>3, <3>1
    <3>3. Relaying'
      BY <2>2, <2>4, <3>1, <3>2 DEF Relaying
    <3> QED
      BY <1>10, <2>2, <2>6, <3>3
  <2> QED
    BY <1>17, <2>5, <2>6
<1>18. CASE host.pc \in {"got", "done"} /\ pi.pc \notin {"send", "load", "relay"}
  <2>1. pi.pc = "main" /\ toPi = <<>>
    BY <1>18 DEF Serving, Loading, Relaying
  <2> QED
    BY <2>1, ServerSteps DEF Exit, Run, IgnoreOp, PiReads, Next32, Other32
<1>19. host.pc = "done" => pi.pc \notin {"send", "load"}
  BY DEF Serving, Relaying
<1> QED
  BY <1>5, <1>11, <1>12, <1>13, <1>14, <1>15, <1>16, <1>17, <1>18, <1>19 DEF Serving

(* A command of the user.                                                   *)
LEMMA Regroup ==
  ASSUME NEW T, NEW s \in Seq(T), NEW t \in Seq(T), NEW u \in Seq(T)
  PROVE  (s \o t) \o u = s \o (t \o u)
OBVIOUS

LEMMA UserDialogue ==
  ASSUME LineOK, Typed, Dialogue, UserStep
  PROVE  Dialogue'
<1>0. /\ host \in HostType /\ host.pc = "prompt" /\ toPi \in Seq(WordType)
      /\ UNCHANGED <<pi, toHost, relayed>>
  BY DEF LineOK, Typed, UserStep, ExitCommand, OtherCommand, RunCommand, Command, HostAt
<1>1. pi.pc = "main" /\ toHost = <<>> /\ toPi \in Seq(Mute)
  BY <1>0 DEF Dialogue, Before, Abandoned, Serving
<1>2. CASE ExitCommand
  <2>1. host'.pc = "exit" /\ toPi' = Append(toPi, Op("EXIT"))
    BY <1>0, <1>2 DEF ExitCommand, HostTo, HostType
  <2>2. <<Op("EXIT")>> \in Seq(WordType) /\ Tail(<<Op("EXIT")>>) \in Seq(Mute)
    BY OpTyped DEF Opcodes
  <2>3. OneLoud(toPi \o <<Op("EXIT")>>)
    BY <1>1, <2>2, OneLoudJoin
  <2>4. toPi' = toPi \o <<Op("EXIT")>>
    BY <2>1
  <2>5. toHost' \in Seq(Idle)
    BY <1>0, <1>1, EmptySeq
  <2> QED
    BY <1>0, <1>1, <2>1, <2>3, <2>4, <2>5 DEF Dialogue, Abandoned
<1>3. CASE OtherCommand
  <2>1. UNCHANGED host /\ \E op \in {"LIST", "UPDATE"} : toPi' = Append(toPi, Op(op))
    BY <1>3 DEF OtherCommand
  <2>2. \A op \in {"LIST", "UPDATE"} : Op(op) \in Mute
    BY MuteOp DEF Opcodes
  <2>3. toPi' \in Seq(Mute)
    BY <1>1, <2>1, <2>2
  <2> QED
    BY <1>0, <1>1, <2>1, <2>3 DEF Dialogue, Serving
<1>4. ASSUME NEW job \in Jobs, NEW n \in Clients, RunCommand(job, n) PROVE Dialogue'
  <2> DEFINE a == <<Op("RUN"), Item("nbytes", Size[job]), Item("crc", job), Item("count", n)>>
             c == Ids(n)
             r == RunWords(job, n)
  <2>1. host'.pc = "echo" /\ toPi' = (toPi \o a) \o c
    BY <1>0, <1>4 DEF RunCommand, HostTo, HostType, Ids
  <2>2. cmd'.job = job /\ cmd'.clients = n
    BY <1>4 DEF RunCommand
  <2>3. a \in Seq(WordType) /\ c \in Seq(WordType)
    <3>1. job \in Images /\ n \in 1 .. Width - 1 /\ Width \in Nat /\ n \in Nat
      BY ShellAssumption, Bounds
    <3>2. /\ Op("RUN") \in WordType /\ Item("nbytes", Size[job]) \in WordType
          /\ Item("crc", job) \in WordType /\ Item("count", n) \in WordType
      BY <3>1, OpTyped, ItemTyped, Bounds DEF Opcodes, Kinds
    <3>3. \A k \in 1 .. n : k \in 1 .. Width - 1
      BY <3>1
    <3>4. \A k \in 1 .. n : Item("id", k) \in WordType
      BY <3>3, ItemTyped DEF Kinds
    <3> QED
      BY <3>1, <3>2, <3>4 DEF Ids
  <2>4. r = a \o c
    BY DEF RunWords
  <2> HIDE DEF a, c, r
  <2>5. r \in Seq(WordType)
    BY <2>3, <2>4, Put
  <2>6. toPi' = toPi \o r
    BY <1>0, <2>1, <2>3, <2>4, Regroup
  <2>7. /\ Len(toPi) \in 0 .. Len(toPi') /\ SubSeq(toPi', 1, Len(toPi)) = toPi
        /\ Drop(toPi', Len(toPi)) = r
    BY <1>0, <2>5, <2>6, JoinHalves
  <2>8. r = RunWords(cmd'.job, cmd'.clients)
    BY <2>2 DEF r
  <2>9. Asked'
    BY <1>0, <1>1, <2>7, <2>8 DEF Asked
  <2> QED
    BY <2>1, <2>2, <2>9 DEF Dialogue, Serving
<1> QED
  BY <1>2, <1>3, <1>4 DEF UserStep

(* A reset and a damaged word are not forgotten.                            *)
LEMMA FaultsRemembered ==
  ASSUME faults \in FaultType
  PROVE  /\ [faults EXCEPT !.resets = @ + 1].resets # 0
         /\ [faults EXCEPT !.flips = @ + 1].flips # 0
<1> DEFINE a == faults.resets
           b == faults.flips
<1>1. a \in Nat /\ b \in Nat
  BY BootLoaderAssumption DEF FaultType
<1>2. /\ [faults EXCEPT !.resets = @ + 1].resets = a + 1
      /\ [faults EXCEPT !.flips = @ + 1].flips = b + 1
  BY DEF FaultType
<1> HIDE DEF a, b
<1>3. a + 1 # 0 /\ b + 1 # 0
  BY <1>1
<1> QED
  BY <1>2, <1>3

LEMMA StaysDisturbed ==
  ASSUME faults \in FaultType, [ShellNext]_shellVars, Undisturbed'
  PROVE  Undisturbed /\ ~ Reset /\ ~ Flip
<1>1. ~ Reset
  <2>1. Reset => faults' = [faults EXCEPT !.resets = @ + 1]
    BY DEF Reset
  <2> QED
    BY <2>1, FaultsRemembered DEF Undisturbed
<1>2. ~ Flip
  <2>1. Flip => faults' = [faults EXCEPT !.flips = @ + 1]
    BY DEF Flip
  <2> QED
    BY <2>1, FaultsRemembered DEF Undisturbed
<1>3. CASE Restart
  <2>1. faults' = [faults EXCEPT !.restarts = @ + 1]
    BY <1>3 DEF Restart
  <2>2. faults'.resets = faults.resets /\ faults'.flips = faults.flips
    BY <2>1 DEF FaultType
  <2> QED
    BY <1>1, <1>2, <2>2 DEF Undisturbed
<1>4. CASE ~ Restart
  <2>1. UNCHANGED faults
    BY <1>1, <1>2, <1>4, FaultSteps
  <2> QED
    BY <1>1, <1>2, <2>1 DEF Undisturbed
<1> QED
  BY <1>3, <1>4

DialogueInv == TrustedInv /\ (Undisturbed => Dialogue)

LEMMA InitDialogue == ShellInit => DialogueInv
<1> SUFFICES ASSUME ShellInit PROVE Before
  BY InitTrusted DEF DialogueInv, Dialogue
<1>1. host.pc = "get_info" /\ pi.pc = "ask" /\ toPi = <<>>
  BY DEF ShellInit, Init, Rebooting
<1>2. toPi \in Seq(Mute)
  BY <1>1, EmptySeq
<1>3. PICK k \in Cuts : toHost = Junk(k)
  BY DEF ShellInit, Init
<1>4. toHost \in Seq(NoAck)
  <2>1. k \in Nat /\ "junk" \in HostOps \ {"ACK"}
    BY BootLoaderAssumption DEF HostOps
  <2> QED
    BY <1>3, <2>1, JunkIn DEF NoAck
<1>5. Ends(toHost)
  BY <1>4, NoAckEnds
<1> QED
  BY <1>1, <1>2, <1>4, <1>5 DEF Before, InLoader

LEMMA StepDialogue ==
  ASSUME LineOK, PiOK, Typed, Dialogue, ShellNext, ~ Reset, ~ Flip
  PROVE  Dialogue'
<1>1. CASE HostStep
  BY <1>1, HostBefore, HostAbandoned, HostServing DEF Dialogue
<1>2. CASE PiStep \/ PiRepeats
  BY <1>2, PiBefore, PiAbandoned, PiServing DEF Dialogue
<1>3. CASE UserStep
  BY <1>3, UserDialogue
<1>4. CASE Restart
  BY <1>4, RestartDialogue
<1> QED
  BY <1>1, <1>2, <1>3, <1>4 DEF ShellNext

LEMMA NextDialogue == DialogueInv /\ [ShellNext]_shellVars => DialogueInv'
<1> SUFFICES ASSUME DialogueInv, [ShellNext]_shellVars, Undisturbed' PROVE Dialogue'
  BY NextTrusted DEF DialogueInv
<1>1. LineOK /\ PiOK /\ faults \in FaultType
  BY DEF DialogueInv, TrustedInv, LoadInv
<1>2. Undisturbed /\ ~ Reset /\ ~ Flip
  BY <1>1, StaysDisturbed
<1>3. Typed /\ Dialogue
  BY <1>2 DEF DialogueInv, TrustedInv, Trusted, Undisturbed
<1>4. CASE UNCHANGED shellVars
  <2>1. UNCHANGED <<host, pi, toPi, toHost, cmd, relayed>>
    BY <1>4 DEF shellVars, vars
  <2> QED
    BY <1>3, <2>1 DEF Dialogue, Before, Abandoned, Serving, Asked, Loading, Relaying
<1>5. CASE ShellNext
  BY <1>1, <1>2, <1>3, <1>5, StepDialogue
<1> QED
  BY <1>4, <1>5

LEMMA DialogueProved == ShellSpec => []DialogueInv
BY InitDialogue, NextDialogue, PTL DEF ShellSpec

(* At the prompt of a shell whose Pi is not reset and whose words are not   *)
(* damaged nothing is on its way to the host: whatever hosts have been      *)
(* killed before, synchronize and every command leave an empty line.        *)
THEOREM PromptQuiet == ShellSpec => []QuietAtPrompt
<1>1. DialogueInv => QuietAtPrompt
  <2> SUFFICES ASSUME DialogueInv, host.pc = "prompt", faults.resets + faults.flips = 0
               PROVE  toHost = <<>>
    BY DEF QuietAtPrompt
  <2>1. faults.resets \in Nat /\ faults.flips \in Nat
    BY BootLoaderAssumption DEF DialogueInv, TrustedInv, FaultType
  <2>2. faults.resets = 0 /\ faults.flips = 0
    BY <2>1
  <2>3. Dialogue
    BY <2>2 DEF DialogueInv, Undisturbed
  <2> QED
    BY <2>3 DEF Dialogue, Before, Abandoned, Serving
<1> QED
  BY <1>1, DialogueProved, PTL

(* After however many restarts, a host that has come to its prompt does not *)
(* die of a command (exec_command) as long as nothing is reset or damaged,  *)
(* and the word it takes for the end of one is DONE, after the server has   *)
(* sent the job it was asked for to the clients.                            *)
CommandServed ==
  Undisturbed /\ host.pc \in {"prompt", "echo", "got", "done"} =>
    /\ host'.pc # "dead"
    /\ host.pc = "done" /\ host'.pc = "prompt" => Starts("DONE") /\ relayed = Code(cmd.job)

THEOREM CommandsServed == ShellSpec => [][CommandServed]_shellVars
<1>1. DialogueInv /\ [ShellNext]_shellVars => [CommandServed]_shellVars
  <2> SUFFICES ASSUME DialogueInv, ShellNext, Undisturbed,
                      host.pc \in {"prompt", "echo", "got", "done"}
               PROVE  /\ host'.pc # "dead"
                      /\ host.pc = "done" /\ host'.pc = "prompt" =>
                           Starts("DONE") /\ relayed = Code(cmd.job)
    BY DEF CommandServed
  <2>1. LineOK /\ PiOK /\ faults \in FaultType /\ host \in HostType
    BY DEF DialogueInv, TrustedInv, LoadInv, LineOK
  <2>2. Typed
    BY DEF DialogueInv, TrustedInv, Trusted, Undisturbed
  <2>3. Serving
    BY DEF DialogueInv, Dialogue, Before, Abandoned
  <2>4. CASE HostStep
    BY <2>1, <2>2, <2>3, <2>4, HostServing
  <2>5. CASE UserStep
    <3>1. host.pc = "prompt"
      BY <2>5 DEF UserStep, ExitCommand, OtherCommand, RunCommand, Command, HostAt
    <3>2. host'.pc \in {"exit", "prompt", "echo"}
      BY <2>1, <2>5, <3>1
      DEF UserStep, ExitCommand, OtherCommand, RunCommand, HostTo, HostType
    <3> QED
      BY <3>1, <3>2
  <2>6. CASE PiStep \/ PiRepeats
    <3>1. UNCHANGED host
      BY <2>6 DEF PiStep, PiRepeats, HasData, ProgInfo, PutCode, WrongOp, Copy, CopyDone, Up,
                  HasOp, UnixReady, Exit, Run, IgnoreOp, RunArgs, SendCodeOp, ServerWrongOp,
                  LoadJob, JobLoaded, Relay, CopyWords, PiReads, PiSends, boot_err,
                  wait_for_data, wait_for_op
    <3> QED
      BY <3>1
  <2>7. CASE Restart
    <3>1. \E p \in Images : host' = [host EXCEPT !.pc = "get_info", !.image = p]
      BY <2>7 DEF Restart
    <3>2. host'.pc = "get_info"
      BY <2>1, <3>1 DEF HostType
    <3> QED
      BY <3>2
  <2>8. CASE Reset \/ Flip
    BY <2>8 DEF Reset, Flip
  <2> QED
    BY <2>4, <2>5, <2>6, <2>7, <2>8 DEF ShellNext
<1> QED
  BY <1>1, DialogueProved, PTL DEF ShellSpec

------------------------------------------------------------------------------
(* Sessions.  The checksum a host is sent back tells it that the Pi has     *)
(* taken its own announcement, unless an earlier host was started with the  *)
(* same image and its announcement still stands on the line, or has been    *)
(* taken.  A restart is clean when there is no such announcement.           *)

(* PUT_PROG_INFO and the rest of the announcement of image p, from word k.  *)
Announces(s, k, p) ==
  k + 3 <= Len(s) /\ s[k].op = "PUT_PROG_INFO" /\ s[k + 3].op = "crc" /\ s[k + 3].v = p

Accepts(q, p) == q.pc \in {"code", "copy"} /\ q.crc = p

Stale ==
  \/ Accepts(pi, host.image)
  \/ \E k \in 1 .. Len(toPi) : Announces(toPi, k, host.image)

CleanNext == ShellNext /\ (Restart => ~ Stale')

CleanSpec == ShellInit /\ [][CleanNext]_shellVars

(* No damage produces the checksum of an image, or of what is none.         *)
Harmless == faults.flips = 0 \/ Garbles \cap (Images \cup {0}) = {}

(* Behind an address comes a size, behind a size a checksum, or the opcode  *)
(* of the next message.                                                     *)
InOrder(s) ==
  \A k \in 1 .. Len(s) : k + 1 <= Len(s) =>
    /\ s[k].op = "addr" => s[k + 1].op = "nbytes" \/ IsOp(s[k + 1])
    /\ s[k].op = "nbytes" => s[k + 1].op = "crc" \/ IsOp(s[k + 1])

NoInfo(s) == \A k \in 1 .. Len(s) : s[k].op # "PUT_PROG_INFO"

(* GET_CODE and the checksum of p, from byte j.                             *)
Echoes(s, j, p) ==
  j + 7 <= Len(s) /\ s[j].op = "GET_CODE" /\ s[j].i = 1 /\ s[j + 4].v = p

(* The checksum is behind every GET_CODE.                                   *)
EchoWhole(s) == \A j \in 1 .. Len(s) : s[j].op = "GET_CODE" /\ s[j].i = 1 => j + 7 <= Len(s)

NoCode(s) == \A j \in 1 .. Len(s) : s[j].op # "GET_CODE"

(* The announcement of the host's own image is the last on the line.        *)
OwnLast ==
  \A k \in 1 .. Len(toPi) : Announces(toPi, k, host.image) =>
    /\ host.pc \in {"drain", "dead"} /\ k + 3 = Len(toPi)
    /\ faults.flips = 0 => toPi[k + 2].v = Size[host.image]

(* The Pi has taken it: host and Pi have begun the same session.            *)
Begun ==
  \/ host.pc \in {"success"} \cup Booted
  \/ Accepts(pi, host.image)
  \/ \E j \in 1 .. Len(toHost) : Echoes(toHost, j, host.image)

(* In a session the Pi takes no other image.                                *)
Confirmed ==
  /\ host.pc # "get_info" /\ NoInfo(toPi)
  /\ pi.pc \in {"code", "copy"} => pi.crc = host.image
  /\ pi.image # <<>> => pi.image = Code(host.image)

Sessions ==
  /\ InOrder(toPi) /\ EchoWhole(toHost) /\ OwnLast
  /\ host.pc \notin Stopped /\ Begun => Confirmed

(* Parts of the two lines.                                                  *)
LEMMA Shifted ==
  ASSUME NEW T, NEW s \in Seq(T), NEW n \in 0 .. Len(s)
  PROVE  /\ Drop(s, n) \in Seq(T) /\ Len(Drop(s, n)) = Len(s) - n /\ Len(s) \in Nat /\ n \in Nat
         /\ \A k \in 1 .. Len(s) - n : Drop(s, n)[k] = s[k + n]
BY DEF Drop

LEMMA PiLineRest ==
  ASSUME NEW s \in Seq(WordType), NEW n \in 0 .. Len(s)
  PROVE  /\ InOrder(s) => InOrder(Drop(s, n))
         /\ NoInfo(s) => NoInfo(Drop(s, n))
         /\ \A k \in 1 .. Len(Drop(s, n)), p \in Images :
              Announces(Drop(s, n), k, p) =>
                /\ k + n \in 1 .. Len(s) /\ Announces(s, k + n, p)
                /\ k + 2 \in 1 .. Len(Drop(s, n)) /\ Drop(s, n)[k + 2] = s[k + n + 2]
<1> DEFINE t == Drop(s, n)
<1>1. /\ Len(t) = Len(s) - n /\ Len(s) \in Nat /\ n \in Nat /\ n <= Len(s)
      /\ \A k \in 1 .. Len(t) : t[k] = s[k + n]
  BY Shifted
<1> HIDE DEF t
<1>2. \A k \in 1 .. Len(t) : k + n \in 1 .. Len(s) /\ t[k] = s[k + n]
  BY <1>1
<1>3. \A k \in 1 .. Len(t) : k + 1 <= Len(t) =>
        k + 1 \in 1 .. Len(t) /\ k + 1 + n = k + n + 1 /\ k + n + 1 <= Len(s)
  BY <1>1
<1>4. \A k \in 1 .. Len(t) : k + 3 <= Len(t) =>
        /\ k + 3 \in 1 .. Len(t) /\ k + 3 + n = k + n + 3 /\ k + n + 3 <= Len(s)
        /\ k + 2 \in 1 .. Len(t) /\ k + 2 + n = k + n + 2
  BY <1>1
<1>5. ASSUME InOrder(s) PROVE InOrder(t)
  <2>1. \A k \in 1 .. Len(t) : k + 1 <= Len(t) =>
          /\ t[k] = s[k + n] /\ t[k + 1] = s[k + n + 1]
          /\ k + n \in 1 .. Len(s) /\ k + n + 1 <= Len(s)
    <3> SUFFICES ASSUME NEW k \in 1 .. Len(t), k + 1 <= Len(t)
                 PROVE  t[k] = s[k + n] /\ t[k + 1] = s[k + n + 1]
                        /\ k + n \in 1 .. Len(s) /\ k + n + 1 <= Len(s)
      OBVIOUS
    <3>1. k + 1 \in 1 .. Len(t) /\ k + 1 + n = k + n + 1 /\ k + n + 1 <= Len(s)
      BY <1>3
    <3> QED
      BY <1>2, <3>1
  <2> QED
    BY <1>5, <2>1 DEF InOrder
<1>6. ASSUME NoInfo(s) PROVE NoInfo(t)
  BY <1>2, <1>6 DEF NoInfo
<1>7. ASSUME NEW k \in 1 .. Len(t), NEW p \in Images, Announces(t, k, p)
      PROVE  /\ k + n \in 1 .. Len(s) /\ Announces(s, k + n, p)
             /\ k + 2 \in 1 .. Len(t) /\ t[k + 2] = s[k + n + 2]
  <2>1. k + 3 <= Len(t)
    BY <1>7 DEF Announces
  <2>2. /\ k + 3 \in 1 .. Len(t) /\ k + 3 + n = k + n + 3 /\ k + n + 3 <= Len(s)
        /\ k + 2 \in 1 .. Len(t) /\ k + 2 + n = k + n + 2
    BY <1>4, <2>1
  <2>3. t[k + 3] = s[k + n + 3]
    BY <1>2, <2>2
  <2>4. t[k + 2] = s[k + n + 2]
    BY <1>2, <2>2
  <2>5. t[k] = s[k + n] /\ k + n \in 1 .. Len(s)
    BY <1>2
  <2> QED
    BY <1>7, <2>2, <2>3, <2>4, <2>5 DEF Announces
<1> QED
  BY <1>5, <1>6, <1>7 DEF t

LEMMA PiLineCut ==
  ASSUME NEW s \in Seq(WordType), NEW n \in 0 .. Len(s)
  PROVE  InOrder(s) => InOrder(SubSeq(s, 1, n))
<1> DEFINE t == SubSeq(s, 1, n)
<1>1. /\ Len(t) = n /\ Len(s) \in Nat /\ n \in Nat /\ n <= Len(s)
      /\ \A k \in 1 .. n : t[k] = s[k]
  OBVIOUS
<1> HIDE DEF t
<1>2. \A k \in 1 .. n : k \in 1 .. Len(s) /\ (k + 1 <= n => k + 1 \in 1 .. n /\ k + 1 <= Len(s))
  BY <1>1
<1>3. InOrder(s) => InOrder(t)
  BY <1>1, <1>2 DEF InOrder
<1> QED
  BY <1>3 DEF t

LEMMA PiLineMore ==
  ASSUME NEW s \in Seq(WordType), NEW t \in Seq(WordType), InOrder(s), InOrder(t),
         t # <<>>, IsOp(t[1])
  PROVE  InOrder(s \o t)
<1> DEFINE u == s \o t
<1>1. /\ Len(u) = Len(s) + Len(t) /\ Len(s) \in Nat /\ Len(t) \in Nat /\ 1 <= Len(t)
      /\ \A k \in 1 .. Len(s) : u[k] = s[k]
      /\ \A k \in 1 .. Len(t) : u[Len(s) + k] = t[k]
  OBVIOUS
<1> HIDE DEF u
<1>2. ASSUME NEW k \in 1 .. Len(u), k + 1 <= Len(u)
      PROVE  /\ u[k].op = "addr" => u[k + 1].op = "nbytes" \/ IsOp(u[k + 1])
             /\ u[k].op = "nbytes" => u[k + 1].op = "crc" \/ IsOp(u[k + 1])
  <2>1. CASE k + 1 <= Len(s)
    <3>1. k \in 1 .. Len(s) /\ k + 1 \in 1 .. Len(s)
      BY <1>1, <2>1
    <3> QED
      BY <1>1, <2>1, <3>1 DEF InOrder
  <2>2. CASE k = Len(s)
    <3>1. k + 1 = Len(s) + 1 /\ 1 \in 1 .. Len(t)
      BY <1>1, <2>2
    <3>2. u[k + 1] = t[1]
      BY <1>1, <3>1
    <3> QED
      BY <3>2
  <2>3. CASE k > Len(s)
    <3>1. PICK j \in 1 .. Len(t) : k = Len(s) + j
      <4>1. k - Len(s) \in 1 .. Len(t) /\ k = Len(s) + (k - Len(s))
        BY <1>1, <2>3
      <4> QED
        BY <4>1
    <3>2. j + 1 \in 1 .. Len(t) /\ j + 1 <= Len(t) /\ k + 1 = Len(s) + (j + 1)
      BY <1>1, <1>2, <3>1
    <3>3. u[k] = t[j] /\ u[k + 1] = t[j + 1]
      BY <1>1, <3>1, <3>2
    <3> QED
      BY <3>2, <3>3 DEF InOrder
  <2> QED
    BY <1>1, <1>2, <2>1, <2>2, <2>3
<1>3. InOrder(u)
  BY <1>2 DEF InOrder
<1> QED
  BY <1>3 DEF u

LEMMA NoInfoMore ==
  ASSUME NEW s \in Seq(WordType), NEW t \in Seq(WordType), NoInfo(s), NoInfo(t)
  PROVE  NoInfo(s \o t)
<1> DEFINE u == s \o t
<1>1. /\ Len(u) = Len(s) + Len(t) /\ Len(s) \in Nat /\ Len(t) \in Nat
      /\ \A k \in 1 .. Len(s) : u[k] = s[k]
      /\ \A k \in 1 .. Len(t) : u[Len(s) + k] = t[k]
  OBVIOUS
<1> HIDE DEF u
<1>2. \A k \in 1 .. Len(u) : \/ k \in 1 .. Len(s)
                             \/ k - Len(s) \in 1 .. Len(t) /\ Len(s) + (k - Len(s)) = k
  BY <1>1
<1>3. ASSUME NEW k \in 1 .. Len(u) PROVE u[k].op # "PUT_PROG_INFO"
  <2>1. CASE k \in 1 .. Len(s)
    BY <1>1, <2>1 DEF NoInfo
  <2>2. CASE k \notin 1 .. Len(s)
    <3> DEFINE i == k - Len(s)
    <3>1. i \in 1 .. Len(t) /\ Len(s) + i = k
      BY <1>2, <2>2
    <3> HIDE DEF i
    <3>2. u[k] = t[i]
      BY <1>1, <3>1
    <3> QED
      BY <3>1, <3>2 DEF NoInfo
  <2> QED
    BY <2>1, <2>2
<1>4. NoInfo(u)
  BY <1>3 DEF NoInfo
<1> QED
  BY <1>4 DEF u

LEMMA HostLineRest ==
  ASSUME NEW s \in Seq(Byte), NEW n \in 0 .. Len(s)
  PROVE  /\ EchoWhole(s) => EchoWhole(Drop(s, n))
         /\ \A j \in 1 .. Len(Drop(s, n)), p \in Images :
              Echoes(Drop(s, n), j, p) => j + n \in 1 .. Len(s) /\ Echoes(s, j + n, p)
<1> DEFINE t == Drop(s, n)
<1>1. /\ Len(t) = Len(s) - n /\ Len(s) \in Nat /\ n \in Nat /\ n <= Len(s)
      /\ \A k \in 1 .. Len(t) : t[k] = s[k + n]
  BY Shifted
<1> HIDE DEF t
<1>2. \A k \in 1 .. Len(t) : k + n \in 1 .. Len(s) /\ t[k] = s[k + n]
  BY <1>1
<1>3. \A k \in 1 .. Len(t) : k + n + 7 <= Len(s) <=> k + 7 <= Len(t)
  BY <1>1
<1>4. \A k \in 1 .. Len(t) : k + 7 <= Len(t) => k + 4 \in 1 .. Len(t) /\ k + 4 + n = k + n + 4
  BY <1>1
<1>5. EchoWhole(s) => EchoWhole(t)
  BY <1>2, <1>3 DEF EchoWhole
<1>6. ASSUME NEW j \in 1 .. Len(t), NEW p \in Images, Echoes(t, j, p)
      PROVE  j + n \in 1 .. Len(s) /\ Echoes(s, j + n, p)
  <2>1. j + 7 <= Len(t)
    BY <1>6 DEF Echoes
  <2>2. j + 4 \in 1 .. Len(t) /\ j + 4 + n = j + n + 4 /\ j + n + 7 <= Len(s)
    BY <1>3, <1>4, <2>1
  <2>3. t[j + 4] = s[j + n + 4]
    BY <1>2, <2>2
  <2>4. t[j] = s[j + n] /\ j + n \in 1 .. Len(s)
    BY <1>2
  <2> QED
    BY <1>6, <2>2, <2>3, <2>4 DEF Echoes
<1> QED
  BY <1>5, <1>6 DEF t

LEMMA HostLineMore ==
  ASSUME NEW s \in Seq(Byte), NEW t \in Seq(Byte), EchoWhole(s), EchoWhole(t)
  PROVE  /\ EchoWhole(s \o t)
         /\ \A j \in 1 .. Len(s \o t), p \in Images : Echoes(s \o t, j, p) =>
              \/ j \in 1 .. Len(s) /\ Echoes(s, j, p)
              \/ j - Len(s) \in 1 .. Len(t) /\ Echoes(t, j - Len(s), p)
<1> DEFINE u == s \o t
<1>1. /\ Len(u) = Len(s) + Len(t) /\ Len(s) \in Nat /\ Len(t) \in Nat
      /\ \A k \in 1 .. Len(s) : u[k] = s[k]
      /\ \A k \in 1 .. Len(t) : u[Len(s) + k] = t[k]
  OBVIOUS
<1> HIDE DEF u
<1>2. \A k \in 1 .. Len(u) :
        \/ k \in 1 .. Len(s) /\ u[k] = s[k]
        \/ k - Len(s) \in 1 .. Len(t) /\ u[k] = t[k - Len(s)]
  <2>1. \A k \in 1 .. Len(u) : \/ k \in 1 .. Len(s)
                               \/ k - Len(s) \in 1 .. Len(t) /\ Len(s) + (k - Len(s)) = k
    BY <1>1
  <2> QED
    BY <1>1, <2>1
<1>3. EchoWhole(u)
  <2> SUFFICES ASSUME NEW k \in 1 .. Len(u), u[k].op = "GET_CODE", u[k].i = 1
               PROVE  k + 7 <= Len(u)
    BY DEF EchoWhole
  <2>1. CASE k \in 1 .. Len(s) /\ u[k] = s[k]
    <3>1. k + 7 <= Len(s)
      BY <2>1 DEF EchoWhole
    <3> QED
      BY <1>1, <3>1
  <2>2. CASE k - Len(s) \in 1 .. Len(t) /\ u[k] = t[k - Len(s)]
    <3>1. k - Len(s) + 7 <= Len(t)
      BY <2>2 DEF EchoWhole
    <3> QED
      BY <1>1, <3>1
  <2> QED
    BY <1>2, <2>1, <2>2
<1>4. ASSUME NEW j \in 1 .. Len(u), NEW p \in Images, Echoes(u, j, p)
      PROVE  \/ j \in 1 .. Len(s) /\ Echoes(s, j, p)
             \/ j - Len(s) \in 1 .. Len(t) /\ Echoes(t, j - Len(s), p)
  <2>0. j + 7 <= Len(u) /\ u[j].op = "GET_CODE" /\ u[j].i = 1 /\ u[j + 4].v = p
    BY <1>4 DEF Echoes
  <2>1. CASE j \in 1 .. Len(s) /\ u[j] = s[j]
    <3>1. j + 7 <= Len(s)
      BY <2>0, <2>1 DEF EchoWhole
    <3>2. j + 4 \in 1 .. Len(s)
      BY <1>1, <2>1, <3>1
    <3>3. u[j + 4] = s[j + 4]
      BY <1>1, <3>2
    <3> QED
      BY <2>0, <2>1, <3>1, <3>3 DEF Echoes
  <2>2. CASE j - Len(s) \in 1 .. Len(t) /\ u[j] = t[j - Len(s)]
    <3> DEFINE i == j - Len(s)
    <3>1. i \in 1 .. Len(t) /\ j = Len(s) + i /\ u[j] = t[i]
      BY <1>1, <2>2
    <3>2. /\ j + 7 <= Len(u) /\ Len(u) = Len(s) + Len(t)
          /\ Len(s) \in Nat /\ Len(t) \in Nat
      BY <1>1, <2>0
    <3> HIDE DEF i
    <3>3. i + 7 <= Len(t) /\ i + 4 \in 1 .. Len(t) /\ Len(s) + (i + 4) = j + 4
      BY <3>1, <3>2
    <3>4. u[j + 4] = t[i + 4]
      BY <1>1, <3>3
    <3>5. Echoes(t, i, p)
      BY <2>0, <3>1, <3>3, <3>4 DEF Echoes
    <3> QED
      BY <2>2, <3>5 DEF i
  <2> QED
    BY <1>2, <2>1, <2>2
<1> QED
  BY <1>3, <1>4 DEF u

LEMMA Silent ==
  ASSUME NEW s, NoCode(s)
  PROVE  EchoWhole(s) /\ \A j \in 1 .. Len(s) : \A p : ~ Echoes(s, j, p)
BY DEF NoCode, EchoWhole, Echoes

(* What the Pi sends without GET_CODE.                                      *)
Uncoded == BytesOf(HostOps \ {"GET_CODE"})

LEMMA UncodedSilent ==
  ASSUME NEW s \in Seq(Uncoded)
  PROVE  NoCode(s) /\ s \in Seq(Byte)
<1>1. \A b \in Uncoded : b.op # "GET_CODE" /\ b \in Byte
  BY DEF Uncoded, BytesOf, Byte
<1>2. \A k \in 1 .. Len(s) : s[k] \in Uncoded
  OBVIOUS
<1> QED
  BY <1>1, <1>2 DEF NoCode

(* An announcement the Pi takes, with the checksum of an image, is one a    *)
(* host has made of that image, and no mixture of two.                      *)
LEMMA OwnTaken ==
  ASSUME Width \div 2 - 1 \notin Images, LineOK, InOrder(toPi), Next32("PUT_PROG_INFO"),
         Len(toPi) >= 4, ~ Collides(toPi[2].v, toPi[3].v), toPi[4].v \in Images
  PROVE  Announces(toPi, 1, toPi[4].v)
<1> DEFINE a == toPi[2].v
           n == toPi[3].v
           h == Width \div 2
<1>1. toPi \in Seq(Packet) /\ Framed(toPi)
  BY DEF LineOK
<1>2. 1 \in 1 .. Len(toPi) /\ 2 \in 1 .. Len(toPi) /\ 3 \in 1 .. Len(toPi) /\ 4 \in 1 .. Len(toPi)
  BY <1>1
<1>3. toPi[2] \in Packet /\ toPi[3] \in Packet /\ toPi[4] \in Packet
  BY <1>1, <1>2
<1>4. a \in Nat /\ n \in Nat
  BY <1>3 DEF Packet
<1>5. toPi[1].op = "PUT_PROG_INFO"
  BY <1>1, <1>2 DEF Next32
<1>6. AddrOrOp(toPi[2]) /\ (IsOp(toPi[2]) => AddrOrOp(toPi[3]))
  BY <1>1, <1>2, <1>5 DEF Framed
<1>7. h \in Nat /\ 2 * h <= Width /\ Width \in Nat /\ ARMBASE \in Nat /\ Loader \in Nat
      /\ ARMBASE <= Loader /\ Loader <= h - 1
  BY Half
<1> HIDE DEF h
<1>8. (a + n) % Width < Loader
  <2>1. (a + n) % Width \in Int
    BY <1>4, <1>7
  <2> QED
    BY <1>7, <2>1 DEF Collides
<1>9. ASSUME a <= h - 1, n <= h - 1, a = h - 1 \/ n = h - 1 PROVE FALSE
  <2> HIDE DEF a, n
  <2>1. a + n \in Nat /\ a + n < Width /\ a + n >= Loader
    BY <1>4, <1>7, <1>9
  <2>2. (a + n) % Width = a + n
    BY <1>7, <2>1, SmallMod
  <2> QED
    BY <1>7, <1>8, <2>1, <2>2
<1>10. ~ IsOp(toPi[2])
  <2> SUFFICES ASSUME IsOp(toPi[2]) PROVE FALSE
    OBVIOUS
  <2>1. a = h - 1
    BY DEF IsOp, h
  <2>2. n = ARMBASE \/ n = h - 1
    BY <1>6 DEF AddrOrOp, IsOp, Item, h
  <2> HIDE DEF a, n
  <2>3. n <= h - 1 /\ a <= h - 1
    BY <1>7, <2>1, <2>2
  <2> QED
    BY <1>9, <2>1, <2>3
<1>11. toPi[2].op = "addr" /\ a = ARMBASE
  BY <1>6, <1>10 DEF AddrOrOp, Item
<1>12. ~ IsOp(toPi[3])
  <2> SUFFICES ASSUME IsOp(toPi[3]) PROVE FALSE
    OBVIOUS
  <2>1. n = h - 1
    BY DEF IsOp, h
  <2>2. a = ARMBASE
    BY <1>11
  <2> HIDE DEF a, n
  <2>3. a <= h - 1 /\ n <= h - 1
    BY <1>7, <2>1, <2>2
  <2> QED
    BY <1>9, <2>1, <2>3
<1>13. 2 + 1 <= Len(toPi) /\ 3 + 1 <= Len(toPi)
  BY <1>1
<1>14. toPi[3].op = "nbytes"
  BY <1>2, <1>11, <1>12, <1>13 DEF InOrder
<1>15. toPi[4].op = "crc" \/ IsOp(toPi[4])
  BY <1>2, <1>13, <1>14 DEF InOrder
<1>16. toPi[4].op = "crc"
  BY <1>15 DEF IsOp
<1> QED
  BY <1>1, <1>5, <1>16 DEF Announces

(* A step of a session in which nothing is announced.                       *)
LEMMA InSession ==
  ASSUME Confirmed, host'.image = host.image, host'.pc # "get_info", UNCHANGED pi,
         EchoWhole(toHost'), NoInfo(toPi'), InOrder(toPi')
  PROVE  Sessions'
<1>1. OwnLast'
  BY DEF OwnLast, Announces, NoInfo
<1>2. Confirmed'
  BY DEF Confirmed
<1> QED
  BY <1>1, <1>2 DEF Sessions

(* The host gives up.                                                       *)
LEMMA SessionOver ==
  ASSUME Sessions, host'.image = host.image, host'.pc \in Stopped, UNCHANGED <<faults, toPi>>,
         host'.pc = "dead" \/ (Begun /\ host.pc \notin Stopped), EchoWhole(toHost')
  PROVE  Sessions'
<1>1. OwnLast'
  <2>1. CASE host'.pc = "dead"
    BY <2>1 DEF Sessions, OwnLast, Announces
  <2>2. CASE Begun /\ host.pc \notin Stopped
    <3>1. NoInfo(toPi)
      BY <2>2 DEF Sessions, Confirmed
    <3> QED
      BY <3>1 DEF OwnLast, Announces, NoInfo
  <2> QED
    BY <2>1, <2>2
<1> QED
  BY <1>1 DEF Sessions

(* The host reads on.                                                       *)
LEMMA HostSkips ==
  ASSUME Sessions, toHost \in Seq(Byte), host \in HostType, UNCHANGED <<host, pi, toPi, faults>>,
         NEW n \in 0 .. Len(toHost), toHost' = Drop(toHost, n)
  PROVE  Sessions'
<1>1. host.image \in Images
  BY DEF HostType
<1>2. /\ EchoWhole(toHost')
      /\ \A j \in 1 .. Len(toHost') : Echoes(toHost', j, host.image) =>
           j + n \in 1 .. Len(toHost) /\ Echoes(toHost, j + n, host.image)
  BY <1>1, HostLineRest DEF Sessions
<1>3. Begun' => Begun
  <2>1. (\E j \in 1 .. Len(toHost') : Echoes(toHost', j, host.image)) =>
          \E j \in 1 .. Len(toHost) : Echoes(toHost, j, host.image)
    BY <1>2
  <2> QED
    BY <2>1 DEF Begun, Accepts
<1>4. OwnLast'
  BY DEF Sessions, OwnLast, Announces
<1>5. Confirmed => Confirmed'
  BY DEF Confirmed
<1> QED
  BY <1>2, <1>3, <1>4, <1>5 DEF Sessions

(* The host announces its image.                                            *)
LEMMA Announcement ==
  ASSUME NEW s \in Seq(WordType), NEW p \in Images, InOrder(s)
  PROVE  LET t == <<Op("PUT_PROG_INFO"), Item("addr", ARMBASE), Item("nbytes", Size[p]),
                    Item("crc", p)>>
             u == s \o t
         IN  /\ InOrder(u)
             /\ \A k \in 1 .. Len(u) : Announces(u, k, p) =>
                  \/ k \in 1 .. Len(s) /\ Announces(s, k, p)
                  \/ k + 3 = Len(u) /\ u[k + 2].v = Size[p]
<1> DEFINE t == <<Op("PUT_PROG_INFO"), Item("addr", ARMBASE), Item("nbytes", Size[p]),
                  Item("crc", p)>>
           u == s \o t
<1>1. /\ Op("PUT_PROG_INFO") \in WordType /\ Item("addr", ARMBASE) \in WordType
      /\ Item("nbytes", Size[p]) \in WordType /\ Item("crc", p) \in WordType
      /\ IsOp(Op("PUT_PROG_INFO"))
  BY OpTyped, ItemTyped, Bounds, OpWord DEF Opcodes, Kinds
<1>2. /\ t \in Seq(WordType) /\ Len(t) = 4 /\ t # <<>> /\ IsOp(t[1])
      /\ t[1].op = "PUT_PROG_INFO" /\ t[2].op = "addr" /\ t[3].op = "nbytes" /\ t[4].op = "crc"
      /\ t[3].v = Size[p]
  BY <1>1 DEF Op, Item
<1> HIDE DEF t
<1>3. \A k \in 1 .. 4 : k = 1 \/ k = 2 \/ k = 3 \/ k = 4
  OBVIOUS
<1>4. InOrder(t)
  <2> SUFFICES ASSUME NEW k \in 1 .. Len(t), k + 1 <= Len(t)
               PROVE  /\ t[k].op = "addr" => t[k + 1].op = "nbytes" \/ IsOp(t[k + 1])
                      /\ t[k].op = "nbytes" => t[k + 1].op = "crc" \/ IsOp(t[k + 1])
    BY DEF InOrder
  <2>1. k = 1 \/ k = 2 \/ k = 3 \/ k = 4
    BY <1>2, <1>3
  <2>2. CASE k = 1
    BY <1>2, <2>2
  <2>3. CASE k = 2
    <3>1. t[k + 1] = t[3]
      BY <2>3
    <3> QED
      BY <1>2, <2>3, <3>1
  <2>4. CASE k = 3
    <3>1. t[k + 1] = t[4]
      BY <2>4
    <3> QED
      BY <1>2, <2>4, <3>1
  <2>5. CASE k = 4
    BY <1>2, <2>5
  <2> QED
    BY <2>1, <2>2, <2>3, <2>4, <2>5
<1>5. InOrder(u)
  BY <1>2, <1>4, PiLineMore
<1>6. /\ Len(u) = Len(s) + 4 /\ Len(s) \in Nat
      /\ \A k \in 1 .. Len(s) : u[k] = s[k]
      /\ \A k \in 1 .. 4 : u[Len(s) + k] = t[k]
  <2>1. t \in Seq(WordType) /\ Len(t) = 4
    BY <1>2
  <2>2. /\ Len(u) = Len(s) + Len(t) /\ Len(s) \in Nat
        /\ \A k \in 1 .. Len(s) : u[k] = s[k]
        /\ \A k \in 1 .. Len(t) : u[Len(s) + k] = t[k]
    BY <2>1, WordElements
  <2> HIDE DEF u
  <2> QED
    BY <2>1, <2>2
<1> HIDE DEF u
<1>7. ASSUME NEW k \in 1 .. Len(u), Announces(u, k, p)
      PROVE  \/ k \in 1 .. Len(s) /\ Announces(s, k, p)
             \/ k + 3 = Len(u) /\ u[k + 2].v = Size[p]
  <2>0. k + 3 <= Len(u) /\ u[k].op = "PUT_PROG_INFO" /\ u[k + 3].op = "crc" /\ u[k + 3].v = p
    BY <1>7 DEF Announces
  <2>1. CASE k + 3 <= Len(s)
    <3>1. k \in 1 .. Len(s) /\ k + 3 \in 1 .. Len(s)
      BY <1>6, <2>1
    <3> QED
      BY <1>6, <2>0, <2>1, <3>1 DEF Announces
  <2>2. CASE k + 3 > Len(s)
    <3> DEFINE i == k + 3 - Len(s)
    <3>1. i \in 1 .. 4 /\ Len(s) + i = k + 3
      BY <1>6, <2>0, <2>2
    <3>2. t[i].op = "crc"
      BY <1>6, <2>0, <3>1
    <3>3. i = 4
      BY <1>2, <1>3, <3>1, <3>2
    <3>4. k + 3 = Len(u) /\ k + 2 = Len(s) + 3
      BY <1>6, <3>1, <3>3
    <3>5. u[k + 2] = t[3]
      BY <1>6, <3>4
    <3> QED
      BY <1>2, <3>4, <3>5
  <2> QED
    BY <1>6, <2>1, <2>2
<1> QED
  BY <1>5, <1>7 DEF u, t

LEMMA SaysSilently ==
  ASSUME EchoWhole(toHost), toHost \in Seq(Byte), NEW b \in Images,
         toHost' = toHost \/ \E s \in Seq(Uncoded) : toHost' = ToHost(s)
  PROVE  /\ EchoWhole(toHost')
         /\ \A j \in 1 .. Len(toHost') : Echoes(toHost', j, b) =>
              \E i \in 1 .. Len(toHost) : Echoes(toHost, i, b)
<1>1. CASE toHost' = toHost
  BY <1>1
<1>2. ASSUME NEW s \in Seq(Uncoded), toHost' = ToHost(s)
      PROVE  /\ EchoWhole(toHost')
             /\ \A j \in 1 .. Len(toHost') : Echoes(toHost', j, b) =>
                  \E i \in 1 .. Len(toHost) : Echoes(toHost, i, b)
  <2>1. CASE host.pc \in Stopped
    <3>1. toHost' = <<>> /\ Len(toHost') = 0
      BY <1>2, <2>1 DEF ToHost
    <3> QED
      BY <3>1 DEF EchoWhole
  <2>2. CASE host.pc \notin Stopped
    <3>1. toHost' = toHost \o s
      BY <1>2, <2>2 DEF ToHost
    <3>2. NoCode(s) /\ s \in Seq(Byte)
      BY UncodedSilent
    <3>3. EchoWhole(s) /\ \A j \in 1 .. Len(s) : ~ Echoes(s, j, b)
      BY <3>2, Silent
    <3>4. /\ EchoWhole(toHost \o s)
          /\ \A j \in 1 .. Len(toHost \o s) : Echoes(toHost \o s, j, b) =>
               \/ j \in 1 .. Len(toHost) /\ Echoes(toHost, j, b)
               \/ j - Len(toHost) \in 1 .. Len(s) /\ Echoes(s, j - Len(toHost), b)
      BY <3>2, <3>3, HostLineMore
    <3> QED
      BY <3>1, <3>3, <3>4
  <2> QED
    BY <2>1, <2>2
<1> QED
  BY <1>1, <1>2

LEMMA UncodedWords ==
  /\ \A n \in Nat : Junk(n) \in Seq(Uncoded)
  /\ \A op \in HostOps \ {"GET_CODE"}, v \in 0 .. Width - 1 : Word(op, v) \in Seq(Uncoded)
  /\ 0 \in 0 .. Width - 1
<1>1. "junk" \in HostOps \ {"GET_CODE"}
  BY DEF HostOps
<1>2. \A n \in Nat : Junk(n) \in Seq(Uncoded)
  BY <1>1, JunkIn DEF Uncoded
<1>3. ASSUME NEW op \in HostOps \ {"GET_CODE"}, NEW v \in 0 .. Width - 1
      PROVE  Word(op, v) \in Seq(Uncoded)
  BY WordIn DEF Uncoded
<1> QED
  BY <1>2, <1>3, Bounds

LEMMA SaidUncoded ==
  /\ boot_putk \o Word("BOOT_ERROR", 0) \in Seq(Uncoded)
  /\ boot_putk \o Word("BOOT_SUCCESS", 0) \in Seq(Uncoded)
<1>1. /\ Word("PRINT_STRING", 0) \in Seq(Uncoded) /\ Word("strlen", 0) \in Seq(Uncoded)
      /\ Word("BOOT_ERROR", 0) \in Seq(Uncoded) /\ Word("BOOT_SUCCESS", 0) \in Seq(Uncoded)
  BY UncodedWords DEF HostOps
<1>2. Junk(TextLen) \in Seq(Uncoded)
  BY UncodedWords, BootLoaderAssumption
<1>3. boot_putk \in Seq(Uncoded)
  BY <1>1, <1>2, Put DEF boot_putk
<1> QED
  BY <1>1, <1>3, Put

(* The two steps in which the Pi enters a session, and what the others do.  *)
TakesInfo ==
  /\ pi.pc = "info" /\ Next32("PUT_PROG_INFO") /\ Len(toPi) >= 4
  /\ ~ Collides(toPi[2].v, toPi[3].v)
  /\ toPi' = Drop(toPi, 4)
  /\ PiSends(Word("GET_CODE", 0) \o Word("crc", toPi[4].v),
             [pi EXCEPT !.pc = "code", !.nbytes = toPi[3].v, !.crc = toPi[4].v])

TakesImage ==
  /\ pi.pc = "copy" /\ crc32(pi.mem) = pi.crc
  /\ PiSends(boot_putk \o Word("BOOT_SUCCESS", 0), [pi EXCEPT !.pc = "ready", !.image = pi.mem])
  /\ UNCHANGED toPi

GoesOn ==
  /\ UNCHANGED <<host, faults>>
  /\ \E n \in 0 .. Len(toPi) : toPi' = Drop(toPi, n)
  /\ toHost' = toHost \/ \E s \in Seq(Uncoded) : toHost' = ToHost(s)
  /\ pi'.pc \in {"code", "copy"} => pi.pc \in {"code", "copy"} /\ pi'.crc = pi.crc
  /\ pi'.image # <<>> => pi'.image = pi.image

(* A step of the Pi, or its reset, that neither accepts an announcement nor *)
(* starts an image.                                                         *)
LEMMA PiGoesOn ==
  ASSUME Sessions, host \in HostType, toPi \in Seq(WordType), toHost \in Seq(Byte),
         UNCHANGED host, faults'.flips = faults.flips,
         NEW n \in 0 .. Len(toPi), toPi' = Drop(toPi, n),
         toHost' = toHost \/ \E s \in Seq(Uncoded) : toHost' = ToHost(s),
         pi'.pc \in {"code", "copy"} => pi.pc \in {"code", "copy"} /\ pi'.crc = pi.crc,
         pi'.image # <<>> => pi'.image = pi.image
  PROVE  Sessions'
<1>1. host.image \in Images
  BY DEF HostType
<1>2. /\ InOrder(toPi') /\ (NoInfo(toPi) => NoInfo(toPi'))
      /\ \A k \in 1 .. Len(toPi') : Announces(toPi', k, host.image) =>
           /\ k + n \in 1 .. Len(toPi) /\ Announces(toPi, k + n, host.image)
           /\ k + 2 \in 1 .. Len(toPi') /\ toPi'[k + 2] = toPi[k + n + 2]
  BY <1>1, PiLineRest DEF Sessions
<1>3. Len(toPi') = Len(toPi) - n /\ Len(toPi) \in Nat /\ n \in Nat
  BY Shifted
<1>4. OwnLast'
  <2> SUFFICES ASSUME NEW k \in 1 .. Len(toPi'), Announces(toPi', k, host.image)
               PROVE  /\ host.pc \in {"drain", "dead"} /\ k + 3 = Len(toPi')
                      /\ faults.flips = 0 => toPi'[k + 2].v = Size[host.image]
    BY DEF OwnLast, Announces
  <2>1. /\ k + n \in 1 .. Len(toPi) /\ Announces(toPi, k + n, host.image)
        /\ toPi'[k + 2] = toPi[k + n + 2]
    BY <1>2
  <2>2. /\ host.pc \in {"drain", "dead"} /\ k + n + 3 = Len(toPi)
        /\ faults.flips = 0 => toPi[k + n + 2].v = Size[host.image]
    BY <2>1 DEF Sessions, OwnLast
  <2>3. k + 3 = Len(toPi')
    BY <1>3, <2>2
  <2> QED
    BY <2>1, <2>2, <2>3
<1>5. /\ EchoWhole(toHost')
      /\ \A j \in 1 .. Len(toHost') : Echoes(toHost', j, host.image) =>
           \E i \in 1 .. Len(toHost) : Echoes(toHost, i, host.image)
  BY <1>1, SaysSilently DEF Sessions
<1>6. Begun' => Begun
  <2>1. Accepts(pi', host.image) => Accepts(pi, host.image)
    BY DEF Accepts
  <2> QED
    BY <1>5, <2>1 DEF Begun, Accepts
<1>7. Confirmed => Confirmed'
  BY <1>2 DEF Confirmed
<1> QED
  BY <1>2, <1>4, <1>5, <1>6, <1>7 DEF Sessions

LEMMA WholeLine == ASSUME NEW T, NEW s \in Seq(T) PROVE Drop(s, 0) = s /\ 0 \in 0 .. Len(s)
<1> DEFINE t == Drop(s, 0)
<1>1. /\ t \in Seq(T) /\ Len(t) = Len(s) /\ Len(s) \in Nat
      /\ \A k \in 1 .. Len(s) : t[k] = s[k]
  BY DEF Drop
<1> HIDE DEF t
<1>2. t = s
  BY <1>1
<1> QED
  BY <1>1, <1>2 DEF t

LEMMA TailDrops ==
  ASSUME NEW T, NEW s \in Seq(T), s # <<>>
  PROVE  Tail(s) = Drop(s, 1) /\ 1 \in 0 .. Len(s)
BY DEF Drop

(* The Pi accepts an announcement.                                          *)
LEMMA InfoTaken ==
  ASSUME Width \div 2 - 1 \notin Images, Sessions, LineOK, PiOK, Typed, TakesInfo
  PROVE  Sessions'
<1> DEFINE b == host.image
           v == toPi[4].v
           e == Word("GET_CODE", 0) \o Word("crc", v)
<1>a. /\ pi.pc = "info" /\ Next32("PUT_PROG_INFO") /\ Len(toPi) >= 4
      /\ ~ Collides(toPi[2].v, toPi[3].v)
      /\ toPi' = Drop(toPi, 4)
      /\ PiSends(e, [pi EXCEPT !.pc = "code", !.nbytes = toPi[3].v, !.crc = v])
  BY DEF TakesInfo
<1>1. /\ host \in HostType /\ b \in Images /\ toPi \in Seq(WordType) /\ toHost \in Seq(Byte)
      /\ Len(toPi) \in Nat /\ pi \in PiType
  BY DEF LineOK, PiOK, Typed, HostType
<1>2. /\ UNCHANGED <<host, faults>> /\ toHost' = ToHost(e)
      /\ pi'.pc = "code" /\ pi'.crc = v /\ pi'.image = pi.image
  BY <1>a, <1>1 DEF PiSends, PiType
<1>3. pi.image = <<>>
  BY <1>a DEF Typed, Sound, InLoader
<1>4. 4 \in 0 .. Len(toPi) /\ 4 \in 1 .. Len(toPi) /\ 1 \in 1 .. Len(toPi)
  BY <1>a, <1>1
<1>5. v \in 0 .. Width - 1
  <2>1. toPi[4] \in WordType
    BY <1>1, <1>4
  <2> QED
    BY <2>1, Bounds DEF WordType
<1>6. /\ e \in Seq(Byte) /\ Len(e) = 8
      /\ \A k \in 1 .. 4 : /\ e[k].op = "GET_CODE" /\ e[k].i = k
                           /\ e[4 + k].op = "crc" /\ e[4 + k].v = v
  <2>1. 0 \in 0 .. Width - 1 /\ "GET_CODE" \in HostOps /\ "crc" \in HostOps
    BY Bounds DEF HostOps
  <2>2. /\ Word("GET_CODE", 0) \in Seq(Byte) /\ Word("crc", v) \in Seq(Byte)
        /\ Len(Word("GET_CODE", 0)) = 4 /\ Len(Word("crc", v)) = 4
        /\ \A k \in 1 .. 4 : /\ Word("GET_CODE", 0)[k].op = "GET_CODE"
                             /\ Word("GET_CODE", 0)[k].i = k
                             /\ Word("crc", v)[k].op = "crc" /\ Word("crc", v)[k].v = v
    <3>1. Word("GET_CODE", 0) \in Seq(Byte) /\ Word("crc", v) \in Seq(Byte)
      BY <1>5, <2>1, WordBytes
    <3>2. /\ Len(Word("GET_CODE", 0)) = 4
          /\ \A k \in 1 .. 4 : /\ Word("GET_CODE", 0)[k].op = "GET_CODE"
                               /\ Word("GET_CODE", 0)[k].i = k
      BY <2>1, WordIn
    <3>3. /\ Len(Word("crc", v)) = 4
          /\ \A k \in 1 .. 4 : Word("crc", v)[k].op = "crc" /\ Word("crc", v)[k].v = v
      <4>1. \A x \in 0 .. Width - 1 :
              /\ Len(Word("crc", x)) = 4
              /\ \A k \in 1 .. 4 : Word("crc", x)[k].op = "crc" /\ Word("crc", x)[k].v = x
        BY DEF Word
      <4> QED
        BY <1>5, <4>1
    <3> QED
      BY <3>1, <3>2, <3>3
  <2> DEFINE c == Word("GET_CODE", 0)
             d == Word("crc", v)
  <2>3. c \in Seq(Byte) /\ d \in Seq(Byte) /\ Len(c) = 4 /\ Len(d) = 4
    BY <2>2
  <2>4. \A k \in 1 .. 4 : /\ c[k].op = "GET_CODE" /\ c[k].i = k
                          /\ d[k].op = "crc" /\ d[k].v = v
    BY <2>2
  <2>5. e = c \o d
    OBVIOUS
  <2> HIDE DEF c, d, e
  <2>6. /\ c \o d \in Seq(Byte) /\ Len(c \o d) = 8
        /\ \A k \in 1 .. 4 : (c \o d)[k] = c[k] /\ (c \o d)[4 + k] = d[k]
    BY <2>3, WordsApart
  <2>7. /\ e \in Seq(Byte) /\ Len(e) = 8
        /\ \A k \in 1 .. 4 : e[k] = c[k] /\ e[4 + k] = d[k]
    BY <2>5, <2>6
  <2> QED
    BY <2>4, <2>7
<1> HIDE DEF e
<1>7. EchoWhole(e)
  <2> SUFFICES ASSUME NEW j \in 1 .. Len(e), e[j].op = "GET_CODE", e[j].i = 1
               PROVE  j + 7 <= Len(e)
    BY DEF EchoWhole
  <2>1. CASE j \in 1 .. 4
    BY <1>6, <2>1
  <2>2. CASE j \notin 1 .. 4
    <3>1. j - 4 \in 1 .. 4 /\ 4 + (j - 4) = j
      BY <1>6, <2>2
    <3> QED
      BY <1>6, <3>1
  <2> QED
    BY <2>1, <2>2
<1>8. \A j \in 1 .. Len(e) : Echoes(e, j, b) => v = b
  <2> SUFFICES ASSUME NEW j \in 1 .. Len(e), Echoes(e, j, b) PROVE v = b
    OBVIOUS
  <2>1. j + 7 <= Len(e) /\ e[j + 4].v = b
    BY DEF Echoes
  <2>2. j = 1
    BY <1>6, <2>1
  <2> QED
    BY <1>6, <2>1, <2>2
<1>9. /\ EchoWhole(toHost')
      /\ \A j \in 1 .. Len(toHost') : Echoes(toHost', j, b) =>
           v = b \/ \E i \in 1 .. Len(toHost) : Echoes(toHost, i, b)
  <2>1. CASE host.pc \in Stopped
    <3>1. toHost' = <<>> /\ Len(toHost') = 0
      BY <1>2, <2>1 DEF ToHost
    <3> QED
      BY <3>1 DEF EchoWhole
  <2>2. CASE host.pc \notin Stopped
    <3>1. toHost' = toHost \o e
      BY <1>2, <2>2 DEF ToHost
    <3>2. /\ EchoWhole(toHost \o e)
          /\ \A j \in 1 .. Len(toHost \o e) : Echoes(toHost \o e, j, b) =>
               \/ j \in 1 .. Len(toHost) /\ Echoes(toHost, j, b)
               \/ j - Len(toHost) \in 1 .. Len(e) /\ Echoes(e, j - Len(toHost), b)
      BY <1>1, <1>6, <1>7, HostLineMore DEF Sessions
    <3> QED
      BY <1>8, <3>1, <3>2
  <2> QED
    BY <2>1, <2>2
<1>10. /\ InOrder(toPi') /\ (NoInfo(toPi) => NoInfo(toPi'))
       /\ \A k \in 1 .. Len(toPi') : Announces(toPi', k, b) =>
            /\ k + 4 \in 1 .. Len(toPi) /\ Announces(toPi, k + 4, b)
            /\ k + 2 \in 1 .. Len(toPi') /\ toPi'[k + 2] = toPi[k + 4 + 2]
  BY <1>a, <1>1, <1>4, PiLineRest DEF Sessions
<1>11. Len(toPi') = Len(toPi) - 4
  BY <1>a, <1>1, <1>4, Shifted
<1>12. OwnLast'
  <2> SUFFICES ASSUME NEW k \in 1 .. Len(toPi'), Announces(toPi', k, b)
               PROVE  /\ host.pc \in {"drain", "dead"} /\ k + 3 = Len(toPi')
                      /\ faults.flips = 0 => toPi'[k + 2].v = Size[b]
    BY <1>2 DEF OwnLast, Announces
  <2>1. /\ k + 4 \in 1 .. Len(toPi) /\ Announces(toPi, k + 4, b)
        /\ toPi'[k + 2] = toPi[k + 4 + 2]
    BY <1>10
  <2>2. /\ host.pc \in {"drain", "dead"} /\ k + 4 + 3 = Len(toPi)
        /\ faults.flips = 0 => toPi[k + 4 + 2].v = Size[b]
    BY <2>1 DEF Sessions, OwnLast
  <2>3. k + 3 = Len(toPi')
    BY <1>1, <1>11, <2>2
  <2> QED
    BY <2>1, <2>2, <2>3
<1>13. ~ NoInfo(toPi)
  BY <1>a, <1>1, <1>4 DEF NoInfo, Next32
<1>14. ASSUME host.pc \notin Stopped, Begun' PROVE v = b
  <2>1. ~ Begun
    BY <1>13, <1>14 DEF Sessions, Confirmed
  <2>2. Accepts(pi', b) => v = b
    BY <1>2 DEF Accepts
  <2> QED
    BY <1>2, <1>9, <1>14, <2>1, <2>2 DEF Begun, Accepts
<1>15. ASSUME host.pc \notin Stopped, v = b PROVE Confirmed'
  <2>1. Announces(toPi, 1, b)
    BY <1>a, <1>1, <1>15, OwnTaken DEF Sessions
  <2>2. host.pc = "drain" /\ 1 + 3 = Len(toPi)
    BY <1>4, <1>15, <2>1 DEF Sessions, OwnLast, Stopped
  <2>3. Len(toPi') = 0
    <3>1. Len(toPi) = 4
      BY <2>2
    <3> QED
      BY <1>11, <3>1
  <2>4. NoInfo(toPi')
    BY <2>3 DEF NoInfo
  <2> QED
    BY <1>2, <1>3, <1>15, <2>2, <2>4 DEF Confirmed
<1> QED
  BY <1>2, <1>9, <1>10, <1>12, <1>14, <1>15 DEF Sessions

(* The Pi starts the image it was sent.                                     *)
LEMMA Sums ==
  ASSUME NEW mem, crc32(mem) \in Images
  PROVE  mem = Code(crc32(mem))
<1>1. 0 \notin Images
  BY BootLoaderAssumption
<1>2. \E p \in Images : mem = Code(p)
  BY <1>1 DEF crc32
<1> QED
  BY <1>2 DEF crc32

LEMMA ImageTaken ==
  ASSUME Sessions, LineOK, PiOK, Typed, TakesImage
  PROVE  Sessions'
<1> DEFINE b == host.image
<1>a. /\ pi.pc = "copy" /\ crc32(pi.mem) = pi.crc
      /\ PiSends(boot_putk \o Word("BOOT_SUCCESS", 0), [pi EXCEPT !.pc = "ready", !.image = pi.mem])
      /\ UNCHANGED toPi
  BY DEF TakesImage
<1>1. /\ host \in HostType /\ b \in Images /\ toPi \in Seq(WordType) /\ toHost \in Seq(Byte)
      /\ pi \in PiType
  BY DEF LineOK, PiOK, Typed, HostType
<1> DEFINE p == [pi EXCEPT !.pc = "ready", !.image = pi.mem]
           q == [pi EXCEPT !.pc = "ready"]
<1>2. /\ UNCHANGED <<host, faults, toPi>> /\ pi' = p
      /\ toHost' = ToHost(boot_putk \o Word("BOOT_SUCCESS", 0))
  BY <1>a DEF PiSends
<1>3. p.pc = "ready" /\ p.image = pi.mem
  BY <1>1 DEF PiType
<1>4. boot_putk \o Word("BOOT_SUCCESS", 0) \in Seq(Uncoded)
  BY SaidUncoded
<1> DEFINE e == boot_putk \o Word("BOOT_SUCCESS", 0)
<1> HIDE DEF e, p
<1>5. /\ EchoWhole(toHost')
      /\ \A j \in 1 .. Len(toHost') : Echoes(toHost', j, b) =>
           \E i \in 1 .. Len(toHost) : Echoes(toHost, i, b)
  <2>1. toHost' = ToHost(e) /\ e \in Seq(Uncoded)
    BY <1>2, <1>4 DEF e
  <2> QED
    BY <1>1, <2>1, SaysSilently DEF Sessions
<1>6. OwnLast'
  BY <1>2 DEF Sessions, OwnLast, Announces
<1>7. Begun' => Begun
  BY <1>2, <1>3, <1>5 DEF Begun, Accepts
<1>8. ASSUME Confirmed PROVE Confirmed'
  <2>1. pi.crc = b /\ pi.pc = "copy" /\ crc32(pi.mem) = b
    BY <1>a, <1>8 DEF Confirmed
  <2>2. pi.mem = Code(b)
    BY <1>1, <2>1, Sums
  <2> QED
    BY <1>2, <1>3, <1>8, <2>2 DEF Confirmed
<1> QED
  BY <1>2, <1>5, <1>6, <1>7, <1>8 DEF Sessions

LEMMA PiMoves ==
  ASSUME LineOK, PiOK, Typed, PiStep \/ PiRepeats
  PROVE  TakesInfo \/ TakesImage \/ GoesOn
<1>0. /\ toPi \in Seq(WordType) /\ toHost \in Seq(Byte) /\ Len(toPi) \in Nat /\ pi \in PiType
  BY DEF PiOK, Typed
<1> DEFINE Rest == \/ toPi' = toPi
                   \/ toPi # <<>> /\ toPi' = Tail(toPi)
                   \/ \E n \in 0 .. Len(toPi) : toPi' = Drop(toPi, n)
           Sent == toHost' = toHost \/ \E s \in Seq(Uncoded) : toHost' = ToHost(s)
           To(next) == pi' = [pi EXCEPT !.pc = next]
           Goes == /\ pi'.pc \in {"code", "copy"} => pi.pc \in {"code", "copy"} /\ pi'.crc = pi.crc
                   /\ pi'.image # <<>> => pi'.image = pi.image
<1>1. ASSUME UNCHANGED <<host, faults>>, Rest, Sent, Goes PROVE GoesOn
  <2>1. \E n \in 0 .. Len(toPi) : toPi' = Drop(toPi, n)
    BY <1>0, <1>1, WholeLine, TailDrops
  <2> QED
    BY <1>1, <2>1 DEF GoesOn
<1>2. /\ UNCHANGED toPi => Rest
      /\ toPi # <<>> /\ toPi' = Tail(toPi) => Rest
      /\ \A n \in 0 .. Len(toPi) : toPi' = Drop(toPi, n) => Rest
      /\ UNCHANGED toHost => Sent
      /\ \A s \in Seq(Uncoded) : toHost' = ToHost(s) => Sent
  OBVIOUS
<1>3. /\ pi' = Rebooting => Goes
      /\ \A next : To(next) /\ next \notin {"code", "copy"} => Goes
  <2>1. pi' = Rebooting => pi'.pc = "down" /\ pi'.image = <<>>
    BY DEF Rebooting
  <2>2. ASSUME NEW next, To(next) PROVE pi'.pc = next /\ pi'.image = pi.image
    BY <1>0, <2>2 DEF PiType
  <2> QED
    BY <2>1, <2>2
<1> HIDE DEF Rest, Sent, Goes
<1>4. <<>> \in Seq(Uncoded)
  BY EmptySeq
<1>5. CASE (HasData \/ wait_for_data) /\ Keep
  <2>1. /\ UNCHANGED <<host, faults, toPi>> /\ (To("info") \/ To("wait"))
        /\ toHost' = toHost \/ toHost' = ToHost(Word("GET_PROG_INFO", 0))
    BY <1>5 DEF HasData, wait_for_data, PiSends
  <2>2. Word("GET_PROG_INFO", 0) \in Seq(Uncoded)
    BY UncodedWords DEF HostOps
  <2>3. Sent
    BY <1>2, <2>1, <2>2
  <2>4. Goes
    BY <1>3, <2>1
  <2> QED
    BY <1>1, <1>2, <2>1, <2>3, <2>4
<1>6. CASE ProgInfo /\ Keep
  <2>1. Len(toPi) >= 4 /\ pi.pc = "info" /\ toPi' = Drop(toPi, 4) /\ Next32("PUT_PROG_INFO")
    BY <1>6 DEF ProgInfo, PiAt
  <2>2. CASE Collides(toPi[2].v, toPi[3].v)
    <3>1. /\ toHost' = ToHost(boot_putk \o Word("BOOT_ERROR", 0)) /\ pi' = Rebooting
          /\ UNCHANGED <<host, faults>>
      BY <1>6, <2>2 DEF ProgInfo, boot_err, PiSends
    <3>2. 4 \in 0 .. Len(toPi)
      BY <1>0, <2>1
    <3> QED
      BY <1>1, <1>2, <1>3, <2>1, <3>1, <3>2, SaidUncoded
  <2>3. CASE ~ Collides(toPi[2].v, toPi[3].v)
    <3>1. PiSends(Word("GET_CODE", 0) \o Word("crc", toPi[4].v),
                  [pi EXCEPT !.pc = "code", !.nbytes = toPi[3].v, !.crc = toPi[4].v])
      BY <1>6, <2>3 DEF ProgInfo
    <3> QED
      BY <2>1, <2>3, <3>1 DEF TakesInfo
  <2> QED
    BY <2>2, <2>3
<1>7. CASE PutCode /\ Keep
  <2>1. /\ pi.pc = "code" /\ To("copy") /\ UNCHANGED <<host, faults, toHost>>
        /\ toPi # <<>> /\ toPi' = Tail(toPi)
    BY <1>7 DEF PutCode, PiAt, Next32
  <2>2. pi'.crc = pi.crc /\ pi'.image = pi.image
    BY <1>0, <2>1 DEF PiType
  <2>3. Goes
    BY <2>1, <2>2 DEF Goes
  <2> QED
    BY <1>1, <1>2, <2>1, <2>3
<1>8. CASE (WrongOp /\ Keep) \/ ServerWrongOp \/ Exit
  <2>1. /\ toPi # <<>> /\ toPi' = Tail(toPi) /\ UNCHANGED <<host, faults>> /\ pi' = Rebooting
    BY <1>8 DEF WrongOp, ServerWrongOp, Exit, PiReads, Other32, Next32, boot_err, PiSends
  <2>2. toHost' = ToHost(boot_putk \o Word("BOOT_ERROR", 0)) \/ toHost' = ToHost(Junk(8))
    BY <1>8 DEF WrongOp, ServerWrongOp, Exit, PiReads, boot_err, PiSends
  <2>3. Sent
    BY <1>2, <2>2, SaidUncoded, UncodedWords
  <2> QED
    BY <1>1, <1>2, <1>3, <2>1, <2>3
<1>9. CASE (Copy /\ Keep) \/ LoadJob
  <2>1. CopyWords /\ UNCHANGED <<host, faults, toHost>>
    BY <1>9 DEF Copy, LoadJob, CopyWords
  <2>2. pi'.pc = pi.pc /\ pi'.crc = pi.crc /\ pi'.image = pi.image
    BY <1>0, <2>1 DEF CopyWords, PiType
  <2>3. \E n \in 0 .. Len(toPi) : toPi' = Drop(toPi, n)
    BY <1>0, <2>1, Copied
  <2>4. Goes
    BY <2>2 DEF Goes
  <2> QED
    BY <1>1, <1>2, <2>1, <2>3, <2>4
<1>10. CASE CopyDone /\ Keep
  <2>1. UNCHANGED toPi /\ pi.pc = "copy"
    BY <1>10 DEF CopyDone, PiAt
  <2>2. CASE crc32(pi.mem) # pi.crc
    <3>1. /\ toHost' = ToHost(boot_putk \o Word("BOOT_ERROR", 0)) /\ pi' = Rebooting
          /\ UNCHANGED <<host, faults>>
      BY <1>10, <2>2 DEF CopyDone, boot_err, PiSends
    <3> QED
      BY <1>1, <1>2, <1>3, <2>1, <3>1, SaidUncoded
  <2>3. CASE crc32(pi.mem) = pi.crc
    <3>1. PiSends(boot_putk \o Word("BOOT_SUCCESS", 0),
                  [pi EXCEPT !.pc = "ready", !.image = pi.mem])
      BY <1>10, <2>3 DEF CopyDone
    <3> QED
      BY <2>1, <2>3, <3>1 DEF TakesImage
  <2> QED
    BY <2>2, <2>3
<1>11. CASE Up /\ Keep
  <2>1. /\ UNCHANGED <<host, faults, toHost>> /\ To("ask")
        /\ \E n \in 0 .. Len(toPi) : toPi' = Drop(toPi, n)
    BY <1>11 DEF Up
  <2>2. Goes
    <3>1. pi'.pc = "ask" /\ pi'.image = pi.image
      BY <1>0, <2>1 DEF PiType
    <3> QED
      BY <3>1 DEF Goes
  <2> QED
    BY <1>1, <1>2, <2>1, <2>2
<1>12. CASE wait_for_op \/ HasOp
  <2>1. /\ UNCHANGED <<host, faults, toPi>> /\ (To("ready_wait") \/ To("unix"))
        /\ toHost' = toHost \/ toHost' = ToHost(Word("PI_READY", 0))
    BY <1>12 DEF wait_for_op, HasOp, PiSends
  <2>2. Word("PI_READY", 0) \in Seq(Uncoded)
    BY UncodedWords DEF HostOps
  <2>3. Sent
    BY <1>2, <2>1, <2>2
  <2>4. Goes
    BY <1>3, <2>1
  <2> QED
    BY <1>1, <1>2, <2>1, <2>3, <2>4
<1>13. CASE UnixReady \/ Run \/ SendCodeOp
  <2>1. /\ toPi # <<>> /\ toPi' = Tail(toPi) /\ UNCHANGED <<host, faults>>
        /\ To("main") \/ To("run") \/ To("load")
        /\ toHost' = ToHost(<<>>) \/ toHost' = ToHost(Word("ACK", 0))
    BY <1>13 DEF UnixReady, Run, SendCodeOp, PiReads, Next32, PiSends
  <2>2. Word("ACK", 0) \in Seq(Uncoded)
    BY UncodedWords DEF HostOps
  <2> QED
    BY <1>1, <1>2, <1>3, <1>4, <2>1, <2>2
<1>14. CASE IgnoreOp
  <2>1. toPi # <<>> /\ toPi' = Tail(toPi) /\ UNCHANGED <<host, faults, toHost, pi>>
    BY <1>14 DEF IgnoreOp, Other32
  <2>2. Goes
    BY <2>1 DEF Goes
  <2> QED
    BY <1>1, <1>2, <2>1, <2>2
<1>15. CASE RunArgs
  <2>1. /\ Len(toPi) >= ArgsLen /\ toPi' = Drop(toPi, ArgsLen) /\ UNCHANGED <<host, faults>>
        /\ toHost' = ToHost(Word("count", toPi[3].v) \o Word("crc", toPi[2].v))
        /\ pi' = [pi EXCEPT !.pc = "send", !.nbytes = toPi[1].v, !.crc = toPi[2].v,
                            !.mem = <<>>]
    BY <1>15 DEF RunArgs, PiSends
  <2>2. Len(toPi) >= 3 /\ ArgsLen = 3 + toPi[3].v
    BY <1>0, <2>1 DEF ArgsLen
  <2>3. toPi[1] \in WordType /\ toPi[2] \in WordType /\ toPi[3] \in WordType
    BY <1>0, <2>2
  <2>4. toPi[2].v \in 0 .. Width - 1 /\ toPi[3].v \in 0 .. Width - 1
    BY <2>3, Bounds DEF WordType
  <2>5. ArgsLen \in 0 .. Len(toPi)
    <3> DEFINE a == ArgsLen
               v == toPi[3].v
    <3>1. v \in Nat
      BY <2>4
    <3>2. a = 3 + v /\ Len(toPi) >= a /\ Len(toPi) \in Nat
      BY <1>0, <2>1, <2>2
    <3> HIDE DEF a, v
    <3>3. a \in 0 .. Len(toPi)
      BY <3>1, <3>2
    <3> QED
      BY <3>3 DEF a
  <2>6. pi'.pc = "send" /\ pi'.image = pi.image
    BY <1>0, <2>1 DEF PiType
  <2>7. Word("count", toPi[3].v) \in Seq(Uncoded) /\ Word("crc", toPi[2].v) \in Seq(Uncoded)
    BY <2>4, UncodedWords DEF HostOps
  <2>8. Sent
    BY <1>2, <2>1, <2>7, Put
  <2>9. Goes
    BY <2>6 DEF Goes
  <2> QED
    BY <1>1, <1>2, <2>1, <2>5, <2>8, <2>9
<1>16. CASE JobLoaded \/ Relay
  <2>1. /\ UNCHANGED <<host, faults, toPi>>
        /\ To("relay") \/ To("main") \/ pi' = Rebooting
        /\ \/ toHost' = ToHost(Word("CODE_GOT", 0)) \/ toHost' = ToHost(Junk(8))
           \/ toHost' = ToHost(Word("DONE", 0))
    BY <1>16 DEF JobLoaded, Relay, PiSends
  <2>2. /\ Word("CODE_GOT", 0) \in Seq(Uncoded) /\ Word("DONE", 0) \in Seq(Uncoded)
        /\ Junk(8) \in Seq(Uncoded)
    BY UncodedWords DEF HostOps
  <2> QED
    BY <1>1, <1>2, <1>3, <2>1, <2>2
<1> QED
  BY <1>5, <1>6, <1>7, <1>8, <1>9, <1>10, <1>11, <1>12, <1>13, <1>14, <1>15, <1>16
  DEF PiStep, PiRepeats

LEMMA PiSession ==
  ASSUME Width \div 2 - 1 \notin Images, Sessions, LineOK, PiOK, Typed, PiStep \/ PiRepeats
  PROVE  Sessions'
<1>1. CASE TakesInfo
  BY <1>1, InfoTaken
<1>2. CASE TakesImage
  BY <1>2, ImageTaken
<1>3. CASE GoesOn
  <2>1. host \in HostType /\ toPi \in Seq(WordType) /\ toHost \in Seq(Byte)
    BY DEF LineOK, Typed
  <2> QED
    BY <1>3, <2>1, PiGoesOn DEF GoesOn
<1> QED
  BY <1>1, <1>2, <1>3, PiMoves

(* Messages in a session.                                                   *)
LEMMA Plain ==
  ASSUME NEW t \in Seq(WordType), t # <<>>, IsOp(t[1]),
         \A k \in 1 .. Len(t) : t[k].op \notin {"addr", "nbytes", "PUT_PROG_INFO"},
         toPi \in Seq(WordType), InOrder(toPi), NoInfo(toPi)
  PROVE  InOrder(toPi \o t) /\ NoInfo(toPi \o t)
<1>1. InOrder(t) /\ NoInfo(t)
  BY DEF InOrder, NoInfo
<1> QED
  BY <1>1, PiLineMore, NoInfoMore

LEMMA PlainOp ==
  ASSUME NEW op \in Opcodes \ {"PUT_PROG_INFO"},
         toPi \in Seq(WordType), InOrder(toPi), NoInfo(toPi)
  PROVE  InOrder(Append(toPi, Op(op))) /\ NoInfo(Append(toPi, Op(op)))
<1> DEFINE t == <<Op(op)>>
<1>1. Op(op) \in WordType /\ Op(op).op = op /\ IsOp(Op(op))
  BY OpTyped, OpWord
<1>2. /\ t \in Seq(WordType) /\ t # <<>> /\ IsOp(t[1])
      /\ \A k \in 1 .. Len(t) : t[k].op = op
  BY <1>1
<1>3. Append(toPi, Op(op)) = toPi \o t
  BY <1>1
<1> HIDE DEF t
<1>4. \A k \in 1 .. Len(t) : t[k].op \notin {"addr", "nbytes", "PUT_PROG_INFO"}
  BY <1>2 DEF Opcodes
<1> QED
  BY <1>2, <1>3, <1>4, Plain

LEMMA PlainCode ==
  ASSUME NEW op \in Opcodes \ {"PUT_PROG_INFO"}, NEW p \in Images,
         toPi \in Seq(WordType), InOrder(toPi), NoInfo(toPi)
  PROVE  /\ InOrder((toPi \o <<Op(op)>>) \o CodeItems(p))
         /\ NoInfo((toPi \o <<Op(op)>>) \o CodeItems(p))
<1> DEFINE a == <<Op(op)>>
           c == CodeItems(p)
           t == a \o c
<1>1. Op(op) \in WordType /\ Op(op).op = op /\ IsOp(Op(op))
  BY OpTyped, OpWord
<1>2. a \in Seq(WordType) /\ Len(a) = 1 /\ a[1] = Op(op)
  BY <1>1
<1>3. /\ c \in Seq(WordType) /\ Len(c) \in Nat
      /\ \A k \in 1 .. Len(c) : c[k].op = "code"
  BY CodeTyped, CodeWords
<1> HIDE DEF a, c
<1>4. /\ t \in Seq(WordType) /\ Len(t) = 1 + Len(c)
      /\ \A k \in 1 .. 1 : t[k] = a[k]
      /\ \A k \in 1 .. Len(c) : t[1 + k] = c[k]
  <2>1. a \in Seq(WordType) /\ c \in Seq(WordType) /\ Len(a) = 1
    BY <1>2, <1>3
  <2>2. t \in Seq(WordType)
    BY <2>1, Put
  <2>3. /\ Len(t) = Len(a) + Len(c)
        /\ \A k \in 1 .. Len(a) : t[k] = a[k]
        /\ \A k \in 1 .. Len(c) : t[Len(a) + k] = c[k]
    BY <2>1, WordElements
  <2> HIDE DEF t
  <2> QED
    BY <2>1, <2>2, <2>3
<1> HIDE DEF t
<1>5. t # <<>> /\ t[1] = Op(op)
  BY <1>2, <1>3, <1>4
<1>6. ASSUME NEW k \in 1 .. Len(t)
      PROVE  t[k].op \notin {"addr", "nbytes", "PUT_PROG_INFO"}
  <2>1. CASE k = 1
    BY <1>1, <1>5, <2>1 DEF Opcodes
  <2>2. CASE k # 1
    <3>1. k - 1 \in 1 .. Len(c) /\ 1 + (k - 1) = k
      BY <1>3, <1>4, <2>2
    <3>2. t[k] = c[k - 1]
      BY <1>4, <3>1
    <3> QED
      BY <1>3, <3>1, <3>2
  <2> QED
    BY <2>1, <2>2
<1>7. InOrder(toPi \o t) /\ NoInfo(toPi \o t)
  BY <1>1, <1>4, <1>5, <1>6, Plain
<1>8. (toPi \o a) \o c = toPi \o t
  BY <1>2, <1>3, Regroup DEF t
<1> QED
  BY <1>7, <1>8 DEF a, c

LEMMA PlainRun ==
  ASSUME NEW job \in Jobs, NEW n \in Clients,
         toPi \in Seq(WordType), InOrder(toPi), NoInfo(toPi)
  PROVE  LET u == toPi \o <<Op("RUN"), Item("nbytes", Size[job]), Item("crc", job),
                            Item("count", n)>> \o [k \in 1 .. n |-> Item("id", k)]
         IN  InOrder(u) /\ NoInfo(u)
<1> DEFINE a == <<Op("RUN"), Item("nbytes", Size[job]), Item("crc", job), Item("count", n)>>
           c == [k \in 1 .. n |-> Item("id", k)]
           t == a \o c
<1>1. job \in Images /\ n \in 1 .. Width - 1 /\ Width \in Nat /\ n \in Nat
  BY ShellAssumption, Bounds
<1>2. /\ Op("RUN") \in WordType /\ Item("nbytes", Size[job]) \in WordType
      /\ Item("crc", job) \in WordType /\ Item("count", n) \in WordType
      /\ IsOp(Op("RUN"))
  BY <1>1, OpTyped, OpWord, ItemTyped, Bounds DEF Opcodes, Kinds
<1>3. /\ a \in Seq(WordType) /\ Len(a) = 4
      /\ a[1] = Op("RUN") /\ a[1].op = "RUN" /\ a[2].op = "nbytes" /\ a[3].op = "crc"
      /\ a[4].op = "count"
  BY <1>2 DEF Op, Item
<1>4. /\ c \in Seq(WordType) /\ Len(c) = n
      /\ \A k \in 1 .. n : c[k].op = "id"
  <2>1. \A k \in 1 .. n : k \in 1 .. Width - 1
    BY <1>1
  <2>2. \A k \in 1 .. n : Item("id", k) \in WordType /\ Item("id", k).op = "id"
    BY <2>1, ItemTyped DEF Kinds, Item
  <2> QED
    BY <1>1, <2>2
<1> HIDE DEF a, c
<1>5. /\ t \in Seq(WordType) /\ Len(t) = 4 + n
      /\ \A k \in 1 .. 4 : t[k] = a[k]
      /\ \A k \in 1 .. n : t[4 + k] = c[k]
  <2>1. /\ Len(t) = Len(a) + Len(c)
        /\ \A k \in 1 .. Len(a) : t[k] = a[k]
        /\ \A k \in 1 .. Len(c) : t[Len(a) + k] = c[k]
    <3>1. a \in Seq(WordType) /\ c \in Seq(WordType)
      BY <1>3, <1>4
    <3> QED
      BY <3>1, Elements
  <2>2. t \in Seq(WordType)
    BY <1>3, <1>4, Put
  <2> QED
    BY <1>3, <1>4, <2>1, <2>2
<1> HIDE DEF t
<1>6. t # <<>> /\ t[1] = Op("RUN")
  BY <1>1, <1>3, <1>5
<1>7. ASSUME NEW k \in 1 .. Len(t)
      PROVE  t[k].op \notin {"addr", "PUT_PROG_INFO"} /\ (t[k].op = "nbytes" => k = 2)
  <2>1. CASE k \in 1 .. 4
    <3>1. k = 1 \/ k = 2 \/ k = 3 \/ k = 4
      BY <2>1
    <3> QED
      BY <1>3, <1>5, <2>1, <3>1
  <2>2. CASE k \notin 1 .. 4
    <3>1. k - 4 \in 1 .. n /\ 4 + (k - 4) = k
      BY <1>1, <1>5, <2>2
    <3>2. t[k] = c[k - 4]
      BY <1>5, <3>1
    <3> QED
      BY <1>4, <3>1, <3>2
  <2> QED
    BY <2>1, <2>2
<1>8. NoInfo(t)
  BY <1>7 DEF NoInfo
<1>9. InOrder(t)
  <2>1. t[2 + 1].op = "crc"
    BY <1>3, <1>5
  <2> QED
    BY <1>7, <2>1 DEF InOrder
<1>10. InOrder(toPi \o t) /\ NoInfo(toPi \o t)
  BY <1>2, <1>5, <1>6, <1>8, <1>9, PiLineMore, NoInfoMore
<1>11. (toPi \o a) \o c = toPi \o t
  BY <1>3, <1>4, Regroup DEF t
<1> QED
  BY <1>10, <1>11 DEF a, c

(* The host.                                                                *)
LEMMA HostSession ==
  ASSUME Sessions, LineOK, Typed, HostStep
  PROVE  Sessions'
<1> DEFINE b == host.image
<1>0. /\ host \in HostType /\ toPi \in Seq(WordType) /\ toHost \in Seq(Byte)
      /\ Len(toHost) \in Nat /\ b \in Images /\ InOrder(toPi) /\ EchoWhole(toHost)
  BY DEF LineOK, Typed, Sessions, HostType
<1>1. \A n \in Nat : Len(toHost) >= n => n \in 0 .. Len(toHost)
  BY <1>0
<1>2. \A n \in 0 .. Len(toHost) : EchoWhole(Drop(toHost, n))
  BY <1>0, HostLineRest
<1>3. \A n \in {4, 5, 8} : Len(toHost) >= n => EchoWhole(Drop(toHost, n))
  BY <1>1, <1>2
<1>4. \A next : HostTo(next) => host'.pc = next /\ host'.image = host.image
  BY <1>0 DEF HostTo, HostType
<1>5. \A op : Starts(op) => Len(toHost) >= 4
  BY DEF Starts
<1>6. ASSUME Die PROVE host'.pc = "dead" /\ host'.image = host.image /\ toHost' = <<>>
                       /\ UNCHANGED <<pi, toPi, faults>>
  BY <1>4, <1>6 DEF Die
<1>7. ASSUME Die PROVE Sessions'
  <2>1. EchoWhole(toHost')
    BY <1>6, <1>7 DEF EchoWhole
  <2> QED
    BY <1>6, <1>7, <2>1, SessionOver DEF Stopped
<1>8. ASSUME host.pc \in {"success"} \cup Booted PROVE Confirmed
  BY <1>8 DEF Sessions, Begun, Stopped, Booted
<1>9. ASSUME Confirmed, UNCHANGED <<pi, toPi>>, Len(toHost) >= 4, toHost' = Drop(toHost, 4),
             NEW next, next # "get_info", HostTo(next)
      PROVE  Sessions'
  <2>1. EchoWhole(toHost') /\ NoInfo(toPi') /\ InOrder(toPi')
    BY <1>0, <1>3, <1>9 DEF Confirmed
  <2> QED
    BY <1>4, <1>9, <2>1, InSession
<1>10. CASE (get_op_string \/ Discard \/ Drain) /\ Keep
  <2>1. 8 + TextLen \in Nat
    BY BootLoaderAssumption
  <2>2. /\ UNCHANGED <<host, pi, toPi, faults>>
        /\ \E n \in Nat : Len(toHost) >= n /\ toHost' = Drop(toHost, n)
    BY <1>10, <2>1 DEF get_op_string, Discard, Drain
  <2> QED
    BY <1>0, <1>1, <2>2, HostSkips
<1>11. CASE SyncDiscard
  <2>1. /\ UNCHANGED <<host, pi, toPi, faults>>
        /\ 5 \in 0 .. Len(toHost) /\ toHost' = Drop(toHost, 5)
    BY <1>1, <1>11 DEF SyncDiscard
  <2> QED
    BY <1>0, <2>1, HostSkips
<1>12. CASE ReplyInfo /\ Keep
  <2>1. /\ host.pc = "get_info" /\ host'.pc = "drain" /\ host'.image = b
        /\ 4 \in 0 .. Len(toHost) /\ toHost' = Drop(toHost, 4) /\ UNCHANGED <<pi, faults>>
        /\ toPi' = toPi \o <<Op("PUT_PROG_INFO"), Item("addr", ARMBASE),
                             Item("nbytes", Size[b]), Item("crc", b)>>
    BY <1>1, <1>4, <1>5, <1>12 DEF ReplyInfo, HostAt
  <2>2. ~ Begun
    BY <2>1 DEF Sessions, Confirmed, Stopped
  <2>3. EchoWhole(toHost')
    BY <1>2, <2>1
  <2>4. \A j \in 1 .. Len(toHost') : ~ Echoes(toHost', j, b)
    <3>1. \A j \in 1 .. Len(toHost') : Echoes(toHost', j, b) =>
            j + 4 \in 1 .. Len(toHost) /\ Echoes(toHost, j + 4, b)
      BY <1>0, <2>1, HostLineRest
    <3> QED
      BY <2>2, <3>1 DEF Begun
  <2>5. ~ Begun'
    BY <2>1, <2>2, <2>4 DEF Begun, Accepts, Booted
  <2>6. \A k \in 1 .. Len(toPi) : ~ Announces(toPi, k, b)
    BY <2>1 DEF Sessions, OwnLast
  <2>7. /\ InOrder(toPi')
        /\ \A k \in 1 .. Len(toPi') : Announces(toPi', k, b) =>
             \/ k \in 1 .. Len(toPi) /\ Announces(toPi, k, b)
             \/ k + 3 = Len(toPi') /\ toPi'[k + 2].v = Size[b]
    <3>1. LET t == <<Op("PUT_PROG_INFO"), Item("addr", ARMBASE), Item("nbytes", Size[b]),
                     Item("crc", b)>>
              u == toPi \o t
          IN  /\ InOrder(u)
              /\ \A k \in 1 .. Len(u) : Announces(u, k, b) =>
                   \/ k \in 1 .. Len(toPi) /\ Announces(toPi, k, b)
                   \/ k + 3 = Len(u) /\ u[k + 2].v = Size[b]
      BY <1>0, Announcement
    <3> QED
      BY <2>1, <3>1
  <2>8. OwnLast'
    <3> SUFFICES ASSUME NEW k \in 1 .. Len(toPi'), Announces(toPi', k, b)
                 PROVE  /\ host'.pc \in {"drain", "dead"} /\ k + 3 = Len(toPi')
                        /\ faults'.flips = 0 => toPi'[k + 2].v = Size[b]
      BY <2>1 DEF OwnLast
    <3> QED
      BY <2>1, <2>6, <2>7
  <2> QED
    BY <2>3, <2>5, <2>7, <2>8 DEF Sessions
<1>13. CASE SendCode /\ Keep
  <2>1. /\ host.pc = "drain" /\ HostTo("success") /\ Len(toHost) >= 8 /\ toHost' = Drop(toHost, 8)
        /\ UNCHANGED pi /\ Starts("GET_CODE") /\ EchoMatches
        /\ toPi' = toPi \o <<Op("PUT_CODE")>> \o CodeItems(b)
    BY <1>13 DEF SendCode, HostAt
  <2>2. Echoes(toHost, 1, b)
    <3>1. toHost[1].op = "GET_CODE" /\ toHost[1].i = 1
      BY <2>1 DEF Starts
    <3>2. toHost[5].v = b
      BY <2>1 DEF EchoMatches, Word
    <3> QED
      BY <1>0, <2>1, <3>1, <3>2 DEF Echoes
  <2>3. 1 \in 1 .. Len(toHost)
    BY <1>0, <2>1
  <2>4. Confirmed
    BY <2>1, <2>2, <2>3 DEF Sessions, Begun, Stopped
  <2>5. InOrder(toPi') /\ NoInfo(toPi')
    BY <1>0, <2>1, <2>4, PlainCode DEF Confirmed, Opcodes
  <2>6. EchoWhole(toHost')
    BY <1>3, <2>1
  <2> QED
    BY <1>4, <2>1, <2>4, <2>5, <2>6, InSession
<1>14. CASE Success /\ Keep
  <2>1. /\ host.pc = "success" /\ HostTo("sync") /\ Starts("BOOT_SUCCESS")
        /\ toHost' = Drop(toHost, 4) /\ UNCHANGED <<pi, toPi>>
    BY <1>14 DEF Success, HostAt
  <2> QED
    BY <1>5, <1>8, <1>9, <2>1
<1>15. CASE SyncReady
  <2>1. /\ host.pc = "sync" /\ HostTo("ack") /\ Len(toHost) >= 4 /\ UNCHANGED pi
        /\ toHost' = Drop(toHost, 4) /\ toPi' = Append(toPi, Op("UNIX_READY"))
    BY <1>5, <1>15 DEF SyncReady, HostReads, HostAt
  <2>2. Confirmed
    BY <1>8, <2>1 DEF Booted
  <2>3. InOrder(toPi') /\ NoInfo(toPi')
    BY <1>0, <2>1, <2>2, PlainOp DEF Confirmed, Opcodes
  <2> QED
    BY <1>3, <1>4, <2>1, <2>2, <2>3, InSession
<1>16. CASE SyncDrain \/ SyncAck \/ CodeGot
  <2>1. /\ host.pc \in Booted /\ Len(toHost) >= 4 /\ UNCHANGED <<pi, toPi>>
        /\ toHost' = Drop(toHost, 4) /\ \E next : next # "get_info" /\ HostTo(next)
    BY <1>5, <1>16 DEF SyncDrain, SyncAck, CodeGot, HostReads, HostAt, Booted
  <2> QED
    BY <1>8, <1>9, <2>1
<1>17. CASE SendJob
  <2>1. /\ host.pc = "echo" /\ HostTo("got") /\ Len(toHost) >= 8 /\ UNCHANGED pi
        /\ toHost' = Drop(toHost, 8) /\ toPi' = toPi \o <<Op("SEND_CODE")>> \o CodeItems(cmd.job)
    BY <1>17 DEF SendJob, HostAt
  <2>2. Confirmed
    BY <1>8, <2>1 DEF Booted
  <2>3. cmd.job \in Images
    BY <2>1, ShellAssumption DEF LineOK
  <2>4. InOrder(toPi') /\ NoInfo(toPi')
    BY <1>0, <2>1, <2>2, <2>3, PlainCode DEF Confirmed, Opcodes
  <2> QED
    BY <1>3, <1>4, <2>1, <2>2, <2>4, InSession
<1>18. CASE JobDone
  <2>1. /\ host.pc = "done" /\ HostTo("prompt") /\ Len(toHost) >= 4 /\ UNCHANGED <<pi, toPi>>
        /\ toHost' = Drop(toHost, 4)
    BY <1>18 DEF JobDone, HostAt
  <2> QED
    BY <1>8, <1>9, <2>1 DEF Booted
<1>19. CASE (Mismatch \/ BootTimeout(PiWaits)) /\ Keep
  BY <1>7, <1>19 DEF Mismatch, BootTimeout
<1>20. CASE ShellMismatch \/ ShellTimeout(PiWaits)
  BY <1>7, <1>20 DEF ShellMismatch, ShellTimeout
<1> QED
  BY <1>10, <1>11, <1>12, <1>13, <1>14, <1>15, <1>16, <1>17, <1>18, <1>19, <1>20
  DEF HostStep, simple_boot

(* The user.                                                                *)
LEMMA UserSession ==
  ASSUME Sessions, LineOK, Typed, UserStep
  PROVE  Sessions'
<1>0. /\ host \in HostType /\ host.pc = "prompt" /\ toPi \in Seq(WordType)
      /\ UNCHANGED <<pi, toHost, faults>> /\ EchoWhole(toHost')
  BY DEF LineOK, Typed, UserStep, ExitCommand, OtherCommand, RunCommand, Command, HostAt, Sessions
<1>1. Confirmed /\ InOrder(toPi) /\ NoInfo(toPi)
  BY <1>0 DEF Sessions, Begun, Stopped, Booted, Confirmed
<1>2. \A next : HostTo(next) => host'.pc = next /\ host'.image = host.image
  BY <1>0 DEF HostTo, HostType
<1>3. CASE ExitCommand \/ OtherCommand
  <2>1. \E op \in {"EXIT", "LIST", "UPDATE"} : toPi' = Append(toPi, Op(op))
    BY <1>3 DEF ExitCommand, OtherCommand
  <2>2. host'.image = host.image /\ host'.pc \in {"exit", "prompt"}
    BY <1>0, <1>2, <1>3 DEF ExitCommand, OtherCommand
  <2>3. \A op \in {"EXIT", "LIST", "UPDATE"} :
          InOrder(Append(toPi, Op(op))) /\ NoInfo(Append(toPi, Op(op)))
    BY <1>0, <1>1, PlainOp DEF Opcodes
  <2>4. InOrder(toPi') /\ NoInfo(toPi')
    BY <2>1, <2>3
  <2> QED
    BY <1>0, <1>1, <2>2, <2>4, InSession
<1>4. ASSUME NEW job \in Jobs, NEW n \in Clients, RunCommand(job, n) PROVE Sessions'
  <2>1. host'.image = host.image /\ host'.pc = "echo"
    BY <1>2, <1>4 DEF RunCommand
  <2>2. InOrder(toPi') /\ NoInfo(toPi')
    <3>1. LET u == toPi \o <<Op("RUN"), Item("nbytes", Size[job]), Item("crc", job),
                             Item("count", n)>> \o [k \in 1 .. n |-> Item("id", k)]
          IN  InOrder(u) /\ NoInfo(u)
      BY <1>0, <1>1, PlainRun
    <3> QED
      BY <1>4, <3>1 DEF RunCommand
  <2> QED
    BY <1>0, <1>1, <2>1, <2>2, InSession
<1> QED
  BY <1>3, <1>4 DEF UserStep

(* Faults.                                                                  *)
LEMMA ResetSession ==
  ASSUME Sessions, LineOK, Typed, Reset
  PROVE  Sessions'
<1>0. /\ host \in HostType /\ toPi \in Seq(WordType) /\ toHost \in Seq(Byte)
      /\ faults \in FaultType
  BY DEF LineOK, Typed
<1>1. /\ UNCHANGED <<host, toPi>> /\ pi' = Rebooting
      /\ faults' = [faults EXCEPT !.resets = @ + 1]
      /\ \E k \in Cuts : toHost' = ToHost(Junk(k))
  BY DEF Reset
<1>2. \E s \in Seq(Uncoded) : toHost' = ToHost(s)
  <2>1. \A k \in Cuts : k \in Nat
    BY BootLoaderAssumption
  <2> QED
    BY <1>1, <2>1, UncodedWords
<1>3. faults'.flips = faults.flips
  BY <1>0, <1>1 DEF FaultType
<1>4. pi'.pc = "down" /\ pi'.image = <<>>
  BY <1>1 DEF Rebooting
<1>5. 0 \in 0 .. Len(toPi) /\ toPi' = Drop(toPi, 0)
  BY <1>0, <1>1, WholeLine
<1> QED
  BY <1>0, <1>1, <1>2, <1>3, <1>4, <1>5, PiGoesOn

LEMMA RestartSession ==
  ASSUME Sessions, LineOK, Typed, Restart, ~ Stale'
  PROVE  Sessions'
<1>0. host \in HostType /\ toPi \in Seq(WordType)
  BY DEF LineOK, Typed
<1>1. PICK n \in 0 .. Len(toPi) : toPi' = SubSeq(toPi, 1, n)
  BY DEF Restart
<1>2. PICK k \in Cuts : toHost' = Junk(k)
  BY DEF Restart
<1>3. host'.pc = "get_info"
  BY <1>0 DEF Restart, HostType
<1>4. NoCode(toHost')
  <2>1. k \in Nat
    BY BootLoaderAssumption
  <2>2. toHost' \in Seq(Uncoded)
    BY <1>2, <2>1, UncodedWords
  <2> QED
    BY <2>2, UncodedSilent
<1>5. EchoWhole(toHost') /\ \A j \in 1 .. Len(toHost') : ~ Echoes(toHost', j, host'.image)
  BY <1>4, Silent
<1>6. InOrder(toPi')
  BY <1>0, <1>1, PiLineCut DEF Sessions
<1>7. OwnLast'
  BY DEF Stale, OwnLast
<1>8. ~ Begun'
  BY <1>3, <1>5 DEF Stale, Begun, Booted
<1> QED
  BY <1>5, <1>6, <1>7, <1>8 DEF Sessions

LEMMA FlipSession ==
  ASSUME Sessions, LineOK, Typed, Flip, Harmless'
  PROVE  Sessions'
<1>0. /\ toPi \in Seq(WordType) /\ faults \in FaultType /\ host \in HostType
      /\ host.image \in Images
  BY DEF LineOK, Typed, HostType
<1>1. UNCHANGED <<host, pi, toHost>> /\ faults' = [faults EXCEPT !.flips = @ + 1]
  BY DEF Flip
<1>2. faults'.flips # 0
  BY <1>0, <1>1, FaultsRemembered
<1>3. PICK j \in DOMAIN toPi, v \in Garbles :
        toPi[j].op # "addr" /\ toPi' = [toPi EXCEPT ![j] = Garbled(@, v)]
  BY DEF Flip
<1>4. v \notin Images
  BY <1>2 DEF Harmless
<1> DEFINE w == toPi[j]
           g == Garbled(w, v)
<1>5. w \in WordType /\ w.op # "addr"
  BY <1>0, <1>3
<1>6. /\ g.op # "PUT_PROG_INFO" /\ g.op # "addr"
      /\ w.op \in {"nbytes", "crc", "code", "count"} => g.op = w.op /\ g.v = v
      /\ w.op \notin {"nbytes", "crc", "code", "count"} => g.op = "junk" /\ IsOp(g)
  <2>1. CASE w.op \in {"nbytes", "crc", "code", "count"}
    BY <2>1 DEF Garbled, Item
  <2>2. CASE w.op \notin {"nbytes", "crc", "code", "count"}
    <3>1. g = Op("junk")
      BY <2>2 DEF Garbled
    <3> QED
      BY <2>2, <3>1, OpWord DEF Opcodes
  <2> QED
    BY <2>1, <2>2
<1>7. /\ Len(toPi') = Len(toPi) /\ Len(toPi) \in Nat /\ j \in 1 .. Len(toPi) /\ toPi'[j] = g
      /\ \A k \in 1 .. Len(toPi) : k # j => toPi'[k] = toPi[k]
  BY <1>0, <1>3
<1> HIDE DEF g
<1>8. \A k \in 1 .. Len(toPi) :
        /\ toPi'[k].op = "PUT_PROG_INFO" => k # j /\ toPi[k].op = "PUT_PROG_INFO"
        /\ toPi'[k].op \in {"addr", "nbytes"} => toPi[k].op = toPi'[k].op
        /\ toPi[k].op \in {"nbytes", "crc"} => toPi'[k].op = toPi[k].op
        /\ toPi'[k].op = "crc" => toPi[k].op = "crc" /\ (k # j \/ toPi'[k].v = v)
        /\ IsOp(toPi[k]) => IsOp(toPi'[k])
  <2> SUFFICES ASSUME NEW k \in 1 .. Len(toPi)
               PROVE  /\ toPi'[k].op = "PUT_PROG_INFO" => k # j /\ toPi[k].op = "PUT_PROG_INFO"
                      /\ toPi'[k].op \in {"addr", "nbytes"} => toPi[k].op = toPi'[k].op
                      /\ toPi[k].op \in {"nbytes", "crc"} => toPi'[k].op = toPi[k].op
                      /\ toPi'[k].op = "crc" => toPi[k].op = "crc" /\ (k # j \/ toPi'[k].v = v)
                      /\ IsOp(toPi[k]) => IsOp(toPi'[k])
    OBVIOUS
  <2>1. CASE k # j
    BY <1>7, <2>1
  <2>2. CASE k = j
    <3>1. toPi'[k] = g /\ toPi[k] = w
      BY <1>7, <2>2
    <3>2. IsOp(w) => w.op \notin {"nbytes", "crc", "code", "count"}
      BY DEF IsOp
    <3> HIDE DEF w
    <3> QED
      BY <1>6, <3>1, <3>2
  <2> QED
    BY <2>1, <2>2
<1>9. InOrder(toPi')
  <2> SUFFICES ASSUME NEW k \in 1 .. Len(toPi'), k + 1 <= Len(toPi')
               PROVE  /\ toPi'[k].op = "addr" =>
                           toPi'[k + 1].op = "nbytes" \/ IsOp(toPi'[k + 1])
                      /\ toPi'[k].op = "nbytes" =>
                           toPi'[k + 1].op = "crc" \/ IsOp(toPi'[k + 1])
    BY DEF InOrder
  <2>1. k \in 1 .. Len(toPi) /\ k + 1 \in 1 .. Len(toPi) /\ k + 1 <= Len(toPi)
    BY <1>7
  <2>2. /\ toPi[k].op = "addr" => toPi[k + 1].op = "nbytes" \/ IsOp(toPi[k + 1])
        /\ toPi[k].op = "nbytes" => toPi[k + 1].op = "crc" \/ IsOp(toPi[k + 1])
    BY <2>1 DEF Sessions, InOrder
  <2>3. /\ toPi'[k].op \in {"addr", "nbytes"} => toPi[k].op = toPi'[k].op
        /\ toPi[k + 1].op \in {"nbytes", "crc"} => toPi'[k + 1].op = toPi[k + 1].op
        /\ IsOp(toPi[k + 1]) => IsOp(toPi'[k + 1])
    BY <1>8, <2>1
  <2> QED
    BY <2>2, <2>3
<1>10. ASSUME NEW k \in 1 .. Len(toPi'), Announces(toPi', k, host.image)
       PROVE  Announces(toPi, k, host.image)
  <2>1. /\ k + 3 <= Len(toPi') /\ toPi'[k].op = "PUT_PROG_INFO"
        /\ toPi'[k + 3].op = "crc" /\ toPi'[k + 3].v = host.image
    BY <1>10 DEF Announces
  <2>2. k \in 1 .. Len(toPi) /\ k + 3 \in 1 .. Len(toPi)
    BY <1>7, <2>1
  <2>3. toPi[k].op = "PUT_PROG_INFO" /\ toPi[k + 3].op = "crc" /\ k + 3 # j
    BY <1>0, <1>4, <1>8, <2>1, <2>2
  <2>4. toPi[k + 3] = toPi'[k + 3]
    BY <1>7, <2>2, <2>3
  <2> QED
    BY <1>7, <2>1, <2>3, <2>4 DEF Announces
<1>11. OwnLast'
  <2> SUFFICES ASSUME NEW k \in 1 .. Len(toPi'), Announces(toPi', k, host.image)
               PROVE  host.pc \in {"drain", "dead"} /\ k + 3 = Len(toPi')
    BY <1>1, <1>2 DEF OwnLast
  <2> QED
    BY <1>7, <1>10 DEF Sessions, OwnLast
<1>12. NoInfo(toPi) => NoInfo(toPi')
  BY <1>7, <1>8 DEF NoInfo
<1>13. /\ EchoWhole(toHost') /\ (Begun' => Begun) /\ (Confirmed => Confirmed')
       /\ host'.pc = host.pc
  BY <1>1, <1>12 DEF Sessions, Begun, Accepts, Confirmed
<1> QED
  BY <1>9, <1>11, <1>13 DEF Sessions

------------------------------------------------------------------------------
SessionsInv == TrustedInv /\ (Harmless => Sessions)

LEMMA InitSessions == ShellInit => SessionsInv
<1> SUFFICES ASSUME ShellInit PROVE Sessions
  BY InitTrusted DEF SessionsInv
<1>1. host.pc = "get_info" /\ pi.pc = "ask" /\ toPi = <<>> /\ Len(toPi) = 0
  BY DEF ShellInit, Init, Rebooting
<1>2. PICK k \in Cuts : toHost = Junk(k)
  BY DEF ShellInit, Init
<1>3. NoCode(toHost)
  <2>1. k \in Nat
    BY BootLoaderAssumption
  <2>2. toHost \in Seq(Uncoded)
    BY <1>2, <2>1, UncodedWords
  <2> QED
    BY <2>2, UncodedSilent
<1>4. EchoWhole(toHost) /\ \A j \in 1 .. Len(toHost) : ~ Echoes(toHost, j, host.image)
  BY <1>3, Silent
<1>5. InOrder(toPi) /\ OwnLast
  BY <1>1 DEF InOrder, OwnLast
<1>6. ~ Begun
  BY <1>1, <1>4 DEF Begun, Accepts, Booted
<1> QED
  BY <1>4, <1>5, <1>6 DEF Sessions

LEMMA StaysHarmless ==
  ASSUME faults \in FaultType, [ShellNext]_shellVars, Harmless'
  PROVE  Harmless /\ Trusted
<1>1. CASE Flip
  <2>1. faults'.flips # 0
    BY <1>1, FaultsRemembered DEF Flip
  <2> QED
    BY <2>1 DEF Harmless, Trusted
<1>2. CASE Reset \/ Restart
  <2>1. faults'.flips = faults.flips
    BY <1>2 DEF Reset, Restart, FaultType
  <2> QED
    BY <2>1 DEF Harmless, Trusted
<1>3. CASE ~ Reset /\ ~ Restart /\ ~ Flip
  <2>1. UNCHANGED faults
    BY <1>3, FaultSteps
  <2> QED
    BY <2>1 DEF Harmless, Trusted
<1> QED
  BY <1>1, <1>2, <1>3

(* The hypothesis: the checksum of no image is an opcode, as the module     *)
(* says of every word of data.                                              *)
LEMMA NextSessions ==
  ASSUME Width \div 2 - 1 \notin Images
  PROVE  SessionsInv /\ [CleanNext]_shellVars => SessionsInv'
<1> SUFFICES ASSUME SessionsInv, [CleanNext]_shellVars, Harmless' PROVE Sessions'
  <2>1. [CleanNext]_shellVars => [ShellNext]_shellVars
    BY DEF CleanNext
  <2> QED
    BY <2>1, NextTrusted DEF SessionsInv
<1>1. [ShellNext]_shellVars
  BY DEF CleanNext
<1>2. LineOK /\ PiOK /\ faults \in FaultType
  BY DEF SessionsInv, TrustedInv, LoadInv
<1>3. Harmless /\ Trusted
  BY <1>1, <1>2, StaysHarmless
<1>4. Sessions /\ Typed
  BY <1>3 DEF SessionsInv, TrustedInv
<1>5. CASE UNCHANGED shellVars
  <2>1. UNCHANGED <<host, pi, toPi, toHost, faults>>
    BY <1>5 DEF shellVars, vars
  <2>2. OwnLast'
    BY <1>4, <2>1 DEF Sessions, OwnLast
  <2>3. Begun' => Begun
    BY <2>1 DEF Begun
  <2>4. Confirmed => Confirmed'
    BY <2>1 DEF Confirmed
  <2> QED
    BY <1>4, <2>1, <2>2, <2>3, <2>4 DEF Sessions
<1>6. CASE CleanNext
  <2>1. CASE HostStep
    BY <1>2, <1>4, <2>1, HostSession
  <2>2. CASE UserStep
    BY <1>2, <1>4, <2>2, UserSession
  <2>3. CASE PiStep \/ PiRepeats
    BY <1>2, <1>4, <2>3, PiSession
  <2>4. CASE Reset
    BY <1>2, <1>4, <2>4, ResetSession
  <2>5. CASE Restart
    BY <1>2, <1>4, <1>6, <2>5, RestartSession DEF CleanNext
  <2>6. CASE Flip
    BY <1>2, <1>4, <2>6, FlipSession
  <2> QED
    BY <1>6, <2>1, <2>2, <2>3, <2>4, <2>5, <2>6 DEF CleanNext, ShellNext
<1> QED
  BY <1>5, <1>6

(* A Pi that runs a program and a host behind simple_boot agree on which,   *)
(* whatever is reset or damaged and however many hosts were killed, as long *)
(* as no announcement of the same image is left of a killed host: then the  *)
(* checksum behind GET_CODE is the answer to the host's own.  (With one     *)
(* left the Pi may answer that one, and the host takes itself for served    *)
(* while its own announcement stands on the line: a Pi that is reset then   *)
(* loads what is announced there.)                                          *)
THEOREM SessionsAgree ==
  ASSUME Width \div 2 - 1 \notin Images
  PROVE  CleanSpec => [](Harmless => Agreement)
<1>1. SessionsInv => (Harmless => Agreement)
  <2> SUFFICES ASSUME SessionsInv, Harmless PROVE Agreement
    OBVIOUS
  <2>1. TrustedInv /\ Trusted /\ Sessions /\ host \in HostType
    BY DEF SessionsInv, Harmless, Trusted, TrustedInv, LoadInv, LineOK
  <2>2. pi.image = <<>> \/ \E p \in Images : pi.image = Code(p)
    BY <2>1, TrustedTypes
  <2>3. ASSUME pi.image # <<>>, host.pc \notin {"get_info", "drain", "success"} \cup Stopped
        PROVE  pi.image = Code(host.image)
    <3>1. host.pc \in Booted /\ host.pc \notin Stopped
      BY <2>1, <2>3 DEF HostType, HostPcs, Booted, Stopped
    <3>2. Confirmed
      BY <2>1, <3>1 DEF Sessions, Begun
    <3> QED
      BY <2>3, <3>2 DEF Confirmed
  <2> QED
    BY <2>2, <2>3 DEF Agreement
<1>2. CleanSpec => []SessionsInv
  BY InitSessions, NextSessions, PTL DEF CleanSpec
<1> QED
  BY <1>1, <1>2, PTL

------------------------------------------------------------------------------
(* The phases of a session.  With the Pi's answer to its own announcement   *)
(* the host knows what is on both lines, until the Pi is reset; a reset Pi  *)
(* announces nothing but itself, and has sent DONE before or never.         *)

Undone == BytesOf(HostOps \ {"DONE"})

NoDone(s, n) == \A k \in 1 .. Len(s) : k > n => s[k].op # "DONE"

(* PI_READY, any number of times.                                           *)
Requests(s) ==
  /\ s \in Seq(Undone)
  /\ \E n \in Nat :
       /\ Len(s) = 4 * n
       /\ \A k \in 1 .. Len(s), j \in 0 .. n : k - 4 * j \in 1 .. 4 =>
            s[k].op = "PI_READY" /\ s[k].i = k - 4 * j

Echoed == \E j \in 1 .. Len(toHost) : Echoes(toHost, j, host.image)

(* The Pi has answered the announcement, and waits for the code.            *)
Answered ==
  /\ pi.pc = "code" /\ pi.nbytes = Size[host.image] /\ pi.mem = <<>> /\ toPi = <<>>
  /\ \A j \in 1 .. Len(toHost) : Echoes(toHost, j, host.image) =>
       j + 7 = Len(toHost) /\ NoDone(toHost, j)

(* The code is on its way, has been read, or has been copied and started.   *)
Booting ==
  \/ /\ toHost = <<>> /\ pi.nbytes = Size[host.image]
     /\ \/ /\ pi.pc = "code" /\ pi.mem = <<>>
           /\ toPi = <<Op("PUT_CODE")>> \o CodeItems(host.image)
        \/ pi.pc = "copy" /\ pi.mem = <<>> /\ toPi = CodeItems(host.image)
        \/ pi.pc = "copy" /\ pi.mem = Code(host.image) /\ toPi = <<>>
  \/ /\ pi.pc \in {"ready", "ready_wait"} /\ toPi = <<>>
     /\ \E s : /\ Requests(s)
               /\ \/ toHost = boot_putk \o (Word("BOOT_SUCCESS", 0) \o s)
                  \/ toHost = Word("BOOT_SUCCESS", 0) \o s

(* The server asks for the shell.                                           *)
Calling == pi.pc \in {"ready", "ready_wait"} /\ toPi = <<>> /\ Requests(toHost)

(* UNIX_READY is on its way, or has been answered.                          *)
Called ==
  \/ /\ pi.pc \in {"ready", "ready_wait", "unix"} /\ toPi = <<Op("UNIX_READY")>>
     /\ Requests(toHost)
  \/ /\ pi.pc = "main" /\ toPi = <<>>
     /\ \E s : Requests(s) /\ toHost = s \o Word("ACK", 0)

(* No DONE is on the line that the host would take for the end of a command *)
(* it has not given yet; in a command none is before the job was sent.      *)
NoEarlyDone ==
  /\ host.pc = "drain" =>
       \A j \in 1 .. Len(toHost) : Echoes(toHost, j, host.image) => NoDone(toHost, j)
  /\ host.pc \in {"success", "sync", "ack", "prompt", "echo"} => NoDone(toHost, 0)
  /\ host.pc = "got" => NoDone(toHost, 0) \/ (NoDone(toHost, 8) /\ relayed = Code(cmd.job))
  /\ host.pc = "done" => NoDone(toHost, 0) \/ (NoDone(toHost, 4) /\ relayed = Code(cmd.job))

(* The Pi was reset in the session.                                         *)
Lost == faults.resets # 0 /\ pi.pc \in {"down", "ask", "wait", "info"} /\ NoEarlyDone

Phase ==
  \/ host.pc \in Stopped \cup {"get_info"}
  \/ host.pc = "drain" /\ (Echoed => Answered)
  \/ host.pc = "success" /\ Booting
  \/ host.pc = "sync" /\ Calling
  \/ host.pc = "ack" /\ Called
  \/ Serving
  \/ Lost

(* The line to the host.                                                    *)
LEMMA NoDoneRest ==
  ASSUME NEW s \in Seq(Byte), NEW n \in 0 .. Len(s), NEW k \in Nat, NEW j \in Nat,
         NoDone(s, j), j <= k + n
  PROVE  NoDone(Drop(s, n), k)
<1> DEFINE t == Drop(s, n)
<1>1. /\ Len(t) = Len(s) - n /\ Len(s) \in Nat /\ n \in Nat
      /\ \A i \in 1 .. Len(s) - n : t[i] = s[i + n]
  BY Shifted
<1> HIDE DEF t
<1>2. \A i \in 1 .. Len(t) : i + n \in 1 .. Len(s) /\ (i > k => i + n > j) /\ t[i] = s[i + n]
  BY <1>1
<1>3. NoDone(t, k)
  BY <1>2 DEF NoDone
<1> QED
  BY <1>3 DEF t

LEMMA UndoneSilent ==
  ASSUME NEW s \in Seq(Undone)
  PROVE  /\ s \in Seq(Byte) /\ \A k \in Nat : NoDone(s, k)
         /\ \A k \in 1 .. Len(s) : s[k].op # "DONE"
<1>1. \A b \in Undone : b.op # "DONE" /\ b \in Byte
  BY DEF Undone, BytesOf, Byte
<1>2. \A k \in 1 .. Len(s) : s[k] \in Undone
  OBVIOUS
<1>3. \A k \in 1 .. Len(s) : s[k].op # "DONE"
  BY <1>1, <1>2
<1>4. \A k \in Nat : NoDone(s, k)
  BY <1>3 DEF NoDone
<1>5. s \in Seq(Byte)
  BY <1>1
<1> QED
  BY <1>3, <1>4, <1>5

LEMMA NoDoneMore ==
  ASSUME NEW s \in Seq(Byte), NEW t \in Seq(Undone), NEW k \in Nat, NoDone(s, k)
  PROVE  NoDone(s \o t, k)
<1> DEFINE u == s \o t
<1>1. t \in Seq(Byte) /\ \A i \in 1 .. Len(t) : t[i].op # "DONE"
  BY UndoneSilent
<1>2. /\ Len(u) = Len(s) + Len(t) /\ Len(s) \in Nat /\ Len(t) \in Nat
      /\ \A i \in 1 .. Len(s) : u[i] = s[i]
      /\ \A i \in 1 .. Len(t) : u[Len(s) + i] = t[i]
  BY <1>1, Elements
<1> HIDE DEF u
<1>3. \A i \in 1 .. Len(u) : \/ i \in 1 .. Len(s)
                             \/ i - Len(s) \in 1 .. Len(t) /\ Len(s) + (i - Len(s)) = i
  BY <1>2
<1>4. ASSUME NEW j \in 1 .. Len(u), j > k PROVE u[j].op # "DONE"
  <2>1. CASE j \in 1 .. Len(s)
    BY <1>2, <1>4, <2>1 DEF NoDone
  <2>2. CASE j \notin 1 .. Len(s)
    <3> DEFINE i == j - Len(s)
    <3>1. i \in 1 .. Len(t) /\ Len(s) + i = j
      BY <1>3, <2>2
    <3> HIDE DEF i
    <3>2. u[j] = t[i]
      BY <1>2, <3>1
    <3> QED
      BY <1>1, <3>1, <3>2
  <2> QED
    BY <2>1, <2>2
<1>5. NoDone(u, k)
  BY <1>4 DEF NoDone
<1> QED
  BY <1>5 DEF u

LEMMA UndoneWords ==
  /\ \A n \in Nat : Junk(n) \in Seq(Undone)
  /\ \A op \in HostOps \ {"DONE"}, v \in 0 .. Width - 1 : Word(op, v) \in Seq(Undone)
  /\ 0 \in 0 .. Width - 1
<1>1. "junk" \in HostOps \ {"DONE"}
  BY DEF HostOps
<1>2. \A n \in Nat : Junk(n) \in Seq(Undone)
  BY <1>1, JunkIn DEF Undone
<1>3. ASSUME NEW op \in HostOps \ {"DONE"}, NEW v \in 0 .. Width - 1
      PROVE  Word(op, v) \in Seq(Undone)
  BY WordIn DEF Undone
<1> QED
  BY <1>2, <1>3, Bounds

LEMMA SaidUndone ==
  /\ boot_putk \in Seq(Undone)
  /\ boot_putk \o Word("BOOT_ERROR", 0) \in Seq(Undone)
<1>1. /\ Word("PRINT_STRING", 0) \in Seq(Undone) /\ Word("strlen", 0) \in Seq(Undone)
      /\ Word("BOOT_ERROR", 0) \in Seq(Undone)
  BY UndoneWords DEF HostOps
<1>2. Junk(TextLen) \in Seq(Undone)
  BY UndoneWords, BootLoaderAssumption
<1>3. boot_putk \in Seq(Undone)
  BY <1>1, <1>2, Put DEF boot_putk
<1> QED
  BY <1>1, <1>3, Put

(* A string takes as many bytes as get_op_string drops.                     *)
LEMMA Greeting ==
  /\ boot_putk \in Seq(Byte) /\ Len(boot_putk) = 8 + TextLen /\ TextLen \in Nat
  /\ \A k \in 1 .. 4 : boot_putk[k].op = "PRINT_STRING" /\ boot_putk[k].i = k
<1> DEFINE a == Word("PRINT_STRING", 0)
           b == Word("strlen", 0)
           c == Junk(TextLen)
<1>1. TextLen \in Nat
  BY BootLoaderAssumption
<1>2. /\ a \in Seq(Byte) /\ Len(a) = 4 /\ \A k \in 1 .. 4 : a[k].op = "PRINT_STRING" /\ a[k].i = k
      /\ b \in Seq(Byte) /\ Len(b) = 4
  <2>1. "PRINT_STRING" \in HostOps /\ "strlen" \in HostOps /\ 0 \in 0 .. Width - 1
    BY Bounds DEF HostOps
  <2> QED
    BY <2>1, OneWord
<1>3. c \in Seq(Byte) /\ Len(c) = TextLen
  <2>1. Len(c) = TextLen
    BY <1>1 DEF Junk
  <2> QED
    BY <1>1, <2>1, JunkBytes
<1> HIDE DEF a, b, c
<1>4. /\ a \o b \in Seq(Byte) /\ Len(a \o b) = 8
      /\ \A k \in 1 .. 4 : (a \o b)[k] = a[k]
  BY <1>2, WordsApart
<1> DEFINE d == a \o b
<1> HIDE DEF d
<1>5. d \in Seq(Byte) /\ Len(d) = 8 /\ \A k \in 1 .. 4 : d[k] = a[k]
  BY <1>4 DEF d
<1>6. /\ d \o c \in Seq(Byte) /\ Len(d \o c) = 8 + TextLen
      /\ \A k \in 1 .. 8 : (d \o c)[k] = d[k]
  <2>1. Len(d \o c) = Len(d) + Len(c) /\ \A k \in 1 .. Len(d) : (d \o c)[k] = d[k]
    <3>1. d \in Seq(Byte) /\ c \in Seq(Byte)
      BY <1>3, <1>5
    <3> QED
      BY <3>1, Elements
  <2>2. d \o c \in Seq(Byte)
    BY <1>3, <1>5, Put
  <2> QED
    BY <1>3, <1>5, <2>1, <2>2
<1>7. \A k \in 1 .. 4 : (d \o c)[k] = a[k]
  <2>1. \A k \in 1 .. 4 : k \in 1 .. 8
    OBVIOUS
  <2> QED
    BY <1>5, <1>6, <2>1
<1>8. boot_putk = d \o c
  BY DEF boot_putk, a, b, c, d
<1> QED
  BY <1>1, <1>2, <1>6, <1>7, <1>8

LEMMA RequestsNone == Requests(<<>>)
<1>1. <<>> \in Seq(Undone) /\ Len(<<>>) = 4 * 0
  BY EmptySeq
<1> QED
  BY <1>1 DEF Requests

LEMMA RequestsMore ==
  ASSUME NEW s, Requests(s)
  PROVE  Requests(s \o Word("PI_READY", 0))
<1> DEFINE w == Word("PI_READY", 0)
           u == s \o w
<1>1. PICK n \in Nat :
        /\ Len(s) = 4 * n
        /\ \A k \in 1 .. Len(s), j \in 0 .. n : k - 4 * j \in 1 .. 4 =>
             s[k].op = "PI_READY" /\ s[k].i = k - 4 * j
  BY DEF Requests
<1>2. /\ w \in Seq(Undone) /\ Len(w) = 4
      /\ \A k \in 1 .. 4 : w[k].op = "PI_READY" /\ w[k].i = k
  <2>1. "PI_READY" \in HostOps \ {"DONE"} /\ "PI_READY" \in HostOps /\ 0 \in 0 .. Width - 1
    BY Bounds DEF HostOps
  <2>2. w \in Seq(Undone)
    BY <2>1, UndoneWords
  <2>3. Len(w) = 4 /\ \A k \in 1 .. 4 : w[k].op = "PI_READY" /\ w[k].i = k
    BY <2>1, OneWord
  <2> QED
    BY <2>2, <2>3
<1>3. s \in Seq(Undone)
  BY DEF Requests
<1> HIDE DEF w
<1>4. u \in Seq(Undone)
  BY <1>2, <1>3, Put
<1>5. /\ Len(u) = Len(s) + Len(w) /\ Len(s) \in Nat
      /\ \A k \in 1 .. Len(s) : u[k] = s[k]
      /\ \A k \in 1 .. Len(w) : u[Len(s) + k] = w[k]
  <2>1. s \in Seq(Undone) /\ w \in Seq(Undone)
    BY <1>2, <1>3
  <2> QED
    BY <2>1, Elements
<1> HIDE DEF u
<1>6. Len(u) = 4 * (n + 1) /\ n + 1 \in Nat
  BY <1>1, <1>2, <1>5
<1>7. ASSUME NEW k \in 1 .. Len(u), NEW j \in 0 .. n + 1, k - 4 * j \in 1 .. 4
      PROVE  u[k].op = "PI_READY" /\ u[k].i = k - 4 * j
  <2>1. CASE k <= Len(s)
    <3>1. k \in 1 .. Len(s) /\ j \in 0 .. n
      BY <1>1, <1>7, <2>1
    <3> QED
      BY <1>1, <1>5, <1>7, <3>1
  <2>2. CASE k > Len(s)
    <3>1. j = n /\ k - 4 * n \in 1 .. 4 /\ Len(s) + (k - 4 * n) = k
      BY <1>1, <1>6, <1>7, <2>2
    <3>2. u[k] = w[k - 4 * n]
      BY <1>2, <1>5, <3>1
    <3> QED
      BY <1>2, <3>1, <3>2
  <2> QED
    BY <1>1, <1>7, <2>1, <2>2
<1>8. Requests(u)
  BY <1>4, <1>6, <1>7 DEF Requests
<1> QED
  BY <1>8 DEF u, w

LEMMA RequestsRest ==
  ASSUME NEW s, Requests(s), s # <<>>
  PROVE  /\ Len(s) >= 4 /\ s \in Seq(Undone)
         /\ \A k \in 1 .. 4 : s[k].op = "PI_READY" /\ s[k].i = k
         /\ Requests(Drop(s, 4))
<1>1. PICK n \in Nat :
        /\ Len(s) = 4 * n
        /\ \A k \in 1 .. Len(s), j \in 0 .. n : k - 4 * j \in 1 .. 4 =>
             s[k].op = "PI_READY" /\ s[k].i = k - 4 * j
  BY DEF Requests
<1>2. s \in Seq(Undone) /\ Len(s) \in Nat /\ Len(s) # 0
  BY DEF Requests
<1>3. n >= 1 /\ Len(s) >= 4 /\ n - 1 \in Nat /\ 4 \in 0 .. Len(s)
  BY <1>1, <1>2
<1>4. ASSUME NEW k \in 1 .. 4 PROVE s[k].op = "PI_READY" /\ s[k].i = k
  <2>1. k \in 1 .. Len(s) /\ 0 \in 0 .. n /\ k - 4 * 0 = k
    BY <1>1, <1>3
  <2>2. s[k].op = "PI_READY" /\ s[k].i = k - 4 * 0
    BY <1>1, <2>1
  <2> QED
    BY <2>1, <2>2
<1> DEFINE t == Drop(s, 4)
<1>5. /\ t \in Seq(Undone) /\ Len(t) = Len(s) - 4 /\ \A k \in 1 .. Len(s) - 4 : t[k] = s[k + 4]
  BY <1>2, <1>3, Shifted
<1> HIDE DEF t
<1>6. ASSUME NEW k \in 1 .. Len(t), NEW j \in 0 .. n - 1, k - 4 * j \in 1 .. 4
      PROVE  t[k].op = "PI_READY" /\ t[k].i = k - 4 * j
  <2>1. k + 4 \in 1 .. Len(s) /\ j + 1 \in 0 .. n /\ (k + 4) - 4 * (j + 1) = k - 4 * j
    BY <1>1, <1>3, <1>5, <1>6
  <2>2. s[k + 4].op = "PI_READY" /\ s[k + 4].i = (k + 4) - 4 * (j + 1)
    BY <1>1, <1>6, <2>1
  <2> QED
    BY <1>5, <2>1, <2>2
<1>7. Len(t) = 4 * (n - 1)
  BY <1>1, <1>5
<1>8. Requests(t)
  BY <1>3, <1>5, <1>6, <1>7 DEF Requests
<1> QED
  BY <1>2, <1>3, <1>4, <1>8 DEF t

LEMMA RestOfJoin ==
  ASSUME NEW T, NEW s \in Seq(T), NEW t \in Seq(T), NEW n \in 0 .. Len(s)
  PROVE  Drop(s \o t, n) = Drop(s, n) \o t
<1> DEFINE u == s \o t
           d == Drop(s, n)
           a == Drop(u, n)
           b == d \o t
<1>1. /\ u \in Seq(T) /\ Len(u) = Len(s) + Len(t) /\ Len(s) \in Nat /\ Len(t) \in Nat /\ n \in Nat
      /\ \A k \in 1 .. Len(s) : u[k] = s[k]
      /\ \A k \in 1 .. Len(t) : u[Len(s) + k] = t[k]
  BY Put, Elements
<1>2. d \in Seq(T) /\ Len(d) = Len(s) - n /\ \A k \in 1 .. Len(s) - n : d[k] = s[k + n]
  BY Shifted
<1> HIDE DEF u, d
<1>3. n \in 0 .. Len(u)
  BY <1>1
<1>4. a \in Seq(T) /\ Len(a) = Len(u) - n /\ \A k \in 1 .. Len(u) - n : a[k] = u[k + n]
  BY <1>1, <1>3, Shifted
<1>5. /\ b \in Seq(T) /\ Len(b) = Len(d) + Len(t)
      /\ \A k \in 1 .. Len(d) : b[k] = d[k]
      /\ \A k \in 1 .. Len(t) : b[Len(d) + k] = t[k]
  <2>1. d \in Seq(T) /\ t \in Seq(T)
    BY <1>2
  <2> QED
    BY <2>1, Put, Elements
<1> HIDE DEF a, b
<1>6. Len(a) = Len(b)
  BY <1>1, <1>2, <1>4, <1>5
<1>7. ASSUME NEW k \in 1 .. Len(a) PROVE a[k] = b[k]
  <2>1. CASE k <= Len(s) - n
    <3>1. k \in 1 .. Len(d) /\ k + n \in 1 .. Len(s) /\ k \in 1 .. Len(u) - n
      BY <1>1, <1>2, <1>4, <2>1
    <3> QED
      BY <1>1, <1>2, <1>4, <1>5, <3>1
  <2>2. CASE k > Len(s) - n
    <3> DEFINE j == k - (Len(s) - n)
    <3>1. j \in 1 .. Len(t) /\ Len(d) + j = k /\ Len(s) + j = k + n /\ k \in 1 .. Len(u) - n
      BY <1>1, <1>2, <1>4, <2>2
    <3> HIDE DEF j
    <3>2. b[Len(d) + j] = t[j] /\ u[Len(s) + j] = t[j] /\ a[k] = u[k + n]
      BY <1>1, <1>4, <1>5, <3>1
    <3> QED
      BY <3>1, <3>2
  <2> QED
    BY <1>1, <1>4, <2>1, <2>2
<1>8. a = b
  BY <1>4, <1>5, <1>6, <1>7
<1> QED
  BY <1>8 DEF a, b, u, d

LEMMA NothingBehind ==
  ASSUME NEW T, NEW s \in Seq(T)
  PROVE  s \o <<>> = s /\ <<>> \o s = s
OBVIOUS

(* What stands first on the line is what the host reads.                    *)
LEMMA Leads ==
  ASSUME NEW w \in Seq(Byte), NEW s \in Seq(Byte), NEW op, Len(w) >= 4,
         \A k \in 1 .. 4 : w[k].op = op /\ w[k].i = k, toHost = w \o s
  PROVE  /\ Starts(op) /\ \A p : Starts(p) => p = op
         /\ Len(toHost) = Len(w) + Len(s) /\ Len(w) \in Nat /\ Len(s) \in Nat
         /\ Drop(toHost, Len(w)) = s
<1>1. /\ Len(toHost) = Len(w) + Len(s) /\ Len(w) \in Nat /\ Len(s) \in Nat
      /\ \A k \in 1 .. Len(w) : toHost[k] = w[k]
  BY Elements
<1>2. Drop(toHost, Len(w)) = s
  BY JoinHalves
<1>3. \A k \in 1 .. 4 : k \in 1 .. Len(w)
  BY <1>1
<1>4. Len(toHost) >= 4 /\ \A k \in 1 .. 4 : toHost[k].op = op /\ toHost[k].i = k
  BY <1>1, <1>3
<1>5. Starts(op)
  BY <1>4 DEF Starts
<1>6. ASSUME NEW p, Starts(p) PROVE p = op
  <2>1. 1 \in 1 .. 4
    OBVIOUS
  <2>2. toHost[1].op = p
    BY <1>6, <2>1 DEF Starts
  <2> QED
    BY <1>4, <2>1, <2>2
<1> QED
  BY <1>1, <1>2, <1>5, <1>6

(* Every phase keeps an early DONE off the line.                            *)
LEMMA PhaseDone ==
  ASSUME LineOK, Typed, Phase
  PROVE  NoEarlyDone
<1>0. toHost \in Seq(Byte) /\ host \in HostType
  BY DEF LineOK, Typed
<1>1. \A s \in Seq(Undone) : \A k \in Nat : NoDone(s, k)
  BY UndoneSilent
<1>2. CASE host.pc \in Stopped \cup {"get_info"}
  BY <1>2 DEF NoEarlyDone, Stopped
<1>3. CASE host.pc = "drain" /\ (Echoed => Answered)
  BY <1>3 DEF NoEarlyDone, Echoed, Answered
<1>4. \A op \in HostOps \ {"DONE"} : Word(op, 0) \in Seq(Undone)
  BY UndoneWords
<1>5. CASE host.pc = "success" /\ Booting
  <2>1. ASSUME NEW s, Requests(s)
        PROVE  /\ boot_putk \o (Word("BOOT_SUCCESS", 0) \o s) \in Seq(Undone)
               /\ Word("BOOT_SUCCESS", 0) \o s \in Seq(Undone)
    <3>1. s \in Seq(Undone)
      BY <2>1 DEF Requests
    <3>2. Word("BOOT_SUCCESS", 0) \in Seq(Undone)
      BY <1>4 DEF HostOps
    <3>3. Word("BOOT_SUCCESS", 0) \o s \in Seq(Undone)
      BY <3>1, <3>2, Put
    <3> QED
      BY <3>3, SaidUndone, Put
  <2>2. toHost \in Seq(Undone)
    BY <1>5, <2>1, EmptySeq DEF Booting
  <2>3. NoDone(toHost, 0)
    BY <1>1, <2>2
  <2> QED
    BY <1>5, <2>3 DEF NoEarlyDone
<1>6. CASE host.pc = "sync" /\ Calling
  <2>1. NoDone(toHost, 0)
    BY <1>1, <1>6 DEF Calling, Requests
  <2> QED
    BY <1>6, <2>1 DEF NoEarlyDone
<1>7. CASE host.pc = "ack" /\ Called
  <2>1. Word("ACK", 0) \in Seq(Undone)
    BY <1>4 DEF HostOps
  <2>2. \A s : Requests(s) => s \o Word("ACK", 0) \in Seq(Undone)
    BY <2>1, Put DEF Requests
  <2>3. toHost \in Seq(Undone)
    BY <1>7, <2>2 DEF Called, Requests
  <2>4. NoDone(toHost, 0)
    BY <1>1, <2>3
  <2> QED
    BY <1>7, <2>4 DEF NoEarlyDone
<1>8. CASE Serving
  <2>1. ASSUME toHost = <<>> PROVE NoDone(toHost, 0)
    BY <1>1, <2>1, EmptySeq
  <2>2. CASE host.pc = "prompt"
    BY <1>8, <2>1, <2>2 DEF NoEarlyDone, Serving
  <2>3. /\ host.pc \in {"echo", "got", "done"} => cmd.job \in Jobs /\ cmd.clients \in Clients
        /\ host.pc \in {"prompt", "echo", "got", "done"}
    BY <1>8 DEF Serving
  <2>4. CASE host.pc = "echo"
    <3>1. cmd.clients \in 0 .. Width - 1 /\ cmd.job \in 0 .. Width - 1
      <4>1. cmd.job \in 1 .. Width - 1 /\ cmd.clients \in 1 .. Width - 1
        BY <2>3, <2>4, ShellAssumption, Bounds
      <4>2. Width \in Nat
        BY Bounds
      <4> QED
        BY <4>1, <4>2
    <3>2. Word("count", cmd.clients) \in Seq(Undone) /\ Word("crc", cmd.job) \in Seq(Undone)
      BY <3>1, UndoneWords DEF HostOps
    <3>3. Word("count", cmd.clients) \o Word("crc", cmd.job) \in Seq(Undone)
      BY <3>2, Put
    <3>4. toHost \in Seq(Undone)
      BY <1>8, <2>4, <3>3, EmptySeq DEF Serving, Asked
    <3>5. NoDone(toHost, 0)
      BY <1>1, <3>4
    <3> QED
      BY <2>4, <3>5 DEF NoEarlyDone
  <2>5. \A n \in Nat : Len(toHost) = n => NoDone(toHost, n)
    BY <1>0 DEF NoDone
  <2>6. "CODE_GOT" \in HostOps /\ "DONE" \in HostOps /\ 0 \in 0 .. Width - 1
    BY Bounds DEF HostOps
  <2>7. CASE host.pc = "got"
    <3>1. \/ toHost = <<>>
          \/ toHost = Word("CODE_GOT", 0)
          \/ relayed = Code(cmd.job) /\ toHost = Word("CODE_GOT", 0) \o Word("DONE", 0)
      BY <1>8, <2>7 DEF Serving, Loading
    <3>2. Word("CODE_GOT", 0) \in Seq(Undone)
      BY <1>4 DEF HostOps
    <3>3. Len(Word("CODE_GOT", 0) \o Word("DONE", 0)) = 8
      <4> DEFINE c == Word("CODE_GOT", 0)
                 d == Word("DONE", 0)
      <4>1. c \in Seq(Byte) /\ d \in Seq(Byte) /\ Len(c) = 4 /\ Len(d) = 4
        BY <2>6, OneWord
      <4> HIDE DEF c, d
      <4>2. Len(c \o d) = 8
        BY <4>1, WordsApart
      <4> QED
        BY <4>2 DEF c, d
    <3>4. toHost = Word("CODE_GOT", 0) \o Word("DONE", 0) => NoDone(toHost, 8)
      <4>1. Len(toHost) = 8 => NoDone(toHost, 8)
        BY <2>5
      <4> QED
        BY <3>3, <4>1
    <3>5. NoDone(toHost, 0) \/ (NoDone(toHost, 8) /\ relayed = Code(cmd.job))
      BY <1>1, <2>1, <3>1, <3>2, <3>4
    <3> QED
      BY <2>7, <3>5 DEF NoEarlyDone
  <2>8. CASE host.pc = "done"
    <3>1. toHost = <<>> \/ (relayed = Code(cmd.job) /\ toHost = Word("DONE", 0))
      BY <1>8, <2>8 DEF Serving, Relaying
    <3>2. Len(Word("DONE", 0)) = 4
      BY <2>6, OneWord
    <3>3. toHost = Word("DONE", 0) => NoDone(toHost, 4)
      <4>1. toHost = Word("DONE", 0) => Len(toHost) = 4
        BY <3>2
      <4>2. Len(toHost) = 4 => NoDone(toHost, 4)
        BY <2>5
      <4> QED
        BY <4>1, <4>2
    <3>4. NoDone(toHost, 0) \/ (NoDone(toHost, 4) /\ relayed = Code(cmd.job))
      BY <2>1, <3>1, <3>3
    <3> QED
      BY <2>8, <3>4 DEF NoEarlyDone
  <2> QED
    BY <2>2, <2>3, <2>4, <2>7, <2>8
<1>9. CASE Lost
  BY <1>9 DEF Lost
<1> QED
  BY <1>2, <1>3, <1>5, <1>6, <1>7, <1>8, <1>9 DEF Phase

(* What the boot loader, or a Pi that is reset, sends.                      *)
LEMMA HearsDone ==
  ASSUME NoEarlyDone, toHost \in Seq(Byte), EchoWhole(toHost), host \in HostType,
         UNCHANGED <<host, cmd, relayed>>, NEW s \in Seq(Undone), s \in Seq(Uncoded),
         toHost' = toHost \/ toHost' = ToHost(s)
  PROVE  NoEarlyDone'
<1>1. CASE host.pc \in Stopped
  BY <1>1 DEF NoEarlyDone, Stopped
<1>2. CASE toHost' = toHost
  BY <1>2 DEF NoEarlyDone
<1>3. CASE host.pc \notin Stopped /\ toHost' = ToHost(s)
  <2>1. toHost' = toHost \o s
    BY <1>3 DEF ToHost
  <2>2. \A k \in Nat : NoDone(toHost, k) => NoDone(toHost', k)
    BY <2>1, NoDoneMore
  <2>3. \A j \in 1 .. Len(toHost') : Echoes(toHost', j, host.image) =>
          j \in 1 .. Len(toHost) /\ Echoes(toHost, j, host.image)
    <3>1. host.image \in Images
      BY DEF HostType
    <3>2. s \in Seq(Byte) /\ NoCode(s)
      BY UncodedSilent
    <3>3. EchoWhole(s) /\ \A j \in 1 .. Len(s) : ~ Echoes(s, j, host.image)
      BY <3>2, Silent
    <3>4. \A j \in 1 .. Len(toHost \o s) : Echoes(toHost \o s, j, host.image) =>
            \/ j \in 1 .. Len(toHost) /\ Echoes(toHost, j, host.image)
            \/ j - Len(toHost) \in 1 .. Len(s) /\ Echoes(s, j - Len(toHost), host.image)
      BY <3>1, <3>2, <3>3, HostLineMore
    <3> QED
      BY <2>1, <3>3, <3>4
  <2>4. \A j \in 1 .. Len(toHost) : j \in Nat
    OBVIOUS
  <2>5. /\ 0 \in Nat /\ 4 \in Nat /\ 8 \in Nat
    OBVIOUS
  <2> QED
    BY <2>2, <2>3, <2>4, <2>5 DEF NoEarlyDone
<1> QED
  BY <1>1, <1>2, <1>3

(* Which steps a boot loader takes, and a server before its first command.  *)
LEMMA LoaderSteps ==
  ASSUME PiStep \/ PiRepeats
  PROVE  /\ pi.pc = "down" => Up /\ Keep
         /\ pi.pc \in {"ask", "wait"} => (wait_for_data \/ HasData) /\ Keep
         /\ pi.pc = "info" => (ProgInfo \/ (WrongOp /\ Other32("PUT_PROG_INFO"))) /\ Keep
         /\ pi.pc = "code" => (PutCode \/ (WrongOp /\ Other32("PUT_CODE"))) /\ Keep
         /\ pi.pc = "copy" => (Copy \/ CopyDone) /\ Keep
         /\ pi.pc \in {"ready", "ready_wait"} => wait_for_op \/ HasOp
         /\ pi.pc = "unix" => UnixReady \/ (ServerWrongOp /\ Other32("UNIX_READY"))
<1>1. /\ wait_for_data \/ HasData => pi.pc \in {"ask", "wait"}
      /\ ProgInfo => pi.pc = "info"
      /\ PutCode => pi.pc = "code"
      /\ WrongOp => \/ pi.pc = "info" /\ Other32("PUT_PROG_INFO")
                    \/ pi.pc = "code" /\ Other32("PUT_CODE")
      /\ Copy \/ CopyDone => pi.pc = "copy"
      /\ Up => pi.pc = "down"
  BY DEF wait_for_data, HasData, ProgInfo, PutCode, WrongOp, Copy, CopyDone, Up, PiAt
<1>2. /\ wait_for_op \/ HasOp => pi.pc \in {"ready", "ready_wait"}
      /\ UnixReady => pi.pc = "unix"
  BY DEF wait_for_op, HasOp, UnixReady, PiReads, PiAt
<1>3. /\ Exit \/ Run \/ IgnoreOp => pi.pc = "main"
      /\ RunArgs => pi.pc = "run"
      /\ SendCodeOp => pi.pc = "send"
      /\ LoadJob \/ JobLoaded => pi.pc = "load"
      /\ Relay => pi.pc = "relay"
      /\ ServerWrongOp => pi.pc = "send" \/ (pi.pc = "unix" /\ Other32("UNIX_READY"))
  BY DEF Exit, Run, IgnoreOp, RunArgs, SendCodeOp, LoadJob, JobLoaded, Relay, ServerWrongOp,
         PiReads, PiAt
<1> QED
  BY <1>1, <1>2, <1>3 DEF PiStep, PiRepeats

(* A Pi that was reset is told nothing to load.                             *)
LEMMA PiLost ==
  ASSUME LineOK, PiOK, Typed, EchoWhole(toHost), NoInfo(toPi), Lost, PiStep \/ PiRepeats
  PROVE  Lost'
<1>0. /\ toPi \in Seq(WordType) /\ toHost \in Seq(Byte) /\ host \in HostType /\ pi \in PiType
  BY DEF LineOK, PiOK, Typed
<1>1. pi.pc \in {"down", "ask", "wait", "info"}
  BY DEF Lost
<1>2. ~ Next32("PUT_PROG_INFO")
  BY <1>0 DEF Next32, NoInfo
<1>3. \A next : pi' = [pi EXCEPT !.pc = next] => pi'.pc = next
  BY <1>0 DEF PiType
<1>4. CASE Up /\ Keep
  <2>1. pi' = [pi EXCEPT !.pc = "ask"] /\ UNCHANGED <<host, toHost, faults, cmd, relayed>>
    BY <1>4 DEF Up, Keep
  <2>2. pi'.pc = "ask"
    BY <1>3, <2>1
  <2> QED
    BY <2>1, <2>2 DEF Lost, NoEarlyDone
<1>5. CASE HasData /\ Keep
  <2>1. pi' = [pi EXCEPT !.pc = "info"] /\ UNCHANGED <<host, toHost, faults, cmd, relayed>>
    BY <1>5 DEF HasData, Keep
  <2>2. pi'.pc = "info"
    BY <1>3, <2>1
  <2> QED
    BY <2>1, <2>2 DEF Lost, NoEarlyDone
<1>6. CASE wait_for_data /\ Keep
  <2>1. /\ pi' = [pi EXCEPT !.pc = "wait"] /\ UNCHANGED <<host, faults, cmd, relayed>>
        /\ toHost' = ToHost(Word("GET_PROG_INFO", 0))
    BY <1>6 DEF wait_for_data, PiSends, Keep
  <2>2. pi'.pc = "wait"
    BY <1>3, <2>1
  <2>3. Word("GET_PROG_INFO", 0) \in Seq(Undone) /\ Word("GET_PROG_INFO", 0) \in Seq(Uncoded)
    BY UndoneWords, UncodedWords DEF HostOps
  <2>4. NoEarlyDone'
    BY <1>0, <2>1, <2>3, HearsDone DEF Lost
  <2> QED
    BY <2>1, <2>2, <2>4 DEF Lost
<1>7. CASE WrongOp /\ Keep
  <2>1. /\ pi' = Rebooting /\ UNCHANGED <<host, faults, cmd, relayed>>
        /\ toHost' = ToHost(boot_putk \o Word("BOOT_ERROR", 0))
    BY <1>7 DEF WrongOp, boot_err, PiSends, Keep
  <2>2. pi'.pc = "down"
    BY <2>1 DEF Rebooting
  <2>3. NoEarlyDone'
    BY <1>0, <2>1, SaidUndone, SaidUncoded, HearsDone DEF Lost
  <2> QED
    BY <2>1, <2>2, <2>3 DEF Lost
<1>8. ~ ProgInfo
  BY <1>2 DEF ProgInfo
<1> QED
  BY <1>1, <1>4, <1>5, <1>6, <1>7, <1>8, LoaderSteps

(* The host's request line grows.                                           *)
LEMMA Grows ==
  ASSUME host.pc \notin Stopped, NEW s, toHost' = ToHost(s)
  PROVE  toHost' = toHost \o s
BY DEF ToHost

(* The Pi takes the announcement.                                           *)
LEMMA PiAnswers ==
  ASSUME Width \div 2 - 1 \notin Images, Sessions, Sessions', LineOK, PiOK, Typed,
         host.pc = "drain", ~ Echoed, TakesInfo, faults.flips = 0
  PROVE  Echoed' => Answered'
<1> DEFINE b == host.image
           v == toPi[4].v
           c == Word("GET_CODE", 0)
           d == Word("crc", v)
           e == c \o d
<1>1. /\ host \in HostType /\ b \in Images /\ toPi \in Seq(WordType) /\ toHost \in Seq(Byte)
      /\ Len(toPi) \in Nat /\ pi \in PiType /\ InOrder(toPi)
  BY DEF LineOK, PiOK, Typed, HostType, Sessions
<1>2. /\ Next32("PUT_PROG_INFO") /\ Len(toPi) >= 4 /\ ~ Collides(toPi[2].v, toPi[3].v)
      /\ toPi' = Drop(toPi, 4) /\ UNCHANGED <<host, faults>> /\ toHost' = ToHost(e)
      /\ pi' = [pi EXCEPT !.pc = "code", !.nbytes = toPi[3].v, !.crc = v] /\ pi.pc = "info"
  BY DEF TakesInfo, PiSends
<1>3. pi'.pc = "code" /\ pi'.nbytes = toPi[3].v /\ pi'.crc = v /\ pi'.mem = pi.mem
  BY <1>1, <1>2 DEF PiType
<1>4. toHost' = toHost \o e
  BY <1>2, Grows DEF Stopped
<1> SUFFICES ASSUME Echoed' PROVE Answered'
  OBVIOUS
<1>5. v = b
  <2>1. Confirmed'
    BY <1>2 DEF Sessions, Begun, Echoed, Stopped
  <2> QED
    BY <1>2, <1>3, <2>1 DEF Confirmed
<1>6. Announces(toPi, 1, b)
  BY <1>1, <1>2, <1>5, OwnTaken
<1>7. 1 + 3 = Len(toPi) /\ toPi[1 + 2].v = Size[b] /\ 1 \in 1 .. Len(toPi)
  <2>1. 1 \in 1 .. Len(toPi)
    BY <1>1, <1>2
  <2> QED
    BY <1>6, <2>1 DEF Sessions, OwnLast
<1>8. toPi' = <<>> /\ pi'.nbytes = Size[b]
  <2>1. Len(toPi) = 4
    BY <1>7
  <2>2. Drop(toPi, 4) = <<>>
    BY <1>1, <2>1 DEF Drop
  <2> QED
    BY <1>2, <1>3, <1>7, <2>2
<1>9. /\ c \in Seq(Byte) /\ d \in Seq(Byte) /\ Len(c) = 4 /\ Len(d) = 4
      /\ \A k \in 1 .. 4 : /\ c[k].op = "GET_CODE" /\ c[k].i = k
                           /\ d[k].op = "crc"
      /\ c \in Seq(Undone) /\ d \in Seq(Undone)
  <2>1. /\ "GET_CODE" \in HostOps /\ "crc" \in HostOps /\ 0 \in 0 .. Width - 1
        /\ "GET_CODE" \in HostOps \ {"DONE"} /\ "crc" \in HostOps \ {"DONE"}
    BY Bounds DEF HostOps
  <2>2. v \in 0 .. Width - 1
    <3>1. v \in 1 .. Width - 1 /\ Width \in Nat
      BY <1>1, <1>5, Bounds
    <3> QED
      BY <3>1
  <2> HIDE DEF v
  <2>3. c \in Seq(Undone) /\ d \in Seq(Undone)
    BY <2>1, <2>2, UndoneWords
  <2>4. /\ c \in Seq(Byte) /\ Len(c) = 4
        /\ \A k \in 1 .. 4 : c[k].op = "GET_CODE" /\ c[k].i = k
    BY <2>1, OneWord
  <2>5. d \in Seq(Byte) /\ Len(d) = 4 /\ \A k \in 1 .. 4 : d[k].op = "crc"
    BY <2>1, <2>2, OneWord
  <2> QED
    BY <2>3, <2>4, <2>5
<1> HIDE DEF c, d
<1>10. /\ e \in Seq(Byte) /\ Len(e) = 8 /\ e \in Seq(Undone)
       /\ \A k \in 1 .. 4 : e[k] = c[k] /\ e[4 + k] = d[k]
  BY <1>9, WordsApart, Put
<1> HIDE DEF e
<1>11. \A j \in 1 .. Len(e) : e[j].op = "GET_CODE" /\ e[j].i = 1 => j = 1
  <2> SUFFICES ASSUME NEW j \in 1 .. Len(e), e[j].op = "GET_CODE", e[j].i = 1 PROVE j = 1
    OBVIOUS
  <2>1. CASE j \in 1 .. 4
    BY <1>9, <1>10, <2>1
  <2>2. CASE j \notin 1 .. 4
    <3>1. j - 4 \in 1 .. 4 /\ 4 + (j - 4) = j
      BY <1>10, <2>2
    <3> QED
      BY <1>9, <1>10, <3>1
  <2> QED
    BY <2>1, <2>2
<1>12. EchoWhole(e)
  BY <1>10, <1>11 DEF EchoWhole
<1>13. \A j \in 1 .. Len(toHost \o e) : Echoes(toHost \o e, j, b) =>
         \/ j \in 1 .. Len(toHost) /\ Echoes(toHost, j, b)
         \/ j - Len(toHost) \in 1 .. Len(e) /\ Echoes(e, j - Len(toHost), b)
  BY <1>1, <1>10, <1>12, HostLineMore DEF Sessions
<1>14. /\ Len(toHost') = Len(toHost) + 8 /\ Len(toHost) \in Nat
       /\ \A k \in 1 .. 8 : toHost'[Len(toHost) + k] = e[k]
  <2>1. /\ Len(toHost \o e) = Len(toHost) + Len(e)
        /\ \A k \in 1 .. Len(e) : (toHost \o e)[Len(toHost) + k] = e[k]
    <3>1. toHost \in Seq(Byte) /\ e \in Seq(Byte)
      BY <1>1, <1>10
    <3> QED
      BY <3>1, Elements
  <2>2. toHost' = toHost \o e /\ Len(e) = 8 /\ Len(toHost) \in Nat
    BY <1>1, <1>4, <1>10
  <2> HIDE DEF e
  <2> QED
    BY <2>1, <2>2
<1>15. ASSUME NEW j \in 1 .. Len(toHost'), Echoes(toHost', j, b)
       PROVE  j + 7 = Len(toHost') /\ NoDone(toHost', j)
  <2>1. j - Len(toHost) \in 1 .. Len(e) /\ Echoes(e, j - Len(toHost), b)
    BY <1>4, <1>13, <1>15 DEF Echoed
  <2>2. j - Len(toHost) = 1
    BY <1>11, <2>1 DEF Echoes
  <2>3. j = Len(toHost) + 1
    BY <1>14, <2>2
  <2>4. ASSUME NEW k \in 1 .. Len(toHost'), k > j PROVE toHost'[k].op # "DONE"
    <3>1. k - Len(toHost) \in 1 .. 8 /\ Len(toHost) + (k - Len(toHost)) = k
      <4>1. /\ k \in Nat /\ Len(toHost) \in Nat /\ k > Len(toHost) + 1
            /\ k <= Len(toHost) + 8
        BY <1>14, <2>3, <2>4
      <4> QED
        BY <4>1
    <3>2. toHost'[k] = e[k - Len(toHost)]
      BY <1>14, <3>1
    <3>3. \A i \in 1 .. 8 : e[i].op # "DONE"
      BY <1>10, UndoneSilent
    <3> QED
      BY <3>1, <3>2, <3>3
  <2> QED
    BY <1>14, <2>3, <2>4 DEF NoDone
<1>16. pi'.mem = <<>>
  BY <1>2, <1>3 DEF PiOK
<1> QED
  BY <1>2, <1>3, <1>8, <1>15, <1>16 DEF Answered

(* The Pi loads the image and starts it.                                    *)
LEMMA PiBoots ==
  ASSUME LineOK, PiOK, Typed, host.pc = "success", Confirmed, Booting, PiStep \/ PiRepeats
  PROVE  Booting'
<1> DEFINE b == host.image
           c == CodeItems(b)
           w == Word("BOOT_SUCCESS", 0)
           r == Word("PI_READY", 0)
<1>0. /\ toPi \in Seq(WordType) /\ Len(toPi) \in Nat /\ pi \in PiType /\ b \in Images
      /\ host.pc \notin Stopped
  BY DEF LineOK, PiOK, Typed, HostType, Stopped
<1>1. Size[b] \in Nat /\ Size[b] > 0 /\ Code(b) # <<>> /\ Len(Code(b)) = Size[b]
      /\ crc32(Code(b)) = b /\ Code(b) \in Seq(Images)
  <2>1. Size[b] \in 1 .. Width - 1 /\ Width \in Nat
    BY <1>0, Bounds
  <2>2. Size[b] \in Nat /\ Size[b] > 0
    BY <2>1
  <2>3. Code(b) # <<>> /\ Code(b) \in Seq(Images) /\ crc32(Code(b)) = b /\ Len(Code(b)) = Size[b]
    BY <1>0, ImageCode, CodeIs
  <2> QED
    BY <2>2, <2>3
<1>2. /\ w \in Seq(Byte) /\ r \in Seq(Byte) /\ boot_putk \in Seq(Byte)
  <2>1. "BOOT_SUCCESS" \in HostOps /\ "PI_READY" \in HostOps /\ 0 \in 0 .. Width - 1
    BY Bounds DEF HostOps
  <2> QED
    BY <2>1, WordBytes, Greeting
<1>3. \A next : pi' = [pi EXCEPT !.pc = next] =>
        pi'.pc = next /\ pi'.mem = pi.mem /\ pi'.nbytes = pi.nbytes
  BY <1>0 DEF PiType
<1>4. CASE /\ toHost = <<>> /\ pi.nbytes = Size[b] /\ pi.pc = "code" /\ pi.mem = <<>>
           /\ toPi = <<Op("PUT_CODE")>> \o c
  <2>1. toPi # <<>> /\ Head(toPi) = Op("PUT_CODE") /\ Tail(toPi) = c
    <3>1. Op("PUT_CODE") \in WordType /\ c \in Seq(WordType)
      BY <1>0, OpTyped, CodeTyped DEF Opcodes
    <3> HIDE DEF c
    <3> QED
      BY <1>4, <3>1
  <2>2. ~ Other32("PUT_CODE")
    BY <2>1 DEF Other32, Op, Item
  <2>3. PutCode
    BY <1>4, <2>2, LoaderSteps
  <2>4. /\ pi' = [pi EXCEPT !.pc = "copy"] /\ toPi' = c /\ UNCHANGED <<host, toHost>>
    BY <2>1, <2>3 DEF PutCode
  <2>5. pi'.pc = "copy" /\ pi'.mem = <<>> /\ pi'.nbytes = Size[b]
    BY <1>3, <1>4, <2>4
  <2> QED
    BY <1>4, <2>4, <2>5 DEF Booting
<1>5. CASE /\ toHost = <<>> /\ pi.nbytes = Size[b] /\ pi.pc = "copy" /\ pi.mem = <<>>
           /\ toPi = c
  <2>1. Len(pi.mem) = 0 /\ Len(c) = Size[b] /\ \A k \in 1 .. Size[b] : c[k].v = b
    BY <1>1, <1>5 DEF CodeItems, Item
  <2>2. Copy
    <3>1. Len(pi.mem) # pi.nbytes
      BY <1>1, <1>5, <2>1
    <3> QED
      BY <1>5, <3>1, LoaderSteps DEF CopyDone
  <2> DEFINE m == IF Len(toPi) < pi.nbytes - Len(pi.mem) THEN Len(toPi)
                  ELSE pi.nbytes - Len(pi.mem)
  <2>3. /\ pi' = [pi EXCEPT !.mem = @ \o [k \in 1 .. m |-> toPi[k].v]] /\ toPi' = Drop(toPi, m)
        /\ UNCHANGED <<host, toHost>>
    BY <2>2 DEF Copy, CopyWords
  <2>4. m = Size[b]
    BY <1>1, <1>5, <2>1
  <2> HIDE DEF m
  <2>5. toPi' = <<>>
    BY <1>0, <1>5, <2>1, <2>3, <2>4 DEF Drop
  <2>6. [k \in 1 .. m |-> toPi[k].v] = Code(b)
    BY <1>5, <2>1, <2>4 DEF Code
  <2>7. pi.mem \o Code(b) = Code(b)
    BY <1>1, <1>5
  <2>8. pi'.pc = "copy" /\ pi'.nbytes = Size[b] /\ pi'.mem = Code(b)
    BY <1>0, <1>5, <2>3, <2>6, <2>7 DEF PiType
  <2> QED
    BY <1>5, <2>3, <2>5, <2>8 DEF Booting
<1>6. CASE /\ toHost = <<>> /\ pi.nbytes = Size[b] /\ pi.pc = "copy" /\ pi.mem = Code(b)
           /\ toPi = <<>>
  <2>1. ~ Copy
    <3>1. Len(toPi) = 0 /\ pi.nbytes - Len(pi.mem) = 0
      BY <1>1, <1>6
    <3> QED
      BY <3>1 DEF Copy, CopyWords
  <2>2. CopyDone
    BY <1>6, <2>1, LoaderSteps
  <2>3. crc32(pi.mem) = pi.crc
    BY <1>1, <1>6 DEF Confirmed
  <2>4. /\ pi' = [pi EXCEPT !.pc = "ready", !.image = pi.mem] /\ UNCHANGED <<host, toPi>>
        /\ toHost' = ToHost(boot_putk \o w)
    BY <2>2, <2>3 DEF CopyDone, PiSends
  <2>5. pi'.pc = "ready"
    BY <1>0, <2>4 DEF PiType
  <2>6. toHost' = boot_putk \o (w \o <<>>)
    <3>1. toHost' = <<>> \o (boot_putk \o w)
      BY <1>0, <1>6, <2>4, Grows
    <3>2. boot_putk \o w \in Seq(Byte)
      BY <1>2, Put
    <3>3. <<>> \o (boot_putk \o w) = boot_putk \o w /\ w \o <<>> = w
      BY <1>2, <3>2, NothingBehind
    <3> QED
      BY <3>1, <3>3
  <2> QED
    BY <1>6, <2>4, <2>5, <2>6, RequestsNone DEF Booting
<1>7. CASE pi.pc \in {"ready", "ready_wait"} /\ toPi = <<>>
  <2>1. PICK s : /\ Requests(s)
                 /\ \/ toHost = boot_putk \o (w \o s)
                    \/ toHost = w \o s
    BY <1>7 DEF Booting
  <2>2. ~ HasOp
    BY <1>7 DEF HasOp
  <2>3. wait_for_op
    BY <1>7, <2>2, LoaderSteps
  <2>4. /\ pi' = [pi EXCEPT !.pc = "ready_wait"] /\ UNCHANGED <<host, toPi>>
        /\ toHost' = ToHost(r)
    BY <2>3 DEF wait_for_op, PiSends
  <2>5. pi'.pc = "ready_wait"
    BY <1>3, <2>4
  <2>6. toHost' = toHost \o r
    BY <1>0, <2>4, Grows
  <2>7. Requests(s \o r) /\ s \in Seq(Byte)
    <3>1. Requests(s \o r)
      BY <2>1, RequestsMore
    <3>2. s \in Seq(Undone)
      BY <2>1 DEF Requests
    <3> QED
      BY <3>1, <3>2, UndoneSilent
  <2>8. (w \o s) \o r = w \o (s \o r) /\ w \o s \in Seq(Byte)
    <3>1. w \in Seq(Byte) /\ s \in Seq(Byte) /\ r \in Seq(Byte)
      BY <1>2, <2>7
    <3>2. (w \o s) \o r = w \o (s \o r)
      BY <3>1, Regroup
    <3>3. w \o s \in Seq(Byte)
      BY <3>1, Put
    <3> QED
      BY <3>2, <3>3
  <2>9. (boot_putk \o (w \o s)) \o r = boot_putk \o ((w \o s) \o r)
    <3> DEFINE t == w \o s
    <3>1. t \in Seq(Byte) /\ boot_putk \in Seq(Byte) /\ r \in Seq(Byte)
      BY <1>2, <2>8
    <3> HIDE DEF t, r
    <3>2. (boot_putk \o t) \o r = boot_putk \o (t \o r)
      BY <3>1, Regroup
    <3> QED
      BY <3>2 DEF t
  <2>10. toHost' = boot_putk \o (w \o (s \o r)) \/ toHost' = w \o (s \o r)
    BY <2>1, <2>6, <2>8, <2>9
  <2> QED
    BY <1>7, <2>4, <2>5, <2>7, <2>10 DEF Booting
<1> QED
  BY <1>4, <1>5, <1>6, <1>7 DEF Booting

(* The server asks again.                                                   *)
LEMMA PiCalls ==
  ASSUME PiOK, host.pc \notin Stopped, Calling, PiStep \/ PiRepeats
  PROVE  Calling'
<1>1. ~ HasOp
  BY DEF HasOp, Calling
<1>2. wait_for_op
  BY <1>1, LoaderSteps DEF Calling
<1>3. /\ pi' = [pi EXCEPT !.pc = "ready_wait"] /\ UNCHANGED <<host, toPi>>
      /\ toHost' = ToHost(Word("PI_READY", 0))
  BY <1>2 DEF wait_for_op, PiSends
<1>4. pi'.pc = "ready_wait"
  BY <1>3 DEF PiOK, PiType
<1>5. Requests(toHost')
  BY <1>3, RequestsMore, Grows DEF Calling
<1> QED
  BY <1>3, <1>4, <1>5 DEF Calling

(* The server reads the shell's answer.                                     *)
LEMMA PiCalled ==
  ASSUME PiOK, host.pc \notin Stopped, Called, PiStep \/ PiRepeats
  PROVE  Called'
<1>1. \A next : pi' = [pi EXCEPT !.pc = next] => pi'.pc = next
  BY DEF PiOK, PiType
<1>2. CASE pi.pc = "main" /\ toPi = <<>>
  BY <1>2, ServerSteps DEF Exit, Run, IgnoreOp, PiReads, Next32, Other32
<1>3. CASE /\ pi.pc \in {"ready", "ready_wait", "unix"} /\ toPi = <<Op("UNIX_READY")>>
           /\ Requests(toHost)
  <2>1. toPi # <<>> /\ Head(toPi) = Op("UNIX_READY") /\ Tail(toPi) = <<>>
    BY <1>3
  <2>2. CASE wait_for_op
    <3>1. /\ pi' = [pi EXCEPT !.pc = "ready_wait"] /\ UNCHANGED <<host, toPi>>
          /\ toHost' = ToHost(Word("PI_READY", 0))
      BY <2>2 DEF wait_for_op, PiSends
    <3>2. pi'.pc = "ready_wait" /\ Requests(toHost')
      BY <1>1, <1>3, <3>1, RequestsMore, Grows
    <3> QED
      BY <1>3, <3>1, <3>2 DEF Called
  <2>3. CASE HasOp
    <3>1. pi' = [pi EXCEPT !.pc = "unix"] /\ UNCHANGED <<host, toHost, toPi>>
      BY <2>3 DEF HasOp
    <3>2. pi'.pc = "unix"
      BY <1>1, <3>1
    <3> QED
      BY <1>3, <3>1, <3>2 DEF Called
  <2>4. CASE pi.pc = "unix"
    <3>1. ~ Other32("UNIX_READY")
      BY <2>1 DEF Other32, Op, Item
    <3>2. UnixReady
      BY <2>4, <3>1, LoaderSteps
    <3>3. /\ pi' = [pi EXCEPT !.pc = "main"] /\ toPi' = <<>> /\ UNCHANGED host
          /\ toHost' = ToHost(Word("ACK", 0))
      BY <2>1, <3>2 DEF UnixReady, PiReads, PiSends
    <3>4. pi'.pc = "main" /\ toHost' = toHost \o Word("ACK", 0)
      BY <1>1, <3>3, Grows
    <3> QED
      BY <1>3, <3>3, <3>4 DEF Called
  <2> QED
    BY <1>3, <2>2, <2>3, <2>4, LoaderSteps
<1> QED
  BY <1>2, <1>3 DEF Called

(* Which steps a host takes up to its prompt.                               *)
LEMMA BootSteps ==
  ASSUME HostStep, host \in HostType
  PROVE  /\ UNCHANGED <<pi, faults, cmd, relayed>>
         /\ host.pc = "get_info" => get_op_string \/ Discard \/ ReplyInfo \/ host'.pc = "dead"
         /\ host.pc = "drain" => get_op_string \/ Drain \/ SendCode \/ host'.pc = "dead"
         /\ host.pc = "success" => get_op_string \/ Success \/ host'.pc = "dead"
         /\ host.pc = "sync" => SyncDiscard \/ SyncReady \/ PiWaits
         /\ host.pc = "ack" => \/ SyncDrain \/ SyncAck
                               \/ Len(toHost) >= 4 /\ ~ Starts("PI_READY") /\ ~ Starts("ACK")
                               \/ Len(toHost) < 4 /\ PiWaits
         /\ host.pc \notin Stopped
         /\ \/ get_op_string \/ Discard \/ ReplyInfo \/ Drain \/ SendCode \/ Success
            \/ SyncDiscard \/ SyncReady \/ SyncDrain \/ SyncAck \/ SendJob \/ CodeGot \/ JobDone
            \/ host'.pc = "dead"
<1>1. /\ get_op_string => host.pc \in {"get_info", "drain", "success"}
      /\ Discard \/ ReplyInfo => host.pc = "get_info"
      /\ Drain \/ SendCode => host.pc = "drain"
      /\ Success => host.pc = "success"
      /\ SyncDiscard \/ SyncReady => host.pc = "sync"
      /\ SyncDrain \/ SyncAck => host.pc = "ack"
      /\ SendJob => host.pc = "echo"
      /\ CodeGot => host.pc = "got"
      /\ JobDone => host.pc = "done"
  BY DEF get_op_string, Discard, ReplyInfo, Drain, SendCode, Success, SyncDiscard, SyncReady,
         SyncDrain, SyncAck, SendJob, CodeGot, JobDone, HostReads, HostAt
<1>2. /\ Mismatch \/ BootTimeout(PiWaits) => host.pc \in {"get_info", "drain", "success"} /\ Die
      /\ ShellMismatch => /\ host.pc \in {"ack", "echo", "got"} /\ Die /\ Keep
                          /\ host.pc = "ack" => /\ Len(toHost) >= 4 /\ ~ Starts("PI_READY")
                                                /\ ~ Starts("ACK")
      /\ ShellTimeout(PiWaits) => /\ host.pc \in {"sync", "ack", "echo", "got", "done"}
                                  /\ Len(toHost) < ShellNeeds /\ PiWaits /\ Die /\ Keep
  BY DEF Mismatch, BootTimeout, ShellMismatch, ShellTimeout, HostAt
<1>3. host.pc = "ack" => ShellNeeds = 4
  BY Zenon DEF ShellNeeds, HostAt
<1>4. Die => host'.pc = "dead" /\ UNCHANGED <<pi, faults>>
  BY DEF Die, HostTo, HostType
<1>5. /\ get_op_string \/ Discard \/ ReplyInfo \/ Drain \/ SendCode \/ Success =>
           UNCHANGED <<pi, faults>>
      /\ SyncDiscard \/ SyncReady \/ SyncDrain \/ SyncAck \/ SendJob \/ CodeGot \/ JobDone =>
           UNCHANGED <<pi, faults>> /\ Keep
  BY DEF get_op_string, Discard, ReplyInfo, Drain, SendCode, Success, SyncDiscard, SyncReady,
         SyncDrain, SyncAck, SendJob, CodeGot, JobDone, HostReads
<1>6. \/ (get_op_string \/ Discard \/ ReplyInfo \/ Drain \/ SendCode \/ Success) /\ Keep
      \/ (Mismatch \/ BootTimeout(PiWaits)) /\ Keep
      \/ SyncDiscard \/ SyncReady \/ SyncDrain \/ SyncAck \/ SendJob \/ CodeGot \/ JobDone
      \/ ShellMismatch \/ ShellTimeout(PiWaits)
  BY DEF HostStep, simple_boot
<1>7. UNCHANGED <<pi, faults, cmd, relayed>>
  BY <1>2, <1>4, <1>5, <1>6 DEF Keep
<1>8. host.pc \notin Stopped
  BY <1>1, <1>2, <1>6 DEF Stopped
<1> QED
  BY <1>1, <1>2, <1>3, <1>4, <1>6, <1>7, <1>8

(* The host never leaves a DONE that came too early.                        *)
LEMMA HostDone ==
  ASSUME Sessions, LineOK, Typed, NoEarlyDone, HostStep
  PROVE  NoEarlyDone'
<1> DEFINE b == host.image
<1>0. /\ host \in HostType /\ toHost \in Seq(Byte) /\ Len(toHost) \in Nat /\ b \in Images
      /\ UNCHANGED <<pi, faults, cmd, relayed>>
  BY BootSteps DEF LineOK, Typed, HostType
<1>1. \A next : HostTo(next) => host'.pc = next /\ host'.image = b
  BY <1>0 DEF HostTo, HostType
<1>2. ASSUME NEW n \in Nat, Len(toHost) >= n, toHost' = Drop(toHost, n),
             NEW j \in Nat, NEW k \in Nat, NoDone(toHost, j), j <= k + n
      PROVE  NoDone(toHost', k)
  <2>1. n \in 0 .. Len(toHost)
    BY <1>0, <1>2
  <2> QED
    BY <1>0, <1>2, <2>1, NoDoneRest
<1>3. \A op : Starts(op) => Len(toHost) >= 4
  BY DEF Starts
<1>4. CASE host'.pc = "dead"
  BY <1>4 DEF NoEarlyDone
<1>5. ASSUME NEW n \in Nat, Len(toHost) >= n, toHost' = Drop(toHost, n), NoDone(toHost, 0)
      PROVE  NoDone(toHost', 0)
  <2>1. 0 <= 0 + n
    OBVIOUS
  <2> QED
    BY <1>2, <1>5, <2>1
<1>6. ASSUME UNCHANGED host, host.pc \in {"get_info", "drain", "success"},
             NEW n \in Nat, Len(toHost) >= n, toHost' = Drop(toHost, n)
      PROVE  NoEarlyDone'
  <2>1. n \in 0 .. Len(toHost)
    BY <1>0, <1>6
  <2>2. CASE host.pc = "drain"
    <3>1. ASSUME NEW j \in 1 .. Len(toHost'), Echoes(toHost', j, b) PROVE NoDone(toHost', j)
      <4>1. j + n \in 1 .. Len(toHost) /\ Echoes(toHost, j + n, b)
        BY <1>0, <1>6, <2>1, <3>1, HostLineRest
      <4>2. NoDone(toHost, j + n)
        BY <2>2, <4>1 DEF NoEarlyDone
      <4>3. j + n \in Nat /\ j \in Nat /\ j + n <= j + n
        BY <1>0, <4>1
      <4> QED
        BY <1>2, <1>6, <4>2, <4>3
    <3> QED
      BY <1>6, <2>2, <3>1 DEF NoEarlyDone
  <2>3. CASE host.pc = "success"
    <3>1. NoDone(toHost', 0)
      BY <1>5, <1>6, <2>3 DEF NoEarlyDone
    <3> QED
      BY <1>6, <2>3, <3>1 DEF NoEarlyDone
  <2>4. CASE host.pc = "get_info"
    BY <1>6, <2>4 DEF NoEarlyDone
  <2> QED
    BY <1>6, <2>2, <2>3, <2>4
<1>7. CASE get_op_string \/ Discard \/ Drain
  <2>1. 8 + TextLen \in Nat /\ 5 \in Nat /\ 8 \in Nat
    BY BootLoaderAssumption
  <2>2. /\ UNCHANGED host /\ host.pc \in {"get_info", "drain", "success"}
        /\ \E n \in Nat : Len(toHost) >= n /\ toHost' = Drop(toHost, n)
    BY <1>7, <2>1 DEF get_op_string, Discard, Drain, HostAt
  <2> QED
    BY <1>6, <2>2
<1>8. CASE ReplyInfo
  <2>1. /\ host.pc = "get_info" /\ host'.pc = "drain" /\ host'.image = b
        /\ 4 \in 0 .. Len(toHost) /\ toHost' = Drop(toHost, 4)
    BY <1>0, <1>1, <1>3, <1>8 DEF ReplyInfo, HostAt
  <2>2. ~ Begun
    BY <2>1 DEF Sessions, Confirmed, Stopped
  <2>3. \A j \in 1 .. Len(toHost') : Echoes(toHost', j, b) =>
          j + 4 \in 1 .. Len(toHost) /\ Echoes(toHost, j + 4, b)
    BY <1>0, <2>1, HostLineRest
  <2> QED
    BY <2>1, <2>2, <2>3 DEF Begun, NoEarlyDone
<1>9. CASE SendCode
  <2>1. /\ host.pc = "drain" /\ host'.pc = "success" /\ Len(toHost) >= 8
        /\ toHost' = Drop(toHost, 8) /\ Starts("GET_CODE") /\ EchoMatches
    BY <1>1, <1>9 DEF SendCode, HostAt
  <2>2. Echoes(toHost, 1, b) /\ 1 \in 1 .. Len(toHost)
    <3>1. toHost[5].v = b
      <4>1. b \in 0 .. Width - 1
        <5>1. b \in 1 .. Width - 1 /\ Width \in Nat
          BY <1>0, Bounds
        <5> QED
          BY <5>1
      <4>2. Word("crc", b)[1].v = b
        BY <4>1, OneWord DEF HostOps
      <4> QED
        BY <2>1, <4>2 DEF EchoMatches
    <3>2. toHost[1].op = "GET_CODE" /\ toHost[1].i = 1
      BY <2>1 DEF Starts
    <3>3. 1 + 7 <= Len(toHost) /\ 1 + 4 = 5 /\ 1 \in 1 .. Len(toHost)
      BY <1>0, <2>1
    <3> QED
      BY <3>1, <3>2, <3>3 DEF Echoes
  <2>3. NoDone(toHost, 1)
    BY <2>1, <2>2 DEF NoEarlyDone
  <2>4. NoDone(toHost', 0)
    <3>1. 1 \in Nat /\ 0 \in Nat /\ 8 \in Nat /\ 1 <= 0 + 8
      OBVIOUS
    <3> QED
      BY <1>2, <2>1, <2>3, <3>1
  <2> QED
    BY <2>1, <2>4 DEF NoEarlyDone
<1>10. CASE Success \/ SyncDiscard \/ SyncReady \/ SyncDrain \/ SyncAck \/ SendJob
  <2>1. /\ host.pc \in {"success", "sync", "ack", "echo"}
        /\ host'.pc \in {"sync", "ack", "prompt", "got"}
        /\ \/ toHost' = Drop(toHost, 4) /\ Len(toHost) >= 4
           \/ toHost' = Drop(toHost, 5) /\ Len(toHost) >= 5
           \/ toHost' = Drop(toHost, 8) /\ Len(toHost) >= 8
    BY <1>1, <1>3, <1>10
    DEF Success, SyncDiscard, SyncReady, SyncDrain, SyncAck, SendJob, HostReads, HostAt
  <2>2. NoDone(toHost', 0)
    BY <1>5, <2>1 DEF NoEarlyDone
  <2> QED
    BY <2>1, <2>2 DEF NoEarlyDone
<1>11. CASE CodeGot
  <2>1. /\ host.pc = "got" /\ host'.pc = "done" /\ Len(toHost) >= 4 /\ toHost' = Drop(toHost, 4)
    BY <1>1, <1>3, <1>11 DEF CodeGot, HostReads, HostAt
  <2>2. NoDone(toHost, 0) => NoDone(toHost', 0)
    BY <1>5, <2>1
  <2>3. NoDone(toHost, 8) => NoDone(toHost', 4)
    <3>1. 8 \in Nat /\ 4 \in Nat /\ 8 <= 4 + 4
      OBVIOUS
    <3> QED
      BY <1>2, <2>1, <3>1
  <2> QED
    BY <1>0, <2>1, <2>2, <2>3 DEF NoEarlyDone
<1>12. CASE JobDone
  <2>1. /\ host.pc = "done" /\ host'.pc = "prompt" /\ Len(toHost) >= 4 /\ toHost' = Drop(toHost, 4)
    BY <1>1, <1>12 DEF JobDone, HostAt
  <2>2. NoDone(toHost, 0) => NoDone(toHost', 0)
    BY <1>5, <2>1
  <2>3. NoDone(toHost, 4) => NoDone(toHost', 0)
    <3>1. 4 \in Nat /\ 0 \in Nat /\ 4 <= 0 + 4
      OBVIOUS
    <3> QED
      BY <1>2, <2>1, <3>1
  <2> QED
    BY <2>1, <2>2, <2>3 DEF NoEarlyDone
<1> QED
  BY <1>0, <1>4, <1>7, <1>8, <1>9, <1>10, <1>11, <1>12, BootSteps

(* The host reads what repeats, and then the answer to its announcement.    *)
LEMMA HostDrains ==
  ASSUME LineOK, Typed, host.pc = "drain", Echoed => Answered, HostStep
  PROVE  \/ host'.pc = "drain" /\ (Echoed' => Answered')
         \/ host'.pc = "success" /\ Booting'
         \/ host'.pc = "dead"
<1> DEFINE b == host.image
<1>0. /\ host \in HostType /\ toHost \in Seq(Byte) /\ Len(toHost) \in Nat /\ b \in Images
      /\ UNCHANGED <<pi, faults, cmd, relayed>>
  BY BootSteps DEF LineOK, Typed, HostType
<1>1. CASE get_op_string \/ Drain
  <2>1. 8 + TextLen \in Nat /\ 8 \in Nat
    BY BootLoaderAssumption
  <2>2. PICK n \in Nat : Len(toHost) >= n /\ toHost' = Drop(toHost, n)
    BY <1>1, <2>1 DEF get_op_string, Drain
  <2>3. UNCHANGED <<host, toPi>> /\ n \in 0 .. Len(toHost)
    BY <1>0, <1>1, <2>2 DEF get_op_string, Drain
  <2>4. \A j \in 1 .. Len(toHost') : Echoes(toHost', j, b) =>
          j + n \in 1 .. Len(toHost) /\ Echoes(toHost, j + n, b)
    BY <1>0, <2>2, <2>3, HostLineRest
  <2>5. Len(toHost') = Len(toHost) - n
    BY <1>0, <2>2, <2>3, Shifted
  <2>6. ASSUME Echoed' PROVE Answered'
    <3>1. Answered
      BY <2>3, <2>4, <2>6 DEF Echoed
    <3>2. ASSUME NEW j \in 1 .. Len(toHost'), Echoes(toHost', j, b)
          PROVE  j + 7 = Len(toHost') /\ NoDone(toHost', j)
      <4>1. j + n + 7 = Len(toHost) /\ NoDone(toHost, j + n)
        BY <2>4, <3>1, <3>2 DEF Answered
      <4>2. j + 7 = Len(toHost') /\ j \in Nat /\ j + n \in Nat /\ j + n <= j + n
        BY <1>0, <2>5, <4>1
      <4>3. NoDone(Drop(toHost, n), j)
        BY <1>0, <2>3, <4>1, <4>2, NoDoneRest
      <4> QED
        BY <2>2, <4>2, <4>3
    <3> QED
      BY <1>0, <2>3, <3>1, <3>2 DEF Answered
  <2> QED
    BY <2>3, <2>6
<1>2. CASE SendCode
  <2>1. /\ host' = [host EXCEPT !.pc = "success"] /\ Len(toHost) >= 8 /\ toHost' = Drop(toHost, 8)
        /\ Starts("GET_CODE") /\ EchoMatches
        /\ toPi' = toPi \o <<Op("PUT_CODE")>> \o CodeItems(b)
    BY <1>2 DEF SendCode, HostTo
  <2>2. host'.pc = "success" /\ host'.image = b
    BY <1>0, <2>1 DEF HostType
  <2>3. Echoes(toHost, 1, b) /\ 1 \in 1 .. Len(toHost)
    <3>1. toHost[5].v = b
      <4>1. b \in 0 .. Width - 1
        <5>1. b \in 1 .. Width - 1 /\ Width \in Nat
          BY <1>0, Bounds
        <5> QED
          BY <5>1
      <4>2. Word("crc", b)[1].v = b
        BY <4>1, OneWord DEF HostOps
      <4> QED
        BY <2>1, <4>2 DEF EchoMatches
    <3>2. toHost[1].op = "GET_CODE" /\ toHost[1].i = 1
      BY <2>1 DEF Starts
    <3>3. 1 + 7 <= Len(toHost) /\ 1 + 4 = 5 /\ 1 \in 1 .. Len(toHost)
      BY <1>0, <2>1
    <3> QED
      BY <3>1, <3>2, <3>3 DEF Echoes
  <2>4. Answered
    BY <2>3 DEF Echoed
  <2>5. Len(toHost) = 8
    <3>1. 1 + 7 = Len(toHost)
      BY <2>3, <2>4 DEF Answered
    <3> QED
      BY <3>1
  <2>6. toHost' = <<>>
    BY <1>0, <2>1, <2>5 DEF Drop
  <2>7. toPi' = <<Op("PUT_CODE")>> \o CodeItems(b)
    <3> DEFINE o == Op("PUT_CODE")
               c == CodeItems(b)
    <3>1. o \in WordType /\ c \in Seq(WordType)
      BY <1>0, OpTyped, CodeTyped DEF Opcodes
    <3> HIDE DEF o, c
    <3>2. (<<>> \o <<o>>) \o c = <<o>> \o c
      BY <3>1
    <3> QED
      BY <2>1, <2>4, <3>2 DEF Answered, o, c
  <2>8. Booting'
    BY <1>0, <2>2, <2>4, <2>6, <2>7 DEF Booting, Answered
  <2> QED
    BY <2>2, <2>8
<1> QED
  BY <1>0, <1>1, <1>2, BootSteps

(* The host reads what the started program says.                            *)
LEMMA HostBoots ==
  ASSUME LineOK, Typed, host.pc = "success", Booting, HostStep
  PROVE  \/ host'.pc = "success" /\ Booting'
         \/ host'.pc = "sync" /\ Calling'
         \/ host'.pc = "dead"
<1> DEFINE w == Word("BOOT_SUCCESS", 0)
<1>0. /\ host \in HostType /\ UNCHANGED <<pi, faults, cmd, relayed>>
  BY BootSteps DEF LineOK
<1>1. /\ w \in Seq(Byte) /\ Len(w) = 4 /\ \A k \in 1 .. 4 : w[k].op = "BOOT_SUCCESS" /\ w[k].i = k
  <2>1. "BOOT_SUCCESS" \in HostOps /\ 0 \in 0 .. Width - 1
    BY Bounds DEF HostOps
  <2> QED
    BY <2>1, OneWord
<1> HIDE DEF w
<1>2. CASE get_op_string \/ Success
  <2>1. Len(toHost) >= 4 /\ UNCHANGED toPi
    BY <1>2 DEF get_op_string, Success, Starts
  <2>2. toHost # <<>>
    BY <2>1
  <2>3. PICK s : /\ Requests(s)
                 /\ toHost = boot_putk \o (w \o s) \/ toHost = w \o s
    BY <2>2 DEF Booting, w
  <2>4. pi.pc \in {"ready", "ready_wait"} /\ toPi = <<>>
    BY <2>2 DEF Booting
  <2>5. s \in Seq(Byte)
    <3>1. s \in Seq(Undone)
      BY <2>3 DEF Requests
    <3> QED
      BY <3>1, UndoneSilent
  <2>6. CASE toHost = boot_putk \o (w \o s)
    <3> DEFINE t == w \o s
    <3>1. t \in Seq(Byte)
      BY <1>1, <2>5, Put
    <3> HIDE DEF t
    <3>2. Len(boot_putk) >= 4 /\ toHost = boot_putk \o t
      BY <2>6, Greeting DEF t
    <3>3. /\ Starts("PRINT_STRING") /\ \A p : Starts(p) => p = "PRINT_STRING"
          /\ Drop(toHost, Len(boot_putk)) = t
      BY <3>1, <3>2, Greeting, Leads
    <3>4. get_op_string
      BY <1>2, <3>3 DEF Success
    <3>5. UNCHANGED host /\ toHost' = t
      BY <3>3, <3>4, Greeting DEF get_op_string
    <3>6. Booting'
      BY <1>0, <2>1, <2>3, <2>4, <3>5 DEF Booting, t, w
    <3> QED
      BY <3>5, <3>6
  <2>7. CASE toHost = w \o s
    <3>1. /\ \A p : Starts(p) => p = "BOOT_SUCCESS"
          /\ Drop(toHost, Len(w)) = s
      <4>1. /\ w \in Seq(Byte) /\ s \in Seq(Byte) /\ Len(w) >= 4 /\ toHost = w \o s
            /\ \A k \in 1 .. 4 : w[k].op = "BOOT_SUCCESS" /\ w[k].i = k
        BY <1>1, <2>5, <2>7
      <4> QED
        BY <4>1, Leads
    <3>2. Success
      BY <1>2, <3>1 DEF get_op_string
    <3>3. host' = [host EXCEPT !.pc = "sync"] /\ toHost' = s
      BY <1>1, <3>1, <3>2 DEF Success, HostTo
    <3>4. host'.pc = "sync"
      BY <1>0, <3>3 DEF HostType
    <3>5. Calling'
      BY <1>0, <2>1, <2>3, <2>4, <3>3 DEF Calling
    <3> QED
      BY <3>4, <3>5
  <2> QED
    BY <2>3, <2>6, <2>7
<1> QED
  BY <1>0, <1>2, BootSteps

(* A Pi that asks for the shell waits for nobody.                           *)
LEMMA NotWaiting ==
  ASSUME PiWaits
  PROVE  pi.pc \notin {"ready", "ready_wait"} /\ (pi.pc = "unix" => toPi = <<>>)
BY DEF PiWaits, BootWaits, ServerWaits, PiAt

LEMMA HostSyncs ==
  ASSUME LineOK, Typed, host.pc = "sync", Calling, HostStep
  PROVE  host'.pc = "ack" /\ Called'
<1>0. host \in HostType /\ UNCHANGED <<pi, faults, cmd, relayed>>
  BY BootSteps DEF LineOK
<1>1. /\ pi.pc \in {"ready", "ready_wait"} /\ toPi = <<>> /\ Requests(toHost)
  BY DEF Calling
<1>2. ~ PiWaits
  BY <1>1, NotWaiting
<1>3. ~ SyncDiscard
  <2> SUFFICES ASSUME SyncDiscard PROVE FALSE
    OBVIOUS
  <2>1. Len(toHost) >= 5 /\ ~ Starts("PI_READY")
    BY DEF SyncDiscard
  <2>2. toHost # <<>>
    BY <2>1
  <2>3. Len(toHost) >= 4 /\ \A k \in 1 .. 4 : toHost[k].op = "PI_READY" /\ toHost[k].i = k
    BY <1>1, <2>2, RequestsRest
  <2> QED
    BY <2>1, <2>3 DEF Starts
<1>4. SyncReady
  BY <1>0, <1>2, <1>3, BootSteps
<1>5. /\ host' = [host EXCEPT !.pc = "ack"] /\ toHost' = Drop(toHost, 4) /\ Len(toHost) >= 4
      /\ toPi' = Append(toPi, Op("UNIX_READY"))
  BY <1>4 DEF SyncReady, HostReads, HostTo, Starts
<1>6. host'.pc = "ack"
  BY <1>0, <1>5 DEF HostType
<1>7. toPi' = <<Op("UNIX_READY")>>
  BY <1>1, <1>5
<1>8. Requests(toHost')
  BY <1>1, <1>5, RequestsRest
<1> QED
  BY <1>0, <1>1, <1>6, <1>7, <1>8 DEF Called

LEMMA HostAcks ==
  ASSUME LineOK, Typed, host.pc = "ack", Called, HostStep
  PROVE  (host'.pc = "ack" /\ Called') \/ (host'.pc = "prompt" /\ Serving')
<1> DEFINE a == Word("ACK", 0)
<1>0. host \in HostType /\ UNCHANGED <<pi, faults, cmd, relayed>>
  BY BootSteps DEF LineOK
<1>1. a \in Seq(Byte) /\ Len(a) = 4 /\ \A k \in 1 .. 4 : a[k].op = "ACK" /\ a[k].i = k
  <2>1. "ACK" \in HostOps /\ 0 \in 0 .. Width - 1
    BY Bounds DEF HostOps
  <2> QED
    BY <2>1, OneWord
<1> HIDE DEF a
<1>2. \A next : host' = [host EXCEPT !.pc = next] => host'.pc = next
  BY <1>0 DEF HostType
<1>3. ASSUME SyncDrain
      PROVE  host'.pc = "ack" /\ toHost' = Drop(toHost, 4) /\ UNCHANGED toPi /\ Starts("PI_READY")
  BY <1>2, <1>3 DEF SyncDrain, HostReads, HostTo
<1>4. ASSUME SyncAck
      PROVE  host'.pc = "prompt" /\ toHost' = Drop(toHost, 4) /\ UNCHANGED toPi /\ Starts("ACK")
  BY <1>2, <1>4 DEF SyncAck, HostReads, HostTo
<1>5. CASE /\ pi.pc \in {"ready", "ready_wait", "unix"} /\ toPi = <<Op("UNIX_READY")>>
           /\ Requests(toHost)
  <2>1. ~ PiWaits
    BY <1>5, NotWaiting
  <2>2. toHost # <<>>
    BY <2>1, BootSteps, <1>0 DEF SyncDrain, SyncAck, HostReads, Starts
  <2>3. /\ Len(toHost) >= 4 /\ \A k \in 1 .. 4 : toHost[k].op = "PI_READY" /\ toHost[k].i = k
        /\ Requests(Drop(toHost, 4))
    BY <1>5, <2>2, RequestsRest
  <2>4. Starts("PI_READY")
    BY <2>3 DEF Starts
  <2>5. ~ Starts("ACK")
    <3>1. 1 \in 1 .. 4
      OBVIOUS
    <3> QED
      BY <2>3, <3>1 DEF Starts
  <2>6. SyncDrain
    BY <1>0, <1>4, <2>1, <2>4, <2>5, BootSteps
  <2>7. Called'
    BY <1>0, <1>3, <1>5, <2>3, <2>6 DEF Called
  <2> QED
    BY <1>3, <2>6, <2>7
<1>6. CASE pi.pc = "main" /\ toPi = <<>> /\ \E s : Requests(s) /\ toHost = s \o a
  <2>1. PICK s : Requests(s) /\ toHost = s \o a
    BY <1>6
  <2>2. s \in Seq(Undone) /\ s \in Seq(Byte)
    <3>1. s \in Seq(Undone)
      BY <2>1 DEF Requests
    <3> QED
      BY <3>1, UndoneSilent
  <2>3. CASE s = <<>>
    <3>1. toHost = a \o <<>>
      BY <1>1, <2>1, <2>3, NothingBehind
    <3>2. /\ Starts("ACK") /\ \A p : Starts(p) => p = "ACK"
          /\ Drop(toHost, Len(a)) = <<>>
      <4>1. <<>> \in Seq(Byte)
        BY EmptySeq
      <4>2. /\ a \in Seq(Byte) /\ Len(a) >= 4
            /\ \A k \in 1 .. 4 : a[k].op = "ACK" /\ a[k].i = k
        BY <1>1
      <4> QED
        BY <3>1, <4>1, <4>2, Leads
    <3>3. Len(toHost) >= 4
      BY <3>2 DEF Starts
    <3>4. SyncAck
      <4>1. Len(toHost) \in Nat
        BY DEF Typed
      <4>2. ~ (Len(toHost) < 4)
        BY <3>3, <4>1
      <4> QED
        BY <1>0, <1>3, <3>2, <4>2, BootSteps
    <3>5. host'.pc = "prompt" /\ toHost' = <<>> /\ toPi' = <<>>
      BY <1>1, <1>4, <1>6, <3>2, <3>4
    <3>6. toPi' \in Seq(Mute)
      BY <3>5, EmptySeq
    <3> QED
      BY <1>0, <1>6, <3>5, <3>6 DEF Serving
  <2>4. CASE s # <<>>
    <3>1. /\ Len(s) >= 4 /\ \A k \in 1 .. 4 : s[k].op = "PI_READY" /\ s[k].i = k
          /\ Requests(Drop(s, 4))
      BY <2>1, <2>4, RequestsRest
    <3>2. Starts("PI_READY") /\ \A p : Starts(p) => p = "PI_READY"
      <4>1. /\ s \in Seq(Byte) /\ a \in Seq(Byte) /\ Len(s) >= 4 /\ toHost = s \o a
            /\ \A k \in 1 .. 4 : s[k].op = "PI_READY" /\ s[k].i = k
        BY <1>1, <2>1, <2>2, <3>1
      <4> QED
        BY <4>1, Leads
    <3>3. SyncDrain
      <4>1. Len(toHost) \in Nat /\ Len(toHost) >= 4
        BY <3>2 DEF Typed, Starts
      <4>2. ~ (Len(toHost) < 4)
        BY <4>1
      <4> QED
        BY <1>0, <1>4, <3>2, <4>2, BootSteps
    <3>4. 4 \in 0 .. Len(s)
      BY <2>2, <3>1
    <3>5. toHost' = Drop(s, 4) \o a
      <4>1. s \in Seq(Byte) /\ a \in Seq(Byte)
        BY <1>1, <2>2
      <4>2. Drop(s \o a, 4) = Drop(s, 4) \o a
        BY <3>4, <4>1, RestOfJoin
      <4> QED
        BY <1>3, <2>1, <3>3, <4>2
    <3>6. Called'
      BY <1>0, <1>3, <1>6, <3>1, <3>3, <3>5 DEF Called, a
    <3> QED
      BY <1>3, <3>3, <3>6
  <2> QED
    BY <2>3, <2>4
<1> QED
  BY <1>5, <1>6 DEF Called, a

(* The steps of the two programs.                                           *)
LEMMA HostPhase ==
  ASSUME Sessions, LineOK, PiOK, Typed, Phase, HostStep
  PROVE  Phase'
<1>0. /\ host \in HostType /\ toHost \in Seq(Byte) /\ host.image \in Images
      /\ Len(toHost) \in Nat /\ UNCHANGED <<pi, faults, cmd, relayed>>
  BY BootSteps DEF LineOK, Typed, HostType
<1>1. host.pc \notin Stopped
  BY <1>0, BootSteps
<1>2. host'.pc = "dead" => Phase'
  BY DEF Phase, Stopped
<1>3. CASE host.pc = "get_info"
  <2>1. CASE get_op_string \/ Discard
    <3>1. UNCHANGED host
      BY <2>1 DEF get_op_string, Discard
    <3> QED
      BY <1>3, <3>1 DEF Phase
  <2>2. CASE ReplyInfo
    <3>1. /\ host'.pc = "drain" /\ host'.image = host.image
          /\ 4 \in 0 .. Len(toHost) /\ toHost' = Drop(toHost, 4)
      BY <1>0, <2>2 DEF ReplyInfo, HostTo, HostType, Starts
    <3>2. ~ Begun
      BY <1>3 DEF Sessions, Confirmed, Stopped
    <3>3. \A j \in 1 .. Len(toHost') : Echoes(toHost', j, host.image) =>
            j + 4 \in 1 .. Len(toHost) /\ Echoes(toHost, j + 4, host.image)
      BY <1>0, <3>1, HostLineRest
    <3>4. ~ Echoed'
      BY <3>1, <3>2, <3>3 DEF Begun, Echoed
    <3> QED
      BY <3>1, <3>4 DEF Phase
  <2> QED
    BY <1>0, <1>2, <1>3, <2>1, <2>2, BootSteps
<1>4. CASE host.pc = "drain" /\ (Echoed => Answered)
  BY <1>2, <1>4, HostDrains DEF Phase
<1>5. CASE host.pc = "success" /\ Booting
  BY <1>2, <1>5, HostBoots DEF Phase
<1>6. CASE host.pc = "sync" /\ Calling
  BY <1>6, HostSyncs DEF Phase
<1>7. CASE host.pc = "ack" /\ Called
  BY <1>7, HostAcks DEF Phase
<1>8. CASE Serving
  BY <1>8, HostServing DEF Phase
<1>9. CASE Lost
  <2>1. NoEarlyDone'
    BY <1>9, HostDone DEF Lost
  <2>2. Lost'
    BY <1>0, <1>9, <2>1 DEF Lost
  <2> QED
    BY <2>2 DEF Phase
<1> QED
  BY <1>1, <1>3, <1>4, <1>5, <1>6, <1>7, <1>8, <1>9 DEF Phase

LEMMA PiKeepsHost ==
  ASSUME PiStep \/ PiRepeats
  PROVE  UNCHANGED <<host, cmd, faults>>
BY DEF PiStep, PiRepeats, HasData, ProgInfo, PutCode, WrongOp, Copy, CopyDone, Up,
       HasOp, UnixReady, Exit, Run, IgnoreOp, RunArgs, SendCodeOp, ServerWrongOp,
       LoadJob, JobLoaded, Relay, CopyWords, PiReads, PiSends, boot_err,
       wait_for_data, wait_for_op, Keep

(* While the host waits for GET_CODE.                                       *)
LEMMA PiDrained ==
  ASSUME Width \div 2 - 1 \notin Images, Sessions, LineOK, PiOK, Typed, faults.flips = 0,
         host.pc = "drain", Echoed => Answered, PiStep \/ PiRepeats
  PROVE  Echoed' => Answered'
<1>0. host \in HostType /\ toHost \in Seq(Byte) /\ host.image \in Images /\ UNCHANGED host
  BY PiKeepsHost DEF LineOK, Typed, HostType
<1>1. CASE Echoed
  <2>1. pi.pc = "code" /\ toPi = <<>>
    BY <1>1 DEF Answered
  <2>2. PutCode \/ (WrongOp /\ Other32("PUT_CODE"))
    BY <2>1, LoaderSteps
  <2> QED
    BY <2>1, <2>2 DEF PutCode, Next32, Other32
<1>2. CASE ~ Echoed
  <2>1. CASE TakesInfo
    <3>1. Sessions'
      BY PiSession
    <3> QED
      BY <1>2, <2>1, <3>1, PiAnswers
  <2>2. CASE TakesImage \/ GoesOn
    <3>1. toHost' = toHost \/ \E s \in Seq(Uncoded) : toHost' = ToHost(s)
      BY <2>2, SaidUncoded DEF TakesImage, GoesOn, PiSends
    <3>2. \A j \in 1 .. Len(toHost') : Echoes(toHost', j, host.image) =>
            \E i \in 1 .. Len(toHost) : Echoes(toHost, i, host.image)
      BY <1>0, <3>1, SaysSilently DEF Sessions
    <3>3. ~ Echoed'
      BY <1>0, <1>2, <3>2 DEF Echoed
    <3> QED
      BY <3>3
  <2> QED
    BY <2>1, <2>2, PiMoves
<1> QED
  BY <1>1, <1>2

LEMMA PiPhase ==
  ASSUME Width \div 2 - 1 \notin Images, Sessions, LineOK, PiOK, Typed, faults.flips = 0,
         Phase, PiStep \/ PiRepeats
  PROVE  Phase'
<1>0. UNCHANGED host
  BY PiKeepsHost
<1>1. CASE host.pc \in Stopped \cup {"get_info"}
  BY <1>0, <1>1 DEF Phase
<1>2. CASE host.pc = "drain" /\ (Echoed => Answered)
  BY <1>0, <1>2, PiDrained DEF Phase
<1>3. CASE host.pc = "success" /\ Booting
  <2>1. Confirmed
    BY <1>3 DEF Sessions, Begun, Stopped
  <2> QED
    BY <1>0, <1>3, <2>1, PiBoots DEF Phase
<1>4. CASE host.pc = "sync" /\ Calling
  BY <1>0, <1>4, PiCalls DEF Phase, Stopped
<1>5. CASE host.pc = "ack" /\ Called
  BY <1>0, <1>5, PiCalled DEF Phase, Stopped
<1>6. CASE Serving
  BY <1>6, PiServing DEF Phase
<1>7. CASE Lost /\ host.pc \notin Stopped \cup {"get_info"} /\ ~ (host.pc = "drain" /\ ~ Echoed)
  <2>1. host.pc \in {"drain", "success"} \cup Booted
    BY <1>7 DEF LineOK, HostType, HostPcs, Stopped, Booted
  <2>2. Begun
    BY <1>7, <2>1 DEF Begun, Echoed
  <2>3. NoInfo(toPi) /\ EchoWhole(toHost)
    BY <1>7, <2>2 DEF Sessions, Confirmed
  <2> QED
    BY <1>7, <2>3, PiLost DEF Phase
<1> QED
  BY <1>1, <1>2, <1>3, <1>4, <1>5, <1>6, <1>7 DEF Phase

(* The user and the faults.                                                 *)
LEMMA UserPhase ==
  ASSUME LineOK, Typed, Phase, UserStep
  PROVE  Phase'
<1>0. /\ host \in HostType /\ host.pc = "prompt"
      /\ UNCHANGED <<pi, toHost, faults, relayed>>
  BY DEF LineOK, Typed, UserStep, ExitCommand, OtherCommand, RunCommand, Command, HostAt
<1>1. host'.pc \in {"exit", "prompt", "echo"}
  BY <1>0 DEF UserStep, ExitCommand, OtherCommand, RunCommand, HostTo, HostType
<1>2. CASE host'.pc = "exit"
  BY <1>2 DEF Phase, Stopped
<1>3. CASE host'.pc # "exit" /\ Serving
  <2>1. Dialogue'
    BY <1>3, UserDialogue DEF Dialogue
  <2>2. Serving'
    BY <1>1, <1>3, <2>1 DEF Dialogue, Before, Abandoned
  <2> QED
    BY <2>2 DEF Phase
<1>4. CASE host'.pc # "exit" /\ Lost
  <2>1. NoDone(toHost', 0)
    BY <1>0, <1>4 DEF Lost, NoEarlyDone
  <2>2. NoEarlyDone'
    BY <1>1, <1>4, <2>1 DEF NoEarlyDone
  <2> QED
    BY <1>0, <1>4, <2>2 DEF Phase, Lost
<1> QED
  BY <1>0, <1>2, <1>3, <1>4 DEF Phase, Stopped

LEMMA ResetPhase ==
  ASSUME Sessions, LineOK, Typed, faults \in FaultType, Phase, Reset /\ Keep
  PROVE  Phase'
<1>0. /\ host \in HostType /\ toHost \in Seq(Byte) /\ EchoWhole(toHost)
      /\ UNCHANGED <<host, cmd, relayed>>
  BY DEF LineOK, Typed, Sessions, Reset, Keep
<1>1. PICK k \in Cuts : toHost' = ToHost(Junk(k))
  BY DEF Reset
<1>2. Junk(k) \in Seq(Undone) /\ Junk(k) \in Seq(Uncoded)
  <2>1. k \in Nat
    BY BootLoaderAssumption
  <2> QED
    BY <2>1, UndoneWords, UncodedWords
<1>3. NoEarlyDone'
  <2>1. NoEarlyDone
    BY PhaseDone
  <2> QED
    BY <1>0, <1>1, <1>2, <2>1, HearsDone
<1>4. faults'.resets # 0
  BY FaultsRemembered DEF Reset
<1>5. pi'.pc = "down"
  BY DEF Reset, Rebooting
<1> QED
  BY <1>3, <1>4, <1>5 DEF Phase, Lost

PhaseInv == SessionsInv /\ (faults.flips = 0 => Phase)

LEMMA InitPhase == ShellInit => PhaseInv
BY InitSessions DEF PhaseInv, Phase, ShellInit, Init

LEMMA StaysUndamaged ==
  ASSUME faults \in FaultType, [ShellNext]_shellVars, faults'.flips = 0
  PROVE  faults.flips = 0 /\ ~ Flip
<1>1. ~ Flip
  <2>1. Flip => faults' = [faults EXCEPT !.flips = @ + 1]
    BY DEF Flip
  <2> QED
    BY <2>1, FaultsRemembered
<1>2. CASE Reset \/ Restart
  <2>1. faults'.flips = faults.flips
    BY <1>2 DEF Reset, Restart, FaultType
  <2> QED
    BY <1>1, <2>1
<1>3. CASE ~ Reset /\ ~ Restart
  <2>1. UNCHANGED faults
    BY <1>1, <1>3, FaultSteps
  <2> QED
    BY <1>1, <2>1
<1> QED
  BY <1>2, <1>3

LEMMA PhaseParts ==
  ASSUME PhaseInv, faults.flips = 0
  PROVE  /\ Sessions /\ LineOK /\ PiOK /\ Typed /\ Phase
         /\ faults \in FaultType /\ host \in HostType
<1>1. Harmless /\ Trusted
  BY DEF Harmless, Trusted
<1> QED
  BY <1>1 DEF PhaseInv, SessionsInv, TrustedInv, LoadInv, LineOK

LEMMA NextPhase ==
  ASSUME Width \div 2 - 1 \notin Images
  PROVE  PhaseInv /\ [CleanNext]_shellVars => PhaseInv'
<1> SUFFICES ASSUME PhaseInv, [CleanNext]_shellVars, faults'.flips = 0 PROVE Phase'
  BY NextSessions DEF PhaseInv
<1>1. [ShellNext]_shellVars /\ faults \in FaultType
  BY DEF CleanNext, PhaseInv, SessionsInv, TrustedInv
<1>2. faults.flips = 0 /\ ~ Flip
  BY <1>1, StaysUndamaged
<1>3. Sessions /\ LineOK /\ PiOK /\ Typed /\ Phase /\ host \in HostType
  BY <1>2, PhaseParts
<1>4. CASE UNCHANGED shellVars
  <2>1. UNCHANGED <<host, pi, toPi, toHost, cmd, relayed, faults>>
    BY <1>4 DEF shellVars, vars
  <2>2. (Echoed <=> Echoed') /\ (Answered => Answered') /\ (Booting => Booting')
    BY <2>1 DEF Echoed, Answered, Booting
  <2>3. (Calling => Calling') /\ (Called => Called')
    BY <2>1 DEF Calling, Called
  <2>4. Serving => Serving'
    BY <2>1 DEF Serving, Asked, Loading, Relaying
  <2>5. Lost => Lost'
    BY <2>1 DEF Lost, NoEarlyDone
  <2> QED
    BY <1>3, <2>1, <2>2, <2>3, <2>4, <2>5 DEF Phase
<1>5. CASE HostStep
  BY <1>3, <1>5, HostPhase
<1>6. CASE PiStep \/ PiRepeats
  BY <1>2, <1>3, <1>6, PiPhase
<1>7. CASE UserStep
  BY <1>3, <1>7, UserPhase
<1>8. CASE Reset /\ Keep
  BY <1>1, <1>3, <1>8, ResetPhase
<1>9. CASE Restart
  <2>1. host'.pc = "get_info"
    BY <1>3, <1>9 DEF Restart, HostType
  <2> QED
    BY <2>1 DEF Phase
<1> QED
  BY <1>1, <1>2, <1>4, <1>5, <1>6, <1>7, <1>8, <1>9 DEF ShellNext

LEMMA PhaseProved ==
  ASSUME Width \div 2 - 1 \notin Images
  PROVE  CleanSpec => []PhaseInv
BY InitPhase, NextPhase, PTL DEF CleanSpec

(* Only a step of the host itself, or a restart, moves the host on.         *)
LEMMA HostGoes ==
  ASSUME host \in HostType, ShellNext
  PROVE  \/ HostStep
         \/ UNCHANGED host
         \/ host.pc = "prompt" /\ host'.pc \in {"exit", "prompt", "echo"}
         \/ host'.pc = "get_info"
<1>1. CASE UserStep
  <2>1. host.pc = "prompt"
    BY <1>1 DEF UserStep, ExitCommand, OtherCommand, RunCommand, Command, HostAt
  <2>2. host'.pc \in {"exit", "prompt", "echo"}
    BY <1>1, <2>1 DEF UserStep, ExitCommand, OtherCommand, RunCommand, HostTo, HostType
  <2> QED
    BY <2>1, <2>2
<1>2. CASE PiStep \/ PiRepeats
  BY <1>2, PiKeepsHost
<1>3. CASE Restart
  BY <1>3 DEF Restart, HostType
<1>4. CASE Reset \/ Flip
  BY <1>4 DEF Reset, Flip
<1> QED
  BY <1>1, <1>2, <1>3, <1>4 DEF ShellNext

(* Behind simple_boot (synchronize, exec_command) nothing but a reset or a  *)
(* damaged word makes the shell die, as long as restarts are clean: what    *)
(* the Pi repeats is drained, every reply is the one to its own request,    *)
(* and no command leaves anything on the line that the next would read.     *)
THEOREM ShellSurvives ==
  ASSUME Width \div 2 - 1 \notin Images
  PROVE  CleanSpec => DiesOfFaultsOnly
<1>1. PhaseInv /\ [CleanNext]_shellVars =>
        [host.pc \in Booted /\ host'.pc = "dead" => faults.resets + faults.flips > 0]_shellVars
  <2> SUFFICES ASSUME PhaseInv, ShellNext, host.pc \in Booted, host'.pc = "dead",
                      ~ (faults.resets + faults.flips > 0)
               PROVE  FALSE
    BY DEF CleanNext
  <2>1. faults.resets = 0 /\ faults.flips = 0
    <3>1. faults.resets \in Nat /\ faults.flips \in Nat
      BY BootLoaderAssumption DEF PhaseInv, SessionsInv, TrustedInv, FaultType
    <3> QED
      BY <3>1
  <2>2. LineOK /\ PiOK /\ Typed /\ Phase /\ host \in HostType
    BY <2>1, PhaseParts
  <2>3. \/ host.pc = "sync" /\ Calling
        \/ host.pc = "ack" /\ Called
        \/ Serving
    BY <2>1, <2>2 DEF Phase, Lost, Booted, Stopped
  <2>4. HostStep
    BY <2>2, HostGoes DEF Booted
  <2> QED
    BY <2>2, <2>3, <2>4, HostSyncs, HostAcks, HostServing
<1> QED
  BY <1>1, PhaseProved, PTL DEF CleanSpec, DiesOfFaultsOnly

(* The host that reads DONE (send_prog) reads the answer to its own job,    *)
(* which the server has sent to the clients, whatever is reset meanwhile    *)
(* and whichever hosts were killed before, as long as restarts are clean:   *)
(* no DONE is older than the session, and a Pi reset in it sends no other.  *)
THEOREM JobsAnswered ==
  ASSUME Width \div 2 - 1 \notin Images
  PROVE  CleanSpec => JobAnswered
<1>1. PhaseInv /\ [CleanNext]_shellVars =>
        [host.pc = "done" /\ host'.pc = "prompt" /\ Starts("DONE") /\ faults.flips = 0
           => relayed = Code(cmd.job)]_shellVars
  <2> SUFFICES ASSUME PhaseInv, ShellNext, host.pc = "done", host'.pc = "prompt",
                      Starts("DONE"), faults.flips = 0
               PROVE  relayed = Code(cmd.job)
    BY DEF CleanNext
  <2>1. LineOK /\ PiOK /\ Typed /\ Phase /\ host \in HostType
    BY PhaseParts
  <2>2. HostStep
    BY <2>1, HostGoes
  <2>3. CASE Serving
    BY <2>1, <2>2, <2>3, HostServing
  <2>4. CASE Lost
    <3>1. toHost[1].op = "DONE" /\ 1 \in 1 .. Len(toHost)
      BY <2>1 DEF Starts, Typed
    <3>2. ~ NoDone(toHost, 0)
      BY <3>1 DEF NoDone
    <3> QED
      BY <2>4, <3>2 DEF Lost, NoEarlyDone
  <2> QED
    BY <2>1, <2>3, <2>4 DEF Phase, Stopped
<1> QED
  BY <1>1, PhaseProved, PTL DEF CleanSpec, JobAnswered
==============================================================================
