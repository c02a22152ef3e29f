--------------------------- MODULE EspRelay_proofs ---------------------------
(***************************************************************************)
(* Proofs about EspRelay, for every set of clients, every size and number  *)
(* of messages: when the server's ESP can hang, what arrives, and what is  *)
(* missing.                                                                *)
(***************************************************************************)
EXTENDS EspRelay, FiniteSetTheorems, TLAPS

PacketType == [isCmd : BOOLEAN, from : Clients \cup Others, msg : Nat, k : Nat]

Piece == [msg : Nat, k : Nat]

EntryType == [has_cmd : BOOLEAN, totPckts : Nat, data : Seq(Piece)]

HistType ==
  [sent : [Clients -> Seq(Nat \ {0})], lost : [Clients -> Nat], strays : [Clients -> Nat],
   cncts : [Clients -> Nat], downs : Nat]

Packets == Seq(PacketType)

RelayTypes ==
  /\ job \in [Clients -> Nat]
  /\ ip \in [Clients -> BOOLEAN]
  /\ conn \in [Clients -> {"none", "waiting", "accepted"}]
  /\ waiting \in [Clients -> Seq(Packets)]
  /\ wifiArr \in SUBSET Clients
  /\ gone \in SUBSET Clients
  /\ up \in [Clients -> Packets]
  /\ down \in SUBSET Clients
  /\ server \in [hung : BOOLEAN, client : Clients \cup {NoClient}]
  /\ entry \in [Clients -> EntryType]
  /\ queue \in [Clients -> Seq(Seq(Piece))]
  /\ hist \in HistType

(* The types of one client's part.                                          *)
LEMMA Part ==
  ASSUME RelayTypes, NEW c \in Clients
  PROVE  /\ job[c] \in Nat /\ waiting[c] \in Seq(Packets) /\ up[c] \in Packets
         /\ entry[c] \in EntryType /\ queue[c] \in Seq(Seq(Piece)) /\ Len(queue[c]) \in Nat
         /\ hist.sent[c] \in Seq(Nat \ {0}) /\ hist.sent[c] \in Seq(Nat)
         /\ Len(hist.sent[c]) \in Nat /\ Len(waiting[c]) \in Nat /\ Len(up[c]) \in Nat
         /\ hist.lost[c] \in Nat /\ hist.strays[c] \in Nat /\ hist.cncts[c] \in Nat
         /\ conn[c] \in {"none", "waiting", "accepted"} /\ ip[c] \in BOOLEAN
BY SMTT(30) DEF RelayTypes, HistType, Packets

(* A sequence with one more, and without its first.                         *)
LEMMA Came ==
  ASSUME NEW S, NEW s \in Seq(S), NEW x \in S
  PROVE  /\ Append(s, x) \in Seq(S) /\ Len(Append(s, x)) = Len(s) + 1
         /\ \A i \in 1 .. Len(s) : Append(s, x)[i] = s[i]
         /\ Append(s, x)[Len(s) + 1] = x
OBVIOUS

LEMMA Left ==
  ASSUME NEW S, NEW s \in Seq(S), s # <<>>
  PROVE  /\ Head(s) = s[1] /\ Head(s) \in S /\ 1 \in 1 .. Len(s) /\ Len(s) \in Nat
         /\ Tail(s) \in Seq(S) /\ Len(Tail(s)) = Len(s) - 1
         /\ \A i \in 1 .. Len(s) - 1 : Tail(s)[i] = s[i + 1]
OBVIOUS

LEMMA Joined ==
  ASSUME NEW S, NEW s \in Seq(S), NEW w \in Seq(S)
  PROVE  /\ s \o w \in Seq(S) /\ Len(s \o w) = Len(s) + Len(w)
         /\ \A i \in 1 .. Len(s) : (s \o w)[i] = s[i]
         /\ \A i \in 1 .. Len(w) : (s \o w)[Len(s) + i] = w[i]
OBVIOUS

LEMMA NoMsgFacts ==
  /\ NoMsg \in EntryType /\ NoMsg.has_cmd = FALSE /\ NoMsg.totPckts = 0 /\ NoMsg.data = <<>>
<1>1. <<>> \in Seq(Piece)
  OBVIOUS
<1> QED
  BY <1>1 DEF NoMsg, EntryType

LEMMA InitTypes == Init => RelayTypes
<1>1. /\ <<>> \in Packets /\ <<>> \in Seq(Packets) /\ <<>> \in Seq(Seq(Piece))
      /\ <<>> \in Seq(Nat \ {0})
  BY DEF Packets
<1> QED
  BY <1>1, NoMsgFacts DEF Init, RelayTypes, HistType

(* What send_msg writes.                                                    *)
LEMMA WireType ==
  ASSUME NEW c \in Clients, NEW m \in Nat, NEW z \in Nat \ {0},
         NEW x \in [1 .. z - 1 -> Clients \cup Others]
  PROVE  /\ Wire(c, m, z, x) \in Packets /\ Len(Wire(c, m, z, x)) = z + 1
         /\ Wire(c, m, z, x)[1] = Packet(TRUE, c, m, z)
         /\ Wire(c, m, z, x)[2] = Packet(FALSE, c, m, 1)
         /\ \A i \in 3 .. z + 1 : Wire(c, m, z, x)[i] = Packet(FALSE, x[i - 2], m, 0)
<1> DEFINE a == <<Packet(TRUE, c, m, z), Packet(FALSE, c, m, 1)>>
           b == [i \in 1 .. z - 1 |-> Packet(FALSE, x[i], m, 0)]
<1>1. /\ a \in Seq(PacketType) /\ Len(a) = 2
      /\ a[1] = Packet(TRUE, c, m, z) /\ a[2] = Packet(FALSE, c, m, 1)
  BY DEF PacketType, Packet
<1>2. \A i \in 1 .. z - 1 : Packet(FALSE, x[i], m, 0) \in PacketType
  BY DEF PacketType, Packet
<1>3. b \in Seq(PacketType) /\ Len(b) = z - 1
  <2>1. z - 1 \in Nat
    OBVIOUS
  <2>2. b \in [1 .. z - 1 -> PacketType]
    BY <1>2
  <2> HIDE DEF b
  <2> QED
    BY <2>1, <2>2
<1>4. \A i \in 1 .. z - 1 : b[i] = Packet(FALSE, x[i], m, 0)
  OBVIOUS
<1>5. Wire(c, m, z, x) = a \o b
  BY DEF Wire
<1> HIDE DEF a, b
<1>6. /\ a \o b \in Seq(PacketType) /\ Len(a \o b) = 2 + (z - 1)
      /\ \A i \in 1 .. 2 : (a \o b)[i] = a[i]
      /\ \A i \in 1 .. z - 1 : (a \o b)[2 + i] = b[i]
  <2>1. a \in Seq(PacketType) /\ b \in Seq(PacketType)
    BY <1>1, <1>3
  <2>2. /\ a \o b \in Seq(PacketType) /\ Len(a \o b) = Len(a) + Len(b)
        /\ \A i \in 1 .. Len(a) : (a \o b)[i] = a[i]
        /\ \A i \in 1 .. Len(b) : (a \o b)[Len(a) + i] = b[i]
    BY <2>1, Joined
  <2> QED
    BY <1>1, <1>3, <2>2
<1>7. \A i \in 3 .. z + 1 : i - 2 \in 1 .. z - 1 /\ 2 + (i - 2) = i
  OBVIOUS
<1>8. \A i \in 3 .. z + 1 : (a \o b)[i] = Packet(FALSE, x[i - 2], m, 0)
  BY <1>4, <1>6, <1>7
<1>9. 1 \in 1 .. 2 /\ 2 \in 1 .. 2 /\ 2 + (z - 1) = z + 1
  OBVIOUS
<1> QED
  BY <1>1, <1>5, <1>6, <1>8, <1>9 DEF Packets

LEMMA LongerType ==
  ASSUME NEW s \in Packets, NEW w \in Packets
  PROVE  s \o w \in Packets
BY Joined DEF Packets

(* The types of waiting, where a connection is made, written to, accepted.  *)
LEMMA WaitingType ==
  ASSUME RelayTypes, NEW c \in Clients
  PROVE  /\ [waiting EXCEPT ![c] = Append(@, <<>>)] \in [Clients -> Seq(Packets)]
         /\ \A w \in Packets :
              [waiting EXCEPT ![c][Len(waiting[c])] = @ \o w] \in [Clients -> Seq(Packets)]
         /\ waiting[c] # <<>> =>
              /\ Head(waiting[c]) \in Packets
              /\ [waiting EXCEPT ![c] = Tail(@)] \in [Clients -> Seq(Packets)]
<1>1. waiting \in [Clients -> Seq(Packets)] /\ waiting[c] \in Seq(Packets) /\ <<>> \in Packets
  BY DEF RelayTypes, Packets
<1>2. Append(waiting[c], <<>>) \in Seq(Packets)
  BY <1>1, Came
<1>3. waiting[c] # <<>> => Head(waiting[c]) \in Packets /\ Tail(waiting[c]) \in Seq(Packets)
  BY <1>1, Left
<1>4. ASSUME NEW w \in Packets
      PROVE  [waiting EXCEPT ![c][Len(waiting[c])] = @ \o w] \in [Clients -> Seq(Packets)]
  <2> DEFINE s == waiting[c]
             r == [s EXCEPT ![Len(s)] = s[Len(s)] \o w]
  <2>1. s \in Seq(Packets)
    BY <1>1
  <2>2. \A i \in 1 .. Len(s) : s[i] \in Packets
    BY <2>1
  <2>3. Len(s) \in 1 .. Len(s) => s[Len(s)] \o w \in Packets
    BY <2>2, LongerType
  <2>4. r \in Seq(Packets)
    <3> HIDE DEF s
    <3>1. Len(s) \in Nat /\ s \in [1 .. Len(s) -> Packets]
      BY <2>1
    <3>2. r \in [1 .. Len(s) -> Packets]
      BY <2>3, <3>1
    <3> HIDE DEF r
    <3> QED
      BY <3>1, <3>2
  <2>5. [waiting EXCEPT ![c][Len(waiting[c])] = @ \o w] = [waiting EXCEPT ![c] = r]
    BY <1>1
  <2> HIDE DEF r
  <2> QED
    BY <1>1, <2>4, <2>5
<1> QED
  BY <1>1, <1>2, <1>3, <1>4

(* Each action keeps the types of what it changes.                          *)
LEMMA NextTypes == RelayTypes /\ [Next]_vars => RelayTypes'
<1> SUFFICES ASSUME RelayTypes, [Next]_vars PROVE RelayTypes'
  OBVIOUS
<1> USE DEF RelayTypes
<1>1. ASSUME NEW c \in Clients, NEW z \in Sizes, send_cmd(c, z) PROVE RelayTypes'
  <2>1. z \in Nat \ {0} /\ z \in Nat
    BY EspRelayAssumption
  <2>2. Append(hist.sent[c], z) \in Seq(Nat \ {0})
    BY <2>1, Part, Came
  <2>3. hist' = [hist EXCEPT !.sent = [hist.sent EXCEPT ![c] = Append(hist.sent[c], z)]]
    BY <1>1 DEF send_cmd
  <2>4. hist' \in HistType
    BY <2>2, <2>3 DEF HistType
  <2> QED
    BY <1>1, <2>1, <2>4 DEF send_cmd, piVars
<1>2. ASSUME NEW c \in Clients, NEW r \in BOOLEAN, ConnectTo(c, r)
      PROVE  /\ conn' \in [Clients -> {"none", "waiting", "accepted"}]
             /\ waiting' \in [Clients -> Seq(Packets)] /\ down' \in SUBSET Clients
  BY <1>2, WaitingType DEF ConnectTo
<1>3. ASSUME NEW c \in Clients, client_wifi_cnct(c) PROVE RelayTypes'
  <2>1. PICK r \in BOOLEAN : ConnectTo(c, r)
    BY <1>3 DEF client_wifi_cnct
  <2>2. hist' = [hist EXCEPT !.cncts = [hist.cncts EXCEPT ![c] = hist.cncts[c] + 1]]
    BY <1>3 DEF client_wifi_cnct
  <2>3. hist.cncts[c] + 1 \in Nat
    BY Part
  <2>4. hist' \in HistType
    BY <2>2, <2>3 DEF HistType
  <2> QED
    BY <1>2, <1>3, <2>1, <2>4 DEF client_wifi_cnct, piVars
<1>4. ASSUME NEW c \in Clients, connect(c) PROVE RelayTypes'
  BY <1>2, <1>4 DEF connect, piVars
<1>5. ASSUME NEW c \in Clients, send_msg(c) PROVE RelayTypes'
  <2>1. PICK x \in [1 .. job[c] - 1 -> Clients \cup Others] :
          LET w == Wire(c, Len(hist.sent[c]), job[c], x)
          IN  IF conn[c] = "waiting"
                THEN waiting' = [waiting EXCEPT ![c][Len(waiting[c])] = @ \o w] /\ UNCHANGED up
                ELSE up' = [up EXCEPT ![c] = @ \o w] /\ UNCHANGED waiting
    BY <1>5 DEF send_msg
  <2> DEFINE w == Wire(c, Len(hist.sent[c]), job[c], x)
  <2>2. w \in Packets
    <3>1. job[c] \in Nat \ {0} /\ Len(hist.sent[c]) \in Nat
      BY <1>5, Part DEF send_msg
    <3> QED
      BY <3>1, WireType
  <2> HIDE DEF w
  <2>3. up[c] \o w \in Packets
    BY <2>2, LongerType, Part
  <2>4. waiting' \in [Clients -> Seq(Packets)] /\ up' \in [Clients -> Packets]
    <3>1. \/ waiting' = [waiting EXCEPT ![c][Len(waiting[c])] = @ \o w] /\ UNCHANGED up
          \/ up' = [up EXCEPT ![c] = up[c] \o w] /\ UNCHANGED waiting
      BY <2>1 DEF w
    <3>2. [waiting EXCEPT ![c][Len(waiting[c])] = @ \o w] \in [Clients -> Seq(Packets)]
      BY <2>2, WaitingType
    <3> QED
      BY <2>3, <3>1, <3>2, ZenonT(40)
  <2> QED
    BY <1>5, <2>4 DEF send_msg, piVars
<1>6. ASSUME NEW c \in Clients, ClientRelay(c) PROVE RelayTypes'
  <2>1. hist' \in HistType
    <3>1. CASE UNCHANGED hist
      BY <3>1
    <3>2. ASSUME hist' = [hist EXCEPT !.lost[c] = IF job[c] = 0 THEN @ ELSE @ + job[c] + 1]
          PROVE  hist' \in HistType
      <4>1. hist' = [hist EXCEPT !.lost = [hist.lost EXCEPT ![c] =
                       IF job[c] = 0 THEN hist.lost[c] ELSE hist.lost[c] + job[c] + 1]]
        BY <3>2
      <4>2. (IF job[c] = 0 THEN hist.lost[c] ELSE hist.lost[c] + job[c] + 1) \in Nat
        BY Part
      <4> QED
        BY <4>1, <4>2 DEF HistType
    <3> QED
      BY <1>6, <3>1, <3>2 DEF ClientRelay
  <2>2. /\ down' \in SUBSET Clients /\ gone' \in SUBSET Clients
        /\ UNCHANGED <<waiting, wifiArr, up, server, entry, queue>>
    BY <1>6 DEF ClientRelay, piVars
  <2>3. /\ job' \in [Clients -> Nat] /\ ip' \in [Clients -> BOOLEAN]
        /\ conn' \in [Clients -> {"none", "waiting", "accepted"}]
    <3>1. job' = job \/ job' = [job EXCEPT ![c] = 0]
      BY <1>6 DEF ClientRelay
    <3>2. ip' = ip \/ ip' = [ip EXCEPT ![c] = FALSE]
      BY <1>6 DEF ClientRelay
    <3>3. conn' = conn \/ conn' = [conn EXCEPT ![c] = "none"]
      BY <1>6 DEF ClientRelay
    <3>4. job' \in [Clients -> Nat]
      BY <3>1
    <3>5. ip' \in [Clients -> BOOLEAN]
      <4>1. FALSE \in BOOLEAN /\ ip \in [Clients -> BOOLEAN]
        OBVIOUS
      <4> QED
        BY <3>2, <4>1, Zenon
    <3>6. conn' \in [Clients -> {"none", "waiting", "accepted"}]
      BY <3>3
    <3> QED
      BY <3>4, <3>5, <3>6
  <2> QED
    BY <2>1, <2>2, <2>3
<1>7. ASSUME NEW c \in Clients, accept(c) PROVE RelayTypes'
  <2>1. hist' = [hist EXCEPT !.lost = [hist.lost EXCEPT ![c] = hist.lost[c] + Len(up[c])]]
    BY <1>7 DEF accept
  <2>2. hist.lost[c] + Len(up[c]) \in Nat
    BY Part
  <2>3. hist' \in HistType
    BY <2>1, <2>2 DEF HistType
  <2>4. up' \in [Clients -> Packets] /\ waiting' \in [Clients -> Seq(Packets)]
    BY <1>7, WaitingType DEF accept
  <2> QED
    BY <1>7, <2>3, <2>4 DEF accept, piVars
<1>8. ASSUME NEW p \in PacketType, recieveMsgHandler(p)
      PROVE  entry' \in [Clients -> EntryType] /\ queue' \in [Clients -> Seq(Seq(Piece))]
  <2>1. CASE p.from \notin Clients
    BY <1>8, <2>1 DEF recieveMsgHandler, piVars
  <2>2. CASE p.from \in Clients
    <3> DEFINE f == p.from
               e == entry[f]
               d == Append(e.data, [msg |-> p.msg, k |-> p.k])
    <3>1. e \in EntryType /\ p.k \in Nat /\ p.msg \in Nat /\ queue[f] \in Seq(Seq(Piece))
      BY <2>2 DEF PacketType
    <3>2. d \in Seq(Piece)
      <4>1. [msg |-> p.msg, k |-> p.k] \in Piece /\ e.data \in Seq(Piece)
        BY <3>1 DEF Piece, EntryType
      <4> QED
        BY <4>1, Came
    <3>3. Append(queue[f], d) \in Seq(Seq(Piece))
      <4> HIDE DEF d
      <4> QED
        BY <3>1, <3>2, Came
    <3>4. \/ /\ entry' = [entry EXCEPT ![f] =
                  IF e.has_cmd THEN NoMsg ELSE [has_cmd |-> TRUE, totPckts |-> p.k, data |-> <<>>]]
             /\ UNCHANGED queue
          \/ /\ entry' = [entry EXCEPT ![f] = NoMsg]
             /\ queue' = [queue EXCEPT ![f] = Append(queue[f], d)]
          \/ /\ entry' = [entry EXCEPT ![f].data = IF e.has_cmd THEN d ELSE @]
             /\ UNCHANGED queue
      BY <1>8, <2>2 DEF recieveMsgHandler
    <3> HIDE DEF d
    <3>5. [has_cmd |-> TRUE, totPckts |-> p.k, data |-> <<>>] \in EntryType
      <4>1. <<>> \in Seq(Piece)
        OBVIOUS
      <4> QED
        BY <3>1, <4>1 DEF EntryType
    <3>6. [e EXCEPT !.data = IF e.has_cmd THEN d ELSE e.data] \in EntryType
      BY <3>1, <3>2 DEF EntryType
    <3>7. [entry EXCEPT ![f].data = IF e.has_cmd THEN d ELSE @]
            = [entry EXCEPT ![f] = [e EXCEPT !.data = IF e.has_cmd THEN d ELSE e.data]]
      OBVIOUS
    <3>8. /\ f \in Clients /\ entry \in [Clients -> EntryType]
          /\ queue \in [Clients -> Seq(Seq(Piece))]
      BY <2>2
    <3> DEFINE new == IF e.has_cmd THEN NoMsg
                      ELSE [has_cmd |-> TRUE, totPckts |-> p.k, data |-> <<>>]
               more == [e EXCEPT !.data = IF e.has_cmd THEN d ELSE e.data]
    <3>9. new \in EntryType /\ more \in EntryType /\ NoMsg \in EntryType
      BY <3>5, <3>6, NoMsgFacts
    <3>10. \/ entry' = [entry EXCEPT ![f] = new] /\ UNCHANGED queue
           \/ /\ entry' = [entry EXCEPT ![f] = NoMsg]
              /\ queue' = [queue EXCEPT ![f] = Append(queue[f], d)]
           \/ entry' = [entry EXCEPT ![f] = more] /\ UNCHANGED queue
      BY <3>4, <3>7
    <3> HIDE DEF f, e, new, more
    <3> QED
      BY <3>3, <3>8, <3>9, <3>10, ZenonT(40)
  <2> QED
    BY <2>1, <2>2
<1>9. ASSUME NEW c \in Clients, relay_to_pi(c) PROVE RelayTypes'
  <2>1. up[c] \in Seq(PacketType) /\ up[c] # <<>>
    BY <1>9 DEF relay_to_pi, Packets
  <2>2. Head(up[c]) \in PacketType /\ Tail(up[c]) \in Packets
    BY <2>1, Left DEF Packets
  <2>3. entry' \in [Clients -> EntryType] /\ queue' \in [Clients -> Seq(Seq(Piece))]
    BY <1>8, <1>9, <2>2 DEF relay_to_pi
  <2>4. hist' = [hist EXCEPT !.strays =
                   [d \in Clients |-> hist.strays[d] + StrayFor(Head(up[c]), d)]]
    BY <1>9 DEF relay_to_pi
  <2>5. \A d \in Clients : hist.strays[d] + StrayFor(Head(up[c]), d) \in Nat
    BY Part DEF StrayFor
  <2>6. hist' \in HistType
    BY <2>4, <2>5 DEF HistType
  <2> QED
    BY <1>9, <2>2, <2>3, <2>6 DEF relay_to_pi, clientVars
<1>10. ASSUME NEW c \in Clients, ServerSend(c) PROVE RelayTypes'
  <2>1. hist.downs + 1 \in Nat
    BY DEF HistType
  <2>2. hist' \in HistType
    BY <1>10, <2>1 DEF ServerSend, HistType
  <2> QED
    BY <1>10, <2>2 DEF ServerSend, clientVars, piVars
<1>11. CASE UNCHANGED vars
  BY <1>11 DEF vars
<1> QED
  BY <1>1, <1>3, <1>4, <1>5, <1>6, <1>7, <1>9, <1>10, <1>11 DEF Next, ClientLoop

------------------------------------------------------------------------------
(* A client told to connect once at most, that the server has not written   *)
(* to: it has not come, or its connection waits, or is the accepted one.    *)
OnceThere(c) ==
  \/ conn[c] = "none" /\ waiting[c] = <<>> /\ c \notin wifiArr /\ (hist.cncts[c] = 0 => ~ ip[c])
  \/ conn[c] = "waiting" /\ Len(waiting[c]) = 1 /\ c \notin wifiArr /\ hist.cncts[c] # 0
  \/ conn[c] = "accepted" /\ waiting[c] = <<>> /\ hist.cncts[c] # 0

(* Before the server's first message nobody leaves of itself, so that the   *)
(* ESP has a connected client as soon as one has come, unless its Pi has    *)
(* connected it again.                                                      *)
HangInv ==
  /\ RelayTypes
  /\ hist.downs = 0 =>
       /\ ~ server.hung /\ down = {} /\ (wifiArr # {} => server.client \in wifiArr)
       /\ \A c \in Clients : hist.cncts[c] < 2 => OnceThere(c)
  /\ hist.downs = 1 /\ server.hung =>
       wifiArr = {} \/ (server.client # NoClient /\ hist.cncts[server.client] > 1)

LEMMA InitHang == Init => HangInv
<1> SUFFICES ASSUME Init PROVE HangInv
  OBVIOUS
<1>1. RelayTypes
  BY InitTypes
<1>2. /\ hist.downs = 0 /\ ~ server.hung /\ down = {} /\ wifiArr = {}
      /\ \A c \in Clients : conn[c] = "none" /\ waiting[c] = <<>> /\ ~ ip[c]
  BY DEF Init
<1> QED
  BY <1>1, <1>2 DEF HangInv, OnceThere

(* A step of which the server's part sees nothing.                          *)
LEMMA HangSame ==
  ASSUME HangInv, RelayTypes', UNCHANGED <<wifiArr, server, down>>, hist'.downs = hist.downs,
         \A c \in Clients : hist'.cncts[c] >= hist.cncts[c],
         hist.downs = 0 => \A c \in Clients : hist'.cncts[c] < 2 => OnceThere(c)'
  PROVE  HangInv'
<1>1. \A c \in Clients : hist'.cncts[c] \in Nat /\ hist.cncts[c] \in Nat
  BY DEF RelayTypes, HistType, HangInv
<1>2. hist.downs = 1 /\ server.hung =>
        wifiArr = {} \/ (server.client # NoClient /\ hist'.cncts[server.client] > 1)
  <2>1. server.client \in Clients \cup {NoClient}
    BY DEF HangInv, RelayTypes
  <2> QED
    BY <1>1, <2>1 DEF HangInv
<1> QED
  BY <1>2 DEF HangInv

LEMMA OthersThere ==
  ASSUME NEW c \in Clients, OnceThere(c), conn'[c] = conn[c], ip'[c] = ip[c],
         Len(waiting'[c]) = Len(waiting[c]), waiting[c] = <<>> => waiting'[c] = <<>>,
         c \in wifiArr' <=> c \in wifiArr, hist'.cncts[c] = hist.cncts[c]
  PROVE  OnceThere(c)'
BY DEF OnceThere

(* A connection more.                                                       *)
LEMMA OneConnection == Len(Append(<<>>, <<>>)) = 1
OBVIOUS

LEMMA NextHang == HangInv /\ [Next]_vars => HangInv'
<1> SUFFICES ASSUME HangInv, [Next]_vars PROVE HangInv'
  OBVIOUS
<1>0. /\ RelayTypes /\ RelayTypes'
      /\ conn \in [Clients -> {"none", "waiting", "accepted"}] /\ ip \in [Clients -> BOOLEAN]
      /\ waiting \in [Clients -> Seq(Packets)] /\ wifiArr \in SUBSET Clients
      /\ server \in [hung : BOOLEAN, client : Clients \cup {NoClient}]
      /\ hist \in HistType /\ hist.cncts \in [Clients -> Nat] /\ hist.downs \in Nat
      /\ hist'.cncts \in [Clients -> Nat] /\ waiting' \in [Clients -> Seq(Packets)]
  BY NextTypes DEF HangInv, RelayTypes, HistType
<1>1. ASSUME NEW c \in Clients, NEW z \in Sizes, send_cmd(c, z) PROVE HangInv'
  <2>1. /\ UNCHANGED <<conn, ip, waiting, wifiArr, server, down>>
        /\ hist'.downs = hist.downs /\ hist'.cncts = hist.cncts
    BY <1>0, <1>1 DEF send_cmd, HistType
  <2>2. \A d \in Clients : OnceThere(d) => OnceThere(d)'
    BY <2>1 DEF OnceThere
  <2>3. \A d \in Clients : hist'.cncts[d] >= hist.cncts[d]
    BY <1>0, <2>1
  <2>4. hist.downs = 0 => \A d \in Clients : hist'.cncts[d] < 2 => OnceThere(d)'
    BY <2>1, <2>2 DEF HangInv
  <2> QED
    BY <1>0, <2>1, <2>3, <2>4, HangSame
<1>2. ASSUME NEW c \in Clients, client_wifi_cnct(c) PROVE HangInv'
  <2>1. PICK r \in BOOLEAN : ConnectTo(c, r)
    BY <1>2 DEF client_wifi_cnct
  <2>2. /\ conn' = [conn EXCEPT ![c] = IF r THEN "waiting" ELSE "none"]
        /\ waiting' = IF r THEN [waiting EXCEPT ![c] = Append(@, <<>>)] ELSE waiting
        /\ down' = down \ {c} /\ ip' = [ip EXCEPT ![c] = TRUE]
        /\ UNCHANGED <<wifiArr, server>>
    BY <1>2, <2>1 DEF ConnectTo, client_wifi_cnct
  <2>3. hist' = [hist EXCEPT !.cncts = [hist.cncts EXCEPT ![c] = hist.cncts[c] + 1]]
    BY <1>2 DEF client_wifi_cnct
  <2>4. /\ hist'.downs = hist.downs /\ hist'.cncts[c] = hist.cncts[c] + 1
        /\ \A d \in Clients : d # c => hist'.cncts[d] = hist.cncts[d]
        /\ \A d \in Clients : hist'.cncts[d] >= hist.cncts[d]
    BY <1>0, <2>3, SMTT(30) DEF HistType
  <2>5. ASSUME hist.downs = 0, NEW d \in Clients, hist'.cncts[d] < 2 PROVE OnceThere(d)'
    <3>1. hist.cncts[d] < 2 /\ hist.cncts[d] \in Nat /\ OnceThere(d)
      <4>1. /\ hist.cncts[d] \in Nat /\ hist'.cncts[d] \in Nat
            /\ hist'.cncts[d] >= hist.cncts[d] /\ hist'.cncts[d] < 2
        BY <1>0, <2>4, <2>5
      <4>2. hist.cncts[d] < 2
        BY <4>1
      <4> QED
        BY <2>5, <4>1, <4>2 DEF HangInv
    <3>2. CASE d # c
      <4>1. conn'[d] = conn[d] /\ ip'[d] = ip[d] /\ waiting'[d] = waiting[d]
        BY <1>0, <2>2, <3>2
      <4> QED
        BY <2>2, <2>4, <3>1, <3>2, <4>1, OthersThere
    <3>3. CASE d = c
      <4>1. hist.cncts[c] = 0 /\ waiting[c] = <<>> /\ c \notin wifiArr /\ hist'.cncts[c] # 0
        BY <1>0, <2>4, <2>5, <3>1, <3>3 DEF OnceThere
      <4>2. CASE r
        <5>1. conn'[c] = "waiting" /\ waiting'[c] = Append(<<>>, <<>>)
          BY <1>0, <2>2, <4>1, <4>2
        <5> QED
          BY <2>2, <3>3, <4>1, <5>1, OneConnection DEF OnceThere
      <4>3. CASE ~ r
        <5>1. conn'[c] = "none" /\ waiting'[c] = <<>>
          BY <1>0, <2>2, <4>1, <4>3
        <5> QED
          BY <2>2, <3>3, <4>1, <5>1 DEF OnceThere
      <4> QED
        BY <4>2, <4>3
    <3> QED
      BY <3>2, <3>3
  <2>6. hist.downs # 0 \/ down' = down
    BY <2>2 DEF HangInv
  <2>7. CASE down' = down
    BY <1>0, <2>2, <2>4, <2>5, <2>7, HangSame
  <2>8. CASE hist.downs # 0
    <3>1. hist'.downs = 1 /\ server'.hung =>
            wifiArr' = {} \/ (server'.client # NoClient /\ hist'.cncts[server'.client] > 1)
      <4>1. server.client \in Clients \cup {NoClient} /\ server' = server /\ wifiArr' = wifiArr
        BY <1>0, <2>2
      <4>2. \A d \in Clients : hist.cncts[d] \in Nat /\ hist'.cncts[d] \in Nat
        BY <1>0
      <4>3. \A d \in Clients : hist.cncts[d] > 1 => hist'.cncts[d] > 1
        BY <2>4, <4>2
      <4> QED
        BY <2>4, <4>1, <4>3 DEF HangInv
    <3> QED
      BY <1>0, <2>4, <2>8, <3>1 DEF HangInv
  <2> QED
    BY <2>6, <2>7, <2>8
<1>3. ASSUME NEW c \in Clients, connect(c) PROVE HangInv'
  <2>1. /\ conn[c] = "none" /\ ip[c] /\ conn' = [conn EXCEPT ![c] = "waiting"]
        /\ waiting' = [waiting EXCEPT ![c] = Append(@, <<>>)]
        /\ down' = down \ {c} /\ UNCHANGED <<ip, wifiArr, server, hist>>
    BY <1>3 DEF connect, ConnectTo
  <2>2. ASSUME hist.downs = 0, NEW d \in Clients, hist.cncts[d] < 2 PROVE OnceThere(d)'
    <3>1. OnceThere(d)
      BY <2>2 DEF HangInv
    <3>2. CASE d # c
      <4>1. conn'[d] = conn[d] /\ waiting'[d] = waiting[d]
        BY <1>0, <2>1, <3>2
      <4> QED
        BY <2>1, <3>1, <4>1, OthersThere
    <3>3. CASE d = c
      <4>1. waiting[c] = <<>> /\ c \notin wifiArr /\ hist.cncts[c] # 0
        BY <2>1, <3>1, <3>3 DEF OnceThere
      <4>2. conn'[c] = "waiting" /\ waiting'[c] = Append(<<>>, <<>>)
        BY <1>0, <2>1, <4>1
      <4> QED
        BY <2>1, <3>3, <4>1, <4>2, OneConnection DEF OnceThere
    <3> QED
      BY <3>2, <3>3
  <2>3. CASE hist.downs = 0
    <3>1. down' = down
      BY <2>1, <2>3 DEF HangInv
    <3>2. \A d \in Clients : hist'.cncts[d] >= hist.cncts[d]
      BY <1>0, <2>1
    <3> QED
      BY <1>0, <2>1, <2>2, <3>1, <3>2, HangSame
  <2>4. CASE hist.downs # 0
    BY <1>0, <2>1, <2>4 DEF HangInv
  <2> QED
    BY <2>3, <2>4
<1>4. ASSUME NEW c \in Clients, send_msg(c) PROVE HangInv'
  <2>1. UNCHANGED <<conn, ip, wifiArr, server, down, hist>>
    BY <1>4 DEF send_msg
  <2>2. ASSUME NEW d \in Clients
        PROVE  Len(waiting'[d]) = Len(waiting[d]) /\ (waiting[d] = <<>> => waiting'[d] = <<>>)
    <3>1. PICK w : \/ waiting' = [waiting EXCEPT ![c][Len(waiting[c])] = @ \o w]
                   \/ waiting' = waiting
      BY <1>4 DEF send_msg
    <3>2. CASE waiting' = waiting
      BY <3>2
    <3>3. CASE waiting' = [waiting EXCEPT ![c][Len(waiting[c])] = @ \o w]
      <4>1. d # c => waiting'[d] = waiting[d]
        BY <1>0, <3>3
      <4> DEFINE s == waiting[c]
      <4>2. waiting'[c] = [s EXCEPT ![Len(s)] = s[Len(s)] \o w]
        BY <1>0, <3>3
      <4>3. s \in Seq(Packets) /\ waiting'[c] \in Seq(Packets)
        BY <1>0
      <4> HIDE DEF s
      <4>4. DOMAIN waiting'[c] = DOMAIN s
        BY <4>2
      <4>5. Len(waiting'[c]) = Len(s)
        BY <4>3, <4>4
      <4>6. s = <<>> => waiting'[c] = <<>>
        BY <4>3, <4>5
      <4> QED
        BY <4>1, <4>5, <4>6 DEF s
    <3> QED
      BY <3>1, <3>2, <3>3
  <2>3. \A d \in Clients : OnceThere(d) => OnceThere(d)'
    BY <2>1, <2>2, OthersThere
  <2>4. \A d \in Clients : hist'.cncts[d] >= hist.cncts[d]
    BY <1>0, <2>1
  <2>5. hist.downs = 0 => \A d \in Clients : hist'.cncts[d] < 2 => OnceThere(d)'
    BY <2>1, <2>3 DEF HangInv
  <2> QED
    BY <1>0, <2>1, <2>4, <2>5, HangSame
<1>5. ASSUME NEW c \in Clients, ClientRelay(c) PROVE HangInv'
  <2>1. c \in down /\ UNCHANGED <<wifiArr, server>>
    BY <1>5 DEF ClientRelay
  <2>2. hist'.downs = hist.downs /\ hist'.cncts = hist.cncts
    BY <1>0, <1>5 DEF ClientRelay, HistType
  <2>3. hist.downs # 0
    BY <2>1 DEF HangInv
  <2> QED
    BY <1>0, <2>1, <2>2, <2>3 DEF HangInv
<1>6. ASSUME NEW c \in Clients, accept(c) PROVE HangInv'
  <2>1. /\ ~ server.hung /\ waiting[c] # <<>>
        /\ wifiArr' = wifiArr \cup {c} /\ server' = [server EXCEPT !.client = c]
        /\ waiting' = [waiting EXCEPT ![c] = Tail(waiting[c])]
        /\ conn' = [conn EXCEPT ![c] =
                      IF conn[c] = "waiting" /\ Len(waiting[c]) = 1 THEN "accepted" ELSE conn[c]]
        /\ UNCHANGED <<ip, down>>
    BY <1>6 DEF accept
  <2>2. hist'.downs = hist.downs /\ hist'.cncts = hist.cncts
    BY <1>0, <1>6 DEF accept, HistType
  <2>3. ~ server'.hung /\ server'.client = c
    BY <1>0, <2>1
  <2>4. ASSUME hist.downs = 0, NEW d \in Clients, hist.cncts[d] < 2 PROVE OnceThere(d)'
    <3>1. OnceThere(d)
      BY <2>4 DEF HangInv
    <3>2. CASE d # c
      <4>1. conn'[d] = conn[d] /\ waiting'[d] = waiting[d] /\ (d \in wifiArr' <=> d \in wifiArr)
        BY <1>0, <2>1, <3>2
      <4> QED
        BY <2>1, <2>2, <3>1, <4>1, OthersThere
    <3>3. CASE d = c
      <4>1. conn[c] = "waiting" /\ Len(waiting[c]) = 1 /\ hist.cncts[c] # 0
        BY <2>1, <3>1, <3>3 DEF OnceThere
      <4>2. Tail(waiting[c]) = <<>>
        <5>1. waiting[c] \in Seq(Packets)
          BY <1>0
        <5>2. Tail(waiting[c]) \in Seq(Packets) /\ Len(Tail(waiting[c])) = Len(waiting[c]) - 1
          BY <2>1, <5>1, Left
        <5> DEFINE t == Tail(waiting[c])
        <5>3. t \in Seq(Packets) /\ Len(t) = 0
          BY <4>1, <5>2
        <5> HIDE DEF t
        <5>4. t = <<>>
          BY <5>3
        <5> QED
          BY <5>4 DEF t
      <4>3. conn'[c] = "accepted" /\ waiting'[c] = <<>>
        BY <1>0, <2>1, <4>1, <4>2
      <4> QED
        BY <2>2, <3>3, <4>1, <4>3 DEF OnceThere
    <3> QED
      BY <3>2, <3>3
  <2> QED
    BY <1>0, <2>1, <2>2, <2>3, <2>4 DEF HangInv
<1>7. ASSUME NEW c \in Clients, relay_to_pi(c) PROVE HangInv'
  <2>1. /\ ~ server.hung /\ c \in wifiArr /\ server' = [server EXCEPT !.client = c]
        /\ UNCHANGED <<conn, ip, waiting, wifiArr, down>>
    BY <1>7 DEF relay_to_pi, clientVars
  <2>2. hist'.downs = hist.downs /\ hist'.cncts = hist.cncts
    BY <1>0, <1>7 DEF relay_to_pi, HistType
  <2>3. ~ server'.hung /\ server'.client = c
    BY <1>0, <2>1
  <2>4. \A d \in Clients : OnceThere(d) => OnceThere(d)'
    BY <2>1, <2>2 DEF OnceThere
  <2> QED
    BY <1>0, <2>1, <2>2, <2>3, <2>4 DEF HangInv
<1>8. ASSUME NEW c \in Clients, ServerSend(c) PROVE HangInv'
  <2>1. /\ hist'.downs = hist.downs + 1 /\ hist'.cncts = hist.cncts
        /\ ~ server.hung /\ wifiArr' = wifiArr
    BY <1>0, <1>8 DEF ServerSend, HistType
  <2>2. \/ server' = [server EXCEPT !.client = IF c \in wifiArr THEN c ELSE NoClient]
        \/ ~ Connected(server.client) /\ server' = [server EXCEPT !.hung = TRUE]
    BY <1>8 DEF ServerSend
  <2>3. \/ ~ server'.hung
        \/ ~ Connected(server.client) /\ server'.client = server.client
    BY <1>0, <2>1, <2>2
  <2>4. ASSUME hist.downs = 0, server'.hung, wifiArr # {}
        PROVE  server'.client # NoClient /\ hist'.cncts[server'.client] > 1
    <3> DEFINE s == server.client
    <3>1. s \in wifiArr /\ s \in Clients /\ s # NoClient /\ s = server'.client
      BY <1>0, <2>3, <2>4, EspRelayAssumption DEF HangInv
    <3>2. conn[s] # "accepted" /\ s \in wifiArr
      BY <2>3, <2>4, <3>1 DEF Connected
    <3>3. ~ OnceThere(s)
      BY <3>2 DEF OnceThere
    <3>4. ~ (hist.cncts[s] < 2) /\ hist.cncts[s] \in Nat
      BY <1>0, <2>4, <3>1, <3>3 DEF HangInv
    <3> HIDE DEF s
    <3> QED
      BY <2>1, <3>1, <3>4
  <2>5. hist'.downs # 0 /\ (hist'.downs = 1 => hist.downs = 0)
    BY <1>0, <2>1
  <2> QED
    BY <1>0, <2>1, <2>4, <2>5 DEF HangInv
<1>9. CASE UNCHANGED vars
  <2>1. UNCHANGED <<conn, ip, waiting, wifiArr, server, down, hist>>
    BY <1>9 DEF vars
  <2> QED
    BY <1>0, <2>1 DEF HangInv, OnceThere
<1> QED
  BY <1>1, <1>2, <1>3, <1>4, <1>5, <1>6, <1>7, <1>8, <1>9 DEF Next, ClientLoop

(* The server's ESP waits for ever (while(!client.connected()) of send_msg) *)
(* only after two messages of its own Pi, or when no client ever came, or   *)
(* with a current client that has been told to connect again.               *)
THEOREM HangsLate == Spec => []HangsAfterOwnMessage
<1>1. HangInv => HangsAfterOwnMessage
  <2> SUFFICES ASSUME HangInv, server.hung
               PROVE  \/ hist.downs > 1 \/ wifiArr = {}
                      \/ server.client # NoClient /\ hist.cncts[server.client] > 1
    BY DEF HangsAfterOwnMessage
  <2>1. hist.downs \in Nat /\ hist.downs # 0
    BY DEF HangInv, RelayTypes, HistType
  <2>2. hist.downs > 1 \/ hist.downs = 1
    BY <2>1
  <2> QED
    BY <2>2 DEF HangInv
<1> QED
  BY <1>1, InitHang, NextHang, PTL DEF Spec

------------------------------------------------------------------------------
(* What arrives.  The packets of client c on one connection: each command   *)
(* is followed by its first packet of data, where the line does not begin   *)
(* behind the command; what else there is are no pieces of messages, with   *)
(* any address, and the numbers of the messages grow.  n has the sizes of   *)
(* what c has sent.                                                         *)
Line(c, n, s) ==
  /\ s \in Seq(PacketType)
  /\ \A i \in 1 .. Len(s) : s[i].k # 0 => s[i].from = c /\ s[i].msg \in 1 .. Len(n)
  /\ \A i \in 1 .. Len(s) : s[i].isCmd =>
       /\ s[i].k # 0 /\ s[i].k = n[s[i].msg]
       /\ i + 1 \in 1 .. Len(s) /\ s[i + 1] = Packet(FALSE, c, s[i].msg, 1)
  /\ \A i \in 1 .. Len(s) : s[i].k # 0 /\ ~ s[i].isCmd =>
       s[i].k = 1 /\ (i = 1 \/ (i - 1 \in 1 .. Len(s) /\ s[i - 1].isCmd))
  /\ \A i, j \in 1 .. Len(s) : i < j /\ s[i].k # 0 /\ s[j].isCmd => s[i].msg < s[j].msg

(* The command in front of the line has been read.                          *)
Headless(s) == s # <<>> /\ s[1].k # 0 /\ ~ s[1].isCmd

(* The messages with a packet on the line.                                  *)
On(s) == {s[i].msg : i \in {j \in 1 .. Len(s) : s[j].k # 0}}

Below(A, B) == \A a \in A, b \in B : a < b

LEMMA EmptyLine ==
  ASSUME NEW c, NEW n
  PROVE  Line(c, n, <<>>) /\ ~ Headless(<<>>) /\ On(<<>>) = {}
<1>1. <<>> \in Seq(PacketType) /\ 1 .. Len(<<>>) = {}
  OBVIOUS
<1> QED
  BY <1>1 DEF Line, Headless, On

LEMMA OnLine ==
  ASSUME NEW c \in Clients, NEW n \in Seq(Nat), NEW s, Line(c, n, s)
  PROVE  On(s) \subseteq 1 .. Len(n)
BY DEF Line, On

(* The server reads a packet.                                               *)
LEMMA LineTail ==
  ASSUME NEW c \in Clients, NEW n \in Seq(Nat), NEW s, Line(c, n, s), s # <<>>
  PROVE  /\ s[1] = Head(s) /\ s[1] \in PacketType /\ Line(c, n, Tail(s))
         /\ On(s) = On(Tail(s)) \cup (IF s[1].k # 0 THEN {s[1].msg} ELSE {})
         /\ Headless(Tail(s)) <=> s[1].isCmd
         /\ s[1].isCmd => Tail(s)[1] = Packet(FALSE, c, s[1].msg, 1)
         /\ Headless(s) => Below({s[1].msg}, On(Tail(s)))
<1> DEFINE t == Tail(s)
<1>1. s \in Seq(PacketType) /\ Len(s) \in Nat
  BY DEF Line
<1>2. /\ s[1] = Head(s) /\ s[1] \in PacketType /\ 1 \in 1 .. Len(s)
      /\ t \in Seq(PacketType) /\ Len(t) = Len(s) - 1 /\ Len(t) \in Nat
      /\ \A i \in 1 .. Len(t) : t[i] = s[i + 1]
  BY <1>1, Left
<1> HIDE DEF t
<1>3. \A i \in 1 .. Len(t) : i + 1 \in 1 .. Len(s) /\ i + 1 # 1
  BY <1>1, <1>2
<1>4. \A i \in 1 .. Len(t) : t[i].isCmd =>
        /\ t[i].k # 0 /\ t[i].k = n[t[i].msg]
        /\ i + 1 \in 1 .. Len(t) /\ t[i + 1] = Packet(FALSE, c, t[i].msg, 1)
  <2> SUFFICES ASSUME NEW i \in 1 .. Len(t), t[i].isCmd
               PROVE  /\ t[i].k # 0 /\ t[i].k = n[t[i].msg]
                      /\ i + 1 \in 1 .. Len(t) /\ t[i + 1] = Packet(FALSE, c, t[i].msg, 1)
    OBVIOUS
  <2>1. i + 1 \in 1 .. Len(s) /\ t[i] = s[i + 1]
    BY <1>2, <1>3
  <2>2. /\ s[i + 1].k # 0 /\ s[i + 1].k = n[s[i + 1].msg] /\ (i + 1) + 1 \in 1 .. Len(s)
        /\ s[(i + 1) + 1] = Packet(FALSE, c, s[i + 1].msg, 1)
    BY <2>1 DEF Line
  <2>3. i + 1 \in 1 .. Len(t)
    BY <1>1, <1>2, <2>2
  <2> QED
    BY <1>2, <2>1, <2>2, <2>3
<1>5. \A i \in 1 .. Len(t) : t[i].k # 0 /\ ~ t[i].isCmd =>
        t[i].k = 1 /\ (i = 1 \/ (i - 1 \in 1 .. Len(t) /\ t[i - 1].isCmd))
  <2> SUFFICES ASSUME NEW i \in 1 .. Len(t), t[i].k # 0, ~ t[i].isCmd
               PROVE  t[i].k = 1 /\ (i = 1 \/ (i - 1 \in 1 .. Len(t) /\ t[i - 1].isCmd))
    OBVIOUS
  <2>1. i + 1 \in 1 .. Len(s) /\ t[i] = s[i + 1] /\ i + 1 # 1 /\ (i + 1) - 1 = i
    BY <1>2, <1>3
  <2>2. s[i + 1].k = 1 /\ s[i].isCmd
    BY <2>1 DEF Line
  <2>3. i # 1 => i - 1 \in 1 .. Len(t) /\ (i - 1) + 1 = i
    BY <1>2
  <2> QED
    BY <1>2, <2>1, <2>2, <2>3
<1>6. \A i, j \in 1 .. Len(t) : i < j /\ t[i].k # 0 /\ t[j].isCmd => t[i].msg < t[j].msg
  <2> SUFFICES ASSUME NEW i \in 1 .. Len(t), NEW j \in 1 .. Len(t),
                      i < j, t[i].k # 0, t[j].isCmd
               PROVE  t[i].msg < t[j].msg
    OBVIOUS
  <2>1. /\ i + 1 \in 1 .. Len(s) /\ j + 1 \in 1 .. Len(s) /\ i + 1 < j + 1
        /\ t[i] = s[i + 1] /\ t[j] = s[j + 1]
    BY <1>2, <1>3
  <2> QED
    BY <2>1 DEF Line
<1>7. Line(c, n, t)
  <2>1. \A i \in 1 .. Len(s) : s[i].k # 0 => s[i].from = c /\ s[i].msg \in 1 .. Len(n)
    BY DEF Line
  <2>2. \A i \in 1 .. Len(t) : t[i].k # 0 => t[i].from = c /\ t[i].msg \in 1 .. Len(n)
    BY <1>2, <1>3, <2>1
  <2> QED
    BY <1>2, <1>4, <1>5, <1>6, <2>2 DEF Line
<1>8. On(s) = On(t) \cup (IF s[1].k # 0 THEN {s[1].msg} ELSE {})
  <2>1. \A i \in 1 .. Len(s) : i # 1 => i - 1 \in 1 .. Len(t) /\ (i - 1) + 1 = i
    BY <1>1, <1>2
  <2>2. \A i \in 1 .. Len(s) : i # 1 => s[i] = t[i - 1]
    BY <1>2, <2>1
  <2>3. ASSUME NEW m \in On(s)
        PROVE  m \in On(t) \/ (s[1].k # 0 /\ m = s[1].msg)
    <3>1. PICK i \in 1 .. Len(s) : s[i].k # 0 /\ m = s[i].msg
      BY DEF On
    <3>2. CASE i = 1
      BY <3>1, <3>2
    <3>3. CASE i # 1
      BY <2>1, <2>2, <3>1, <3>3 DEF On
    <3> QED
      BY <3>2, <3>3
  <2>4. ASSUME NEW m \in On(t) PROVE m \in On(s)
    <3>1. PICK i \in 1 .. Len(t) : t[i].k # 0 /\ m = t[i].msg
      BY DEF On
    <3>2. i + 1 \in 1 .. Len(s) /\ s[i + 1].k # 0 /\ m = s[i + 1].msg
      BY <1>2, <1>3, <3>1
    <3> QED
      BY <3>2 DEF On
  <2>5. s[1].k # 0 => s[1].msg \in On(s)
    BY <1>2 DEF On
  <2> QED
    BY <2>3, <2>4, <2>5
<1>9. s[1].isCmd => Len(t) # 0 /\ t[1] = Packet(FALSE, c, s[1].msg, 1)
  <2>1. ASSUME s[1].isCmd PROVE 2 \in 1 .. Len(s) /\ s[2] = Packet(FALSE, c, s[1].msg, 1)
    <3>1. \A i \in 1 .. Len(s) : s[i].isCmd =>
            i + 1 \in 1 .. Len(s) /\ s[i + 1] = Packet(FALSE, c, s[i].msg, 1)
      BY DEF Line
    <3>2. 1 \in 1 .. Len(s) /\ s[1].isCmd
      BY <1>2, <2>1
    <3>3. 1 + 1 \in 1 .. Len(s) /\ s[1 + 1] = Packet(FALSE, c, s[1].msg, 1)
      BY <3>1, <3>2
    <3>4. 1 + 1 = 2
      OBVIOUS
    <3> QED
      BY <3>3, <3>4, Zenon
  <2>2. 2 \in 1 .. Len(s) => 1 \in 1 .. Len(t) /\ Len(t) # 0
    BY <1>1, <1>2
  <2>3. 2 \in 1 .. Len(s) => t[1] = s[2]
    BY <1>2, <2>2
  <2> QED
    BY <2>1, <2>2, <2>3
<1>10. Headless(t) <=> s[1].isCmd
  <2>1. ASSUME s[1].isCmd PROVE Headless(t)
    <3>1. Len(t) # 0 /\ t[1] = Packet(FALSE, c, s[1].msg, 1)
      BY <1>9, <2>1
    <3> QED
      BY <1>2, <3>1 DEF Headless, Packet
  <2>2. ASSUME Headless(t) PROVE s[1].isCmd
    <3>1. 1 \in 1 .. Len(t) /\ 2 \in 1 .. Len(s) /\ t[1] = s[2] /\ 2 # 1
      BY <1>1, <1>2, <1>3, <2>2 DEF Headless
    <3>2. s[2 - 1].isCmd
      BY <2>2, <3>1 DEF Headless, Line
    <3>3. 2 - 1 = 1
      OBVIOUS
    <3> QED
      BY <3>2, <3>3, Zenon
  <2> QED
    BY <2>1, <2>2
<1>11. ASSUME Headless(s) PROVE Below({s[1].msg}, On(t))
  <2>1. ASSUME NEW i \in 1 .. Len(t), t[i].k # 0 PROVE s[1].msg < t[i].msg
    <3>1. i + 1 \in 1 .. Len(s) /\ t[i] = s[i + 1] /\ 1 < i + 1 /\ i + 1 # 1 /\ (i + 1) - 1 = i
      BY <1>2, <1>3
    <3>2. CASE t[i].isCmd
      BY <1>2, <1>11, <3>1, <3>2 DEF Headless, Line
    <3>3. CASE ~ t[i].isCmd
      <4>1. s[i].isCmd /\ i \in 1 .. Len(s)
        BY <1>1, <1>2, <2>1, <3>1, <3>3 DEF Line
      <4>2. i # 1 /\ 1 < i
        BY <1>2, <1>11, <4>1 DEF Headless
      <4>3. s[1].msg < s[i].msg /\ s[i + 1] = Packet(FALSE, c, s[i].msg, 1)
        BY <1>2, <1>11, <4>1, <4>2 DEF Headless, Line
      <4> QED
        BY <3>1, <4>3 DEF Packet
    <3> QED
      BY <3>2, <3>3
  <2> QED
    BY <2>1 DEF Below, On
<1> QED
  BY <1>2, <1>7, <1>8, <1>9, <1>10, <1>11 DEF t

(* More is written.                                                         *)
LEMMA LineJoin ==
  ASSUME NEW c \in Clients, NEW n \in Seq(Nat), NEW s, NEW w, Line(c, n, s), Line(c, n, w),
         ~ Headless(w), Below(On(s), On(w))
  PROVE  /\ Line(c, n, s \o w) /\ On(s \o w) = On(s) \cup On(w)
         /\ Headless(s \o w) <=> Headless(s)
         /\ s # <<>> => (s \o w)[1] = s[1]
<1> DEFINE u == s \o w
<1>1. s \in Seq(PacketType) /\ w \in Seq(PacketType) /\ Len(s) \in Nat /\ Len(w) \in Nat
  BY DEF Line
<1>2. /\ u \in Seq(PacketType) /\ Len(u) = Len(s) + Len(w)
      /\ \A i \in 1 .. Len(s) : u[i] = s[i]
      /\ \A i \in 1 .. Len(w) : u[Len(s) + i] = w[i]
  BY <1>1, Joined
<1> HIDE DEF u
<1>3. \A i \in 1 .. Len(u) : i \in 1 .. Len(s) \/ \E j \in 1 .. Len(w) : i = Len(s) + j
  <2> SUFFICES ASSUME NEW i \in 1 .. Len(u), i \notin 1 .. Len(s)
               PROVE  \E j \in 1 .. Len(w) : i = Len(s) + j
    OBVIOUS
  <2>1. i - Len(s) \in 1 .. Len(w) /\ i = Len(s) + (i - Len(s))
    BY <1>1, <1>2
  <2> QED
    BY <2>1
<1>4. \A i \in 1 .. Len(u) : u[i].k # 0 => u[i].from = c /\ u[i].msg \in 1 .. Len(n)
  <2>1. /\ \A i \in 1 .. Len(s) : s[i].k # 0 => s[i].from = c /\ s[i].msg \in 1 .. Len(n)
        /\ \A i \in 1 .. Len(w) : w[i].k # 0 => w[i].from = c /\ w[i].msg \in 1 .. Len(n)
    BY DEF Line
  <2> SUFFICES ASSUME NEW i \in 1 .. Len(u), u[i].k # 0
               PROVE  u[i].from = c /\ u[i].msg \in 1 .. Len(n)
    OBVIOUS
  <2>2. CASE i \in 1 .. Len(s)
    BY <1>2, <2>1, <2>2
  <2>3. CASE i \notin 1 .. Len(s)
    <3>1. PICK j \in 1 .. Len(w) : i = Len(s) + j
      BY <1>3, <2>3
    <3>2. u[i] = w[j]
      BY <1>2, <3>1
    <3> QED
      BY <2>1, <3>2
  <2> QED
    BY <2>2, <2>3
<1>5. ASSUME NEW i \in 1 .. Len(u), u[i].isCmd
      PROVE  /\ u[i].k # 0 /\ u[i].k = n[u[i].msg]
             /\ i + 1 \in 1 .. Len(u) /\ u[i + 1] = Packet(FALSE, c, u[i].msg, 1)
  <2>1. CASE i \in 1 .. Len(s)
    <3>1. s[i].isCmd /\ u[i] = s[i]
      BY <1>2, <1>5, <2>1
    <3>2. /\ s[i].k # 0 /\ s[i].k = n[s[i].msg]
          /\ i + 1 \in 1 .. Len(s) /\ s[i + 1] = Packet(FALSE, c, s[i].msg, 1)
      BY <2>1, <3>1 DEF Line
    <3>3. i + 1 \in 1 .. Len(s)
      BY <3>2
    <3>4. i + 1 \in 1 .. Len(u)
      BY <1>1, <1>2, <3>3
    <3>5. u[i + 1] = s[i + 1]
      BY <1>2, <3>3
    <3> QED
      BY <3>1, <3>2, <3>4, <3>5
  <2>2. ASSUME NEW j \in 1 .. Len(w), i = Len(s) + j
        PROVE  /\ u[i].k # 0 /\ u[i].k = n[u[i].msg]
               /\ i + 1 \in 1 .. Len(u) /\ u[i + 1] = Packet(FALSE, c, u[i].msg, 1)
    <3>1. w[j].isCmd /\ u[i] = w[j]
      BY <1>2, <1>5, <2>2
    <3>2. /\ w[j].k # 0 /\ w[j].k = n[w[j].msg]
          /\ j + 1 \in 1 .. Len(w) /\ w[j + 1] = Packet(FALSE, c, w[j].msg, 1)
      BY <3>1 DEF Line
    <3>3. j + 1 \in 1 .. Len(w)
      BY <3>2
    <3>4. i + 1 \in 1 .. Len(u) /\ i + 1 = Len(s) + (j + 1)
      BY <1>1, <1>2, <2>2, <3>3
    <3>5. u[i + 1] = w[j + 1]
      BY <1>2, <3>3, <3>4
    <3> QED
      BY <3>1, <3>2, <3>4, <3>5
  <2> QED
    BY <1>3, <2>1, <2>2
<1>6. ASSUME NEW i \in 1 .. Len(u), u[i].k # 0, ~ u[i].isCmd
      PROVE  u[i].k = 1 /\ (i = 1 \/ (i - 1 \in 1 .. Len(u) /\ u[i - 1].isCmd))
  <2>1. CASE i \in 1 .. Len(s)
    <3>1. u[i] = s[i]
      BY <1>2, <2>1
    <3>2. s[i].k = 1 /\ (i = 1 \/ (i - 1 \in 1 .. Len(s) /\ s[i - 1].isCmd))
      BY <1>6, <2>1, <3>1 DEF Line
    <3>3. i - 1 \in 1 .. Len(s) => i - 1 \in 1 .. Len(u) /\ u[i - 1] = s[i - 1]
      BY <1>1, <1>2
    <3> QED
      BY <3>1, <3>2, <3>3
  <2>2. ASSUME NEW j \in 1 .. Len(w), i = Len(s) + j
        PROVE  u[i].k = 1 /\ i - 1 \in 1 .. Len(u) /\ u[i - 1].isCmd
    <3>1. u[i] = w[j]
      BY <1>2, <2>2
    <3>2. w[j].k = 1 /\ (j = 1 \/ (j - 1 \in 1 .. Len(w) /\ w[j - 1].isCmd))
      BY <1>6, <3>1 DEF Line
    <3>3. j # 1
      BY <1>1, <1>6, <3>1 DEF Headless
    <3>4. j - 1 \in 1 .. Len(w) /\ w[j - 1].isCmd
      BY <3>2, <3>3
    <3>5. j - 1 \in 1 .. Len(w)
      BY <3>4
    <3>6. i - 1 \in 1 .. Len(u) /\ i - 1 = Len(s) + (j - 1)
      BY <1>1, <1>2, <2>2, <3>5
    <3>7. u[i - 1] = w[j - 1]
      BY <1>2, <3>5, <3>6
    <3> QED
      BY <3>1, <3>2, <3>4, <3>6, <3>7
  <2> QED
    BY <1>3, <2>1, <2>2
<1>7. ASSUME NEW i \in 1 .. Len(u), NEW j \in 1 .. Len(u), i < j, u[i].k # 0, u[j].isCmd
      PROVE  u[i].msg < u[j].msg
  <2>1. CASE j \in 1 .. Len(s)
    <3>1. i \in 1 .. Len(s) /\ u[i] = s[i] /\ u[j] = s[j]
      BY <1>1, <1>2, <1>7, <2>1
    <3> QED
      BY <1>7, <2>1, <3>1 DEF Line
  <2>2. ASSUME NEW b \in 1 .. Len(w), j = Len(s) + b PROVE u[i].msg < u[j].msg
    <3>1. u[j] = w[b] /\ w[b].isCmd
      BY <1>2, <1>7, <2>2
    <3>2. w[b].k # 0
      BY <3>1 DEF Line
    <3>3. CASE i \in 1 .. Len(s)
      <4>1. s[i].msg \in On(s) /\ w[b].msg \in On(w) /\ u[i] = s[i]
        BY <1>2, <1>7, <3>2, <3>3 DEF On
      <4> QED
        BY <3>1, <4>1 DEF Below
    <3>4. ASSUME NEW a \in 1 .. Len(w), i = Len(s) + a PROVE u[i].msg < u[j].msg
      <4>1. u[i] = w[a]
        BY <1>2, <3>4
      <4>2. a < b
        <5>1. Len(s) + a < Len(s) + b /\ Len(s) \in Nat /\ a \in Int /\ b \in Int
          BY <1>1, <1>7, <2>2, <3>4
        <5> QED
          BY <5>1
      <4> QED
        BY <1>7, <3>1, <4>1, <4>2 DEF Line
    <3> QED
      BY <1>3, <3>3, <3>4
  <2> QED
    BY <1>3, <2>1, <2>2
<1>8. Line(c, n, u)
  <2>1. \A i \in 1 .. Len(u) : u[i].k # 0 /\ ~ u[i].isCmd =>
          u[i].k = 1 /\ (i = 1 \/ (i - 1 \in 1 .. Len(u) /\ u[i - 1].isCmd))
    BY <1>6
  <2>2. \A i, j \in 1 .. Len(u) : i < j /\ u[i].k # 0 /\ u[j].isCmd => u[i].msg < u[j].msg
    BY <1>7
  <2>3. \A i \in 1 .. Len(u) : u[i].isCmd =>
          /\ u[i].k # 0 /\ u[i].k = n[u[i].msg]
          /\ i + 1 \in 1 .. Len(u) /\ u[i + 1] = Packet(FALSE, c, u[i].msg, 1)
    BY <1>5
  <2> QED
    BY <1>2, <1>4, <2>1, <2>2, <2>3 DEF Line
<1>9. On(u) = On(s) \cup On(w)
  <2>1. ASSUME NEW m \in On(u) PROVE m \in On(s) \cup On(w)
    <3>1. PICK i \in 1 .. Len(u) : u[i].k # 0 /\ m = u[i].msg
      BY DEF On
    <3>2. CASE i \in 1 .. Len(s)
      BY <1>2, <3>1, <3>2 DEF On
    <3>3. ASSUME NEW j \in 1 .. Len(w), i = Len(s) + j PROVE m \in On(w)
      BY <1>2, <3>1, <3>3 DEF On
    <3> QED
      BY <1>3, <3>2, <3>3
  <2>2. ASSUME NEW m \in On(s) PROVE m \in On(u)
    <3>1. PICK i \in 1 .. Len(s) : s[i].k # 0 /\ m = s[i].msg
      BY DEF On
    <3>2. i \in 1 .. Len(u) /\ u[i] = s[i]
      BY <1>1, <1>2
    <3> QED
      BY <3>1, <3>2 DEF On
  <2>3. ASSUME NEW m \in On(w) PROVE m \in On(u)
    <3>1. PICK i \in 1 .. Len(w) : w[i].k # 0 /\ m = w[i].msg
      BY DEF On
    <3>2. Len(s) + i \in 1 .. Len(u) /\ u[Len(s) + i] = w[i]
      BY <1>1, <1>2
    <3> QED
      BY <3>1, <3>2 DEF On
  <2> QED
    BY <2>1, <2>2, <2>3
<1>10. Headless(u) <=> Headless(s)
  <2>1. CASE s = <<>>
    <3>1. u = w
      BY <1>1, <2>1 DEF u
    <3> QED
      BY <2>1, <3>1 DEF Headless
  <2>2. CASE s # <<>>
    <3>1. 1 \in 1 .. Len(s) /\ u # <<>>
      BY <1>1, <1>2, <2>2
    <3> QED
      BY <1>2, <2>2, <3>1 DEF Headless
  <2> QED
    BY <2>1, <2>2
<1>11. s # <<>> => u[1] = s[1]
  BY <1>1, <1>2
<1> QED
  BY <1>8, <1>9, <1>10, <1>11 DEF u

(* What send_msg writes of the last message.                                *)
LEMMA WireLine ==
  ASSUME NEW c \in Clients, NEW n \in Seq(Nat \ {0}), n # <<>>,
         NEW x \in [1 .. n[Len(n)] - 1 -> Clients \cup Others]
  PROVE  LET w == Wire(c, Len(n), n[Len(n)], x)
         IN  Line(c, n, w) /\ ~ Headless(w) /\ On(w) = {Len(n)}
<1> DEFINE m == Len(n)
           z == n[m]
           w == Wire(c, m, z, x)
<1>1. m \in Nat /\ m \in 1 .. Len(n) /\ z \in Nat \ {0} /\ z \in Nat /\ z # 0
  OBVIOUS
<1>2. x \in [1 .. z - 1 -> Clients \cup Others] /\ n[m] = z
  OBVIOUS
<1> HIDE DEF m, z, w
<1>3. /\ w \in Packets /\ Len(w) = z + 1
      /\ w[1] = Packet(TRUE, c, m, z) /\ w[2] = Packet(FALSE, c, m, 1)
      /\ \A i \in 3 .. z + 1 : w[i] = Packet(FALSE, x[i - 2], m, 0)
  <2>1. /\ Wire(c, m, z, x) \in Packets /\ Len(Wire(c, m, z, x)) = z + 1
        /\ Wire(c, m, z, x)[1] = Packet(TRUE, c, m, z)
        /\ Wire(c, m, z, x)[2] = Packet(FALSE, c, m, 1)
        /\ \A i \in 3 .. z + 1 : Wire(c, m, z, x)[i] = Packet(FALSE, x[i - 2], m, 0)
    BY <1>1, <1>2, WireType, ZenonT(40)
  <2> QED
    BY <2>1 DEF w
<1>4. 1 \in 1 .. Len(w) /\ 2 \in 1 .. Len(w)
  BY <1>1, <1>3
<1>5. \A i \in 1 .. Len(w) : i # 1 /\ i # 2 => i \in 3 .. z + 1
  BY <1>1, <1>3
<1>6. /\ w[1].isCmd /\ w[1].from = c /\ w[1].msg = m /\ w[1].k = z
      /\ ~ w[2].isCmd /\ w[2].from = c /\ w[2].msg = m /\ w[2].k = 1
      /\ \A i \in 1 .. Len(w) : i # 1 /\ i # 2 => ~ w[i].isCmd /\ w[i].k = 0
  <2>1. /\ w[1].isCmd /\ w[1].from = c /\ w[1].msg = m /\ w[1].k = z
        /\ ~ w[2].isCmd /\ w[2].from = c /\ w[2].msg = m /\ w[2].k = 1
    BY <1>3 DEF Packet
  <2>2. ASSUME NEW i \in 1 .. Len(w), i # 1, i # 2 PROVE ~ w[i].isCmd /\ w[i].k = 0
    <3>1. w[i] = Packet(FALSE, x[i - 2], m, 0)
      BY <1>3, <1>5, <2>2
    <3> QED
      BY <3>1 DEF Packet
  <2> QED
    BY <2>1, <2>2
<1>7. \A i \in 1 .. Len(w) : w[i].k # 0 => w[i].from = c /\ w[i].msg \in 1 .. Len(n)
  BY <1>1, <1>6
<1>8. \A i \in 1 .. Len(w) : w[i].isCmd =>
        /\ w[i].k # 0 /\ w[i].k = n[w[i].msg]
        /\ i + 1 \in 1 .. Len(w) /\ w[i + 1] = Packet(FALSE, c, w[i].msg, 1)
  <2>1. 1 + 1 = 2
    OBVIOUS
  <2>2. 1 + 1 \in 1 .. Len(w) /\ w[1 + 1] = Packet(FALSE, c, m, 1)
    BY <1>3, <1>4, <2>1, Zenon
  <2> QED
    BY <1>1, <1>2, <1>6, <2>2
<1>9. \A i \in 1 .. Len(w) : w[i].k # 0 /\ ~ w[i].isCmd =>
        w[i].k = 1 /\ (i = 1 \/ (i - 1 \in 1 .. Len(w) /\ w[i - 1].isCmd))
  <2>1. 2 - 1 = 1
    OBVIOUS
  <2>2. 2 - 1 \in 1 .. Len(w) /\ w[2 - 1].isCmd
    BY <1>4, <1>6, <2>1, Zenon
  <2> QED
    BY <1>6, <2>2
<1>10. \A i, j \in 1 .. Len(w) : i < j /\ w[i].k # 0 /\ w[j].isCmd => w[i].msg < w[j].msg
  BY <1>6
<1>11. Line(c, n, w)
  BY <1>3, <1>7, <1>8, <1>9, <1>10 DEF Line, Packets
<1>12. On(w) = {m}
  <2>1. ASSUME NEW y \in On(w) PROVE y = m
    <3>1. PICK i \in 1 .. Len(w) : w[i].k # 0 /\ y = w[i].msg
      BY DEF On
    <3> QED
      BY <1>6, <3>1
  <2>2. m \in On(w)
    BY <1>1, <1>4, <1>6 DEF On
  <2> QED
    BY <2>1, <2>2
<1>13. ~ Headless(w)
  BY <1>6 DEF Headless
<1> QED
  BY <1>11, <1>12, <1>13 DEF w, m, z

(* One more has been sent by the Pi.                                        *)
LEMMA LineGrows ==
  ASSUME NEW c \in Clients, NEW n \in Seq(Nat), NEW z \in Nat, NEW s, Line(c, n, s)
  PROVE  Line(c, Append(n, z), s)
<1>1. /\ Append(n, z) \in Seq(Nat) /\ Len(Append(n, z)) = Len(n) + 1
      /\ \A i \in 1 .. Len(n) : Append(n, z)[i] = n[i] /\ i \in 1 .. Len(n) + 1
  BY Came
<1>2. \A i \in 1 .. Len(s) : s[i].k # 0 => s[i].from = c /\ s[i].msg \in 1 .. Len(n)
  BY DEF Line
<1>3. \A i \in 1 .. Len(s) : s[i].isCmd => s[i].k # 0 /\ s[i].k = Append(n, z)[s[i].msg]
  <2>1. \A i \in 1 .. Len(s) : s[i].isCmd => s[i].k # 0 /\ s[i].k = n[s[i].msg]
    BY DEF Line
  <2> QED
    BY <1>1, <1>2, <2>1
<1>4. \A i \in 1 .. Len(s) : s[i].k # 0 =>
        s[i].from = c /\ s[i].msg \in 1 .. Len(Append(n, z))
  BY <1>1, <1>2
<1> QED
  BY <1>3, <1>4 DEF Line

------------------------------------------------------------------------------
(* All connections of a client: u has been accepted, w not yet.  What was   *)
(* sent earlier is on an earlier one.                                       *)
InOrder(c, n, u, w) ==
  /\ Line(c, n, u)
  /\ \A i \in 1 .. Len(w) : Line(c, n, w[i]) /\ ~ Headless(w[i]) /\ Below(On(u), On(w[i]))
  /\ \A i, j \in 1 .. Len(w) : i < j => Below(On(w[i]), On(w[j]))

AllOn(u, w) == On(u) \cup UNION {On(w[i]) : i \in 1 .. Len(w)}

(* A new connection.                                                        *)
LEMMA OrderConnects ==
  ASSUME NEW c \in Clients, NEW n, NEW u, NEW w \in Seq(Packets), InOrder(c, n, u, w)
  PROVE  /\ InOrder(c, n, u, Append(w, <<>>)) /\ AllOn(u, Append(w, <<>>)) = AllOn(u, w)
<1> DEFINE r == Append(w, <<>>)
<1>1. <<>> \in Packets /\ Len(w) \in Nat
  BY DEF Packets
<1>2. /\ r \in Seq(Packets) /\ Len(r) = Len(w) + 1
      /\ \A i \in 1 .. Len(w) : r[i] = w[i]
      /\ r[Len(w) + 1] = <<>>
  BY <1>1, Came
<1> HIDE DEF r
<1>3. \A i \in 1 .. Len(r) : i \in 1 .. Len(w) \/ i = Len(w) + 1
  BY <1>1, <1>2
<1>4. /\ Line(c, n, <<>>) /\ ~ Headless(<<>>) /\ On(<<>>) = {}
      /\ \A S : Below(S, {}) /\ Below({}, S)
  BY EmptyLine DEF Below
<1>5. \A i \in 1 .. Len(r) : Line(c, n, r[i]) /\ ~ Headless(r[i]) /\ Below(On(u), On(r[i]))
  BY <1>2, <1>3, <1>4 DEF InOrder
<1>6. ASSUME NEW i \in 1 .. Len(r), NEW j \in 1 .. Len(r), i < j
      PROVE  Below(On(r[i]), On(r[j]))
  <2>1. CASE j = Len(w) + 1
    BY <1>2, <1>4, <2>1
  <2>2. CASE j \in 1 .. Len(w)
    <3>1. i \in 1 .. Len(w)
      BY <1>1, <1>6, <2>2
    <3> QED
      BY <1>2, <1>6, <2>2, <3>1 DEF InOrder
  <2> QED
    BY <1>3, <2>1, <2>2
<1>7. UNION {On(r[i]) : i \in 1 .. Len(r)} = UNION {On(w[i]) : i \in 1 .. Len(w)}
  <2>1. \A i \in 1 .. Len(w) : i \in 1 .. Len(r) /\ r[i] = w[i]
    BY <1>1, <1>2
  <2> QED
    BY <1>2, <1>3, <1>4, <2>1
<1>8. InOrder(c, n, u, r)
  BY <1>5, <1>6 DEF InOrder
<1> QED
  BY <1>7, <1>8 DEF AllOn, r

(* The first connection that waits is accepted.                             *)
LEMMA OrderAccepts ==
  ASSUME NEW c \in Clients, NEW n, NEW u, NEW w \in Seq(Packets), InOrder(c, n, u, w), w # <<>>
  PROVE  /\ InOrder(c, n, Head(w), Tail(w)) /\ ~ Headless(Head(w))
         /\ AllOn(u, w) = On(u) \cup AllOn(Head(w), Tail(w))
         /\ Below(On(u), AllOn(Head(w), Tail(w)))
<1> DEFINE h == Head(w)
           t == Tail(w)
<1>1. /\ h = w[1] /\ h \in Packets /\ 1 \in 1 .. Len(w) /\ Len(w) \in Nat
      /\ t \in Seq(Packets) /\ Len(t) = Len(w) - 1
      /\ \A i \in 1 .. Len(w) - 1 : t[i] = w[i + 1]
  BY Left
<1> HIDE DEF h, t
<1>2. \A i \in 1 .. Len(t) : i + 1 \in 1 .. Len(w) /\ 1 < i + 1 /\ t[i] = w[i + 1]
  BY <1>1
<1>3. Line(c, n, h) /\ ~ Headless(h) /\ Below(On(u), On(h))
  BY <1>1 DEF InOrder
<1>4. \A i \in 1 .. Len(t) : /\ Line(c, n, t[i]) /\ ~ Headless(t[i]) /\ Below(On(h), On(t[i]))
                             /\ Below(On(u), On(t[i]))
  BY <1>1, <1>2 DEF InOrder
<1>5. ASSUME NEW i \in 1 .. Len(t), NEW j \in 1 .. Len(t), i < j
      PROVE  Below(On(t[i]), On(t[j]))
  <2>1. i + 1 \in 1 .. Len(w) /\ j + 1 \in 1 .. Len(w) /\ i + 1 < j + 1
    BY <1>2, <1>5
  <2> QED
    BY <1>2, <2>1 DEF InOrder
<1>6. InOrder(c, n, h, t)
  BY <1>3, <1>4, <1>5 DEF InOrder
<1>7. UNION {On(w[i]) : i \in 1 .. Len(w)} = AllOn(h, t)
  <2>1. \A i \in 1 .. Len(w) : i = 1 \/ (i - 1 \in 1 .. Len(t) /\ t[i - 1] = w[i])
    <3>1. \A i \in 1 .. Len(w) : i # 1 => i - 1 \in 1 .. Len(w) - 1 /\ (i - 1) + 1 = i
      BY <1>1
    <3> QED
      BY <1>1, <3>1
  <2>2. ASSUME NEW m \in UNION {On(w[i]) : i \in 1 .. Len(w)} PROVE m \in AllOn(h, t)
    <3>1. PICK i \in 1 .. Len(w) : m \in On(w[i])
      BY <2>2
    <3> QED
      BY <1>1, <2>1, <3>1 DEF AllOn
  <2>3. ASSUME NEW m \in AllOn(h, t) PROVE m \in UNION {On(w[i]) : i \in 1 .. Len(w)}
    <3>1. CASE m \in On(h)
      BY <1>1, <3>1
    <3>2. CASE \E i \in 1 .. Len(t) : m \in On(t[i])
      BY <1>2, <3>2
    <3> QED
      BY <2>3, <3>1, <3>2 DEF AllOn
  <2> QED
    BY <2>2, <2>3
<1>8. Below(On(u), AllOn(h, t))
  BY <1>3, <1>4 DEF Below, AllOn
<1>9. AllOn(u, w) = On(u) \cup AllOn(h, t)
  BY <1>7 DEF AllOn
<1> QED
  BY <1>3, <1>6, <1>8, <1>9 DEF h, t

(* A message is written to the last connection that waits.                  *)
Written(w, x) == [w EXCEPT ![Len(w)] = @ \o x]

LEMMA OrderWritesLast ==
  ASSUME NEW c \in Clients, NEW n \in Seq(Nat), NEW u, NEW w \in Seq(Packets), w # <<>>,
         InOrder(c, n, u, w), NEW x, Line(c, n, x), ~ Headless(x), Below(AllOn(u, w), On(x))
  PROVE  InOrder(c, n, u, Written(w, x)) /\ AllOn(u, Written(w, x)) = AllOn(u, w) \cup On(x)
<1> DEFINE l == Len(w)
           y == w[l] \o x
           r == [w EXCEPT ![l] = y]
<1>1. l \in Nat /\ l \in 1 .. l /\ w \in [1 .. l -> Packets]
  OBVIOUS
<1>2. x \in Packets /\ Line(c, n, w[l]) /\ ~ Headless(w[l]) /\ Below(On(w[l]), On(x))
  <2> HIDE DEF l
  <2>1. x \in Packets
    BY DEF Line, Packets
  <2>2. l \in 1 .. Len(w)
    BY <1>1 DEF l
  <2>3. Line(c, n, w[l]) /\ ~ Headless(w[l])
    BY <2>2 DEF InOrder
  <2>4. Below(On(w[l]), On(x))
    BY <2>2 DEF AllOn, Below
  <2> QED
    BY <2>1, <2>3, <2>4
<1>3. Line(c, n, y) /\ On(y) = On(w[l]) \cup On(x) /\ ~ Headless(y)
  <2>1. /\ Line(c, n, w[l] \o x) /\ On(w[l] \o x) = On(w[l]) \cup On(x)
        /\ Headless(w[l] \o x) <=> Headless(w[l])
    BY <1>2, LineJoin
  <2> QED
    BY <1>2, <2>1
<1>4. y \in Packets
  BY <1>3 DEF Line, Packets
<1>5. /\ r \in Seq(Packets) /\ Len(r) = l /\ r[l] = y
      /\ \A i \in 1 .. l : i # l => r[i] = w[i]
  <2> HIDE DEF y, l
  <2>1. r \in [1 .. l -> Packets]
    BY <1>1, <1>4
  <2>2. r[l] = y /\ \A i \in 1 .. l : i # l => r[i] = w[i]
    BY <1>1
  <2> HIDE DEF r
  <2> QED
    BY <1>1, <2>1, <2>2
<1>6. r = Written(w, x)
  BY DEF Written
<1> HIDE DEF l, y, r
<1>7. \A i \in 1 .. l : /\ Line(c, n, w[i]) /\ ~ Headless(w[i]) /\ Below(On(u), On(w[i]))
                        /\ Below(On(w[i]), On(x)) /\ Below(On(u), On(x))
  BY DEF InOrder, l, AllOn, Below
<1>8. \A i \in 1 .. l : On(r[i]) = On(w[i]) \/ (i = l /\ On(r[i]) = On(w[i]) \cup On(x))
  BY <1>3, <1>5
<1>9. \A i \in 1 .. l : Line(c, n, r[i]) /\ ~ Headless(r[i]) /\ Below(On(u), On(r[i]))
  <2>1. ASSUME NEW i \in 1 .. l PROVE Line(c, n, r[i]) /\ ~ Headless(r[i])
    BY <1>3, <1>5, <1>7
  <2>2. \A i \in 1 .. l : Below(On(u), On(r[i]))
    BY <1>7, <1>8 DEF Below
  <2> QED
    BY <2>1, <2>2
<1>10. ASSUME NEW i \in 1 .. l, NEW j \in 1 .. l, i < j
       PROVE  Below(On(r[i]), On(r[j]))
  <2>1. i # l /\ On(r[i]) = On(w[i])
    BY <1>1, <1>5, <1>10
  <2>2. Below(On(w[i]), On(w[j])) /\ Below(On(w[i]), On(x))
    BY <1>7, <1>10 DEF InOrder, l
  <2> QED
    BY <1>8, <2>1, <2>2 DEF Below
<1>11. InOrder(c, n, u, r)
  BY <1>5, <1>9, <1>10 DEF InOrder
<1>12. AllOn(u, r) = AllOn(u, w) \cup On(x)
  <2>1. \A i \in 1 .. l : On(r[i]) \subseteq On(w[i]) \cup On(x) /\ On(w[i]) \subseteq On(r[i])
    BY <1>8
  <2>2. On(x) \subseteq On(r[l]) /\ l \in 1 .. l
    BY <1>1, <1>3, <1>5
  <2>3. AllOn(u, r) \subseteq AllOn(u, w) \cup On(x)
    BY <1>5, <2>1 DEF AllOn, l
  <2>4. AllOn(u, w) \cup On(x) \subseteq AllOn(u, r)
    BY <1>5, <2>1, <2>2 DEF AllOn, l
  <2> QED
    BY <2>3, <2>4
<1> QED
  BY <1>6, <1>11, <1>12

(* A message is written to the accepted connection, none waits.             *)
LEMMA OrderWrites ==
  ASSUME NEW c \in Clients, NEW n \in Seq(Nat), NEW u,
         InOrder(c, n, u, <<>>), NEW x, Line(c, n, x), ~ Headless(x), Below(AllOn(u, <<>>), On(x))
  PROVE  /\ InOrder(c, n, u \o x, <<>>) /\ AllOn(u \o x, <<>>) = AllOn(u, <<>>) \cup On(x)
         /\ Headless(u \o x) <=> Headless(u)
         /\ u # <<>> => (u \o x)[1] = u[1]
<1>1. 1 .. Len(<<>>) = {}
  OBVIOUS
<1>2. Line(c, n, u) /\ Below(On(u), On(x))
  BY DEF InOrder, AllOn, Below
<1>3. /\ Line(c, n, u \o x) /\ On(u \o x) = On(u) \cup On(x)
      /\ Headless(u \o x) <=> Headless(u)
      /\ u # <<>> => (u \o x)[1] = u[1]
  BY <1>2, LineJoin
<1>4. InOrder(c, n, u \o x, <<>>)
  BY <1>1, <1>3 DEF InOrder
<1>5. AllOn(u \o x, <<>>) = On(u \o x) /\ AllOn(u, <<>>) = On(u)
  BY <1>1 DEF AllOn
<1> QED
  BY <1>3, <1>4, <1>5

(* A packet is read.                                                        *)
LEMMA OrderReads ==
  ASSUME NEW c \in Clients, NEW n \in Seq(Nat), NEW u, NEW w, InOrder(c, n, u, w), u # <<>>
  PROVE  /\ InOrder(c, n, Tail(u), w)
         /\ ~ Headless(u) => AllOn(Tail(u), w) = AllOn(u, w)
         /\ Headless(u) => /\ u[1].msg \in AllOn(u, w)
                           /\ AllOn(Tail(u), w) = AllOn(u, w) \ {u[1].msg}
                           /\ Below({u[1].msg}, AllOn(Tail(u), w))
<1> DEFINE t == Tail(u)
<1>1. /\ u[1] \in PacketType /\ Line(c, n, t)
      /\ On(u) = On(t) \cup (IF u[1].k # 0 THEN {u[1].msg} ELSE {})
      /\ Headless(t) <=> u[1].isCmd
      /\ u[1].isCmd => t[1] = Packet(FALSE, c, u[1].msg, 1)
      /\ Headless(u) => Below({u[1].msg}, On(t))
  BY LineTail DEF InOrder
<1> HIDE DEF t
<1>2. InOrder(c, n, t, w)
  BY <1>1 DEF InOrder, Below
<1>3. ASSUME ~ Headless(u) PROVE On(u) = On(t)
  <2>1. CASE u[1].k = 0
    BY <1>1, <2>1
  <2>2. CASE u[1].isCmd
    <3>1. Line(c, n, t) /\ Headless(t)
      BY <1>1, <2>2
    <3>2. 1 \in 1 .. Len(t)
      BY <3>1 DEF Line, Headless
    <3>3. t[1].k # 0 /\ t[1].msg = u[1].msg
      BY <1>1, <2>2 DEF Packet
    <3>4. u[1].msg \in On(t)
      BY <3>2, <3>3 DEF On
    <3> QED
      BY <1>1, <3>4
  <2> QED
    BY <1>3, <2>1, <2>2 DEF Headless
<1>4. ASSUME Headless(u)
      PROVE  /\ u[1].msg \in AllOn(u, w) /\ AllOn(t, w) = AllOn(u, w) \ {u[1].msg}
             /\ Below({u[1].msg}, AllOn(t, w))
  <2>1. u[1].k # 0 /\ u[1].msg \in On(u) /\ On(u) = On(t) \cup {u[1].msg} /\ u[1].msg \in Nat
    BY <1>1, <1>4 DEF Headless, PacketType
  <2>2. Below({u[1].msg}, AllOn(t, w))
    BY <1>1, <1>4, <2>1, ZenonT(40) DEF InOrder, Below, AllOn
  <2>3. u[1].msg \notin AllOn(t, w)
    BY <2>1, <2>2 DEF Below
  <2> QED
    BY <2>1, <2>2, <2>3 DEF AllOn
<1> QED
  BY <1>2, <1>3, <1>4 DEF AllOn, t

(* The Pi sends one more.                                                   *)
LEMMA OrderGrows ==
  ASSUME NEW c \in Clients, NEW n \in Seq(Nat), NEW z \in Nat, NEW u, NEW w, InOrder(c, n, u, w)
  PROVE  InOrder(c, Append(n, z), u, w)
BY LineGrows DEF InOrder

LEMMA OrderSent ==
  ASSUME NEW c \in Clients, NEW n \in Seq(Nat), NEW u, NEW w, InOrder(c, n, u, w)
  PROVE  AllOn(u, w) \subseteq 1 .. Len(n)
BY OnLine DEF InOrder, AllOn

------------------------------------------------------------------------------
(* The message c has not put on a line yet.                                 *)
ToSend(c) == IF job[c] = 0 THEN {} ELSE {Len(hist.sent[c])}

OnWay(c) == AllOn(up[c], waiting[c]) \cup ToSend(c)

(* What is on the way is in order, and on the connection that was made last *)
(* more can be written.                                                     *)
LinesOK(c) ==
  /\ InOrder(c, hist.sent[c], up[c], waiting[c])
  /\ Below(AllOn(up[c], waiting[c]), ToSend(c))
  /\ job[c] # 0 => hist.sent[c] # <<>> /\ hist.sent[c][Len(hist.sent[c])] = job[c]
  /\ conn[c] = "waiting" => waiting[c] # <<>>
  /\ conn[c] = "accepted" => waiting[c] = <<>>

Strays(q) == \A i \in 1 .. Len(q) : q[i].k = 0

(* The entry is not full, and where it waits for the data that is next on   *)
(* the line, it has no piece of a message.                                  *)
EntryWaits(e, n, s) ==
  \/ e = NoMsg
  \/ /\ e.has_cmd /\ Len(e.data) < e.totPckts
     /\ Headless(s) => e.totPckts = n[s[1].msg] /\ Strays(e.data)

EntryOK(c) == EntryWaits(entry[c], hist.sent[c], up[c])

IsShort(q, n) == \E m \in 1 .. Len(n) : n[m] = 1 /\ q = <<[msg |-> m, k |-> 1]>>

(* The pieces put together that have no packet in them that is no piece.    *)
Plain(q) == {i \in 1 .. Len(q) : ~ Mixed(q[i])}

(* What has arrived is older than what is on the way.                       *)
QueueOK(c) ==
  /\ \A i \in Plain(queue[c]) : IsShort(queue[c][i], hist.sent[c])
  /\ \A i \in Plain(queue[c]) : Below({queue[c][i][1].msg}, OnWay(c))
  /\ \A i, j \in Plain(queue[c]) : i < j => queue[c][i][1].msg < queue[c][j][1].msg

Arrives(c) == LinesOK(c) /\ EntryOK(c) /\ QueueOK(c)

ArriveInv == RelayTypes /\ \A c \in Clients : Arrives(c)

------------------------------------------------------------------------------
(* What a step does to the messages of c.  Whether its entry is out of step *)
(* with its line: it waits for data that is not next, or not for data that  *)
(* is.                                                                      *)
OutOfStep(c) == ~ (entry[c].has_cmd <=> Headless(up[c]))

Owed(c) == IF OutOfStep(c) THEN 1 ELSE 0

Count(c) == Cardinality(Plain(queue[c]))

(* Its Pi sends one more.                                                   *)
Sends(c) ==
  /\ \E z \in Nat : hist'.sent[c] = Append(hist.sent[c], z)
  /\ OnWay(c)' = OnWay(c) \cup {Len(hist.sent[c]) + 1} /\ queue'[c] = queue[c]
  /\ hist'.lost[c] = hist.lost[c] /\ hist'.strays[c] = hist.strays[c]
  /\ Owed(c)' = Owed(c)

(* The data of message m is read: the message arrives, or begins what is    *)
(* never complete, or is ignored, or is put to what has strays in it.       *)
Ends(c, m) ==
  /\ hist' = hist /\ m \in OnWay(c) /\ OnWay(c)' = OnWay(c) \ {m}
  /\ \/ Owed(c) = 0 /\ Owed(c)' = 0 /\ hist.sent[c][m] = 1 /\ Count(c)' = Count(c) + 1
     \/ Owed(c) = 0 /\ hist.sent[c][m] # 1 /\ Count(c)' = Count(c)
     \/ Owed(c) = 1 /\ Owed(c)' = 0 /\ Count(c)' = Count(c)

(* Packets are lost, k of them, and with them the messages of B; or strays  *)
(* come; or nothing happens to what is counted.                             *)
Loses(c, B, k) ==
  /\ hist'.sent[c] = hist.sent[c] /\ Count(c)' = Count(c)
  /\ OnWay(c)' = OnWay(c) \ B /\ IsFiniteSet(B) /\ Cardinality(B) <= k
  /\ hist'.lost[c] = hist.lost[c] + k /\ hist'.strays[c] >= hist.strays[c]
  /\ Owed(c)' <= Owed(c) + k + (hist'.strays[c] - hist.strays[c])

Effect(c) ==
  Sends(c) \/ (\E m \in Nat : Ends(c, m)) \/ \E k \in Nat, B \in SUBSET Nat : Loses(c, B, k)

Follows(c) == Arrives(c)' /\ Effect(c)

(* No packet and no message of c moves.                                     *)
SameFor(c) ==
  /\ job'[c] = job[c] /\ conn'[c] = conn[c] /\ waiting'[c] = waiting[c] /\ up'[c] = up[c]
  /\ entry'[c] = entry[c] /\ queue'[c] = queue[c] /\ hist'.sent[c] = hist.sent[c]
  /\ hist'.lost[c] = hist.lost[c] /\ hist'.strays[c] = hist.strays[c]

(* Nothing is lost and no stray comes.                                      *)
LEMMA Nothing ==
  ASSUME RelayTypes, NEW c \in Clients, hist'.sent[c] = hist.sent[c], Count(c)' = Count(c),
         OnWay(c)' = OnWay(c), hist'.lost[c] = hist.lost[c], hist'.strays[c] = hist.strays[c],
         Owed(c)' = Owed(c)
  PROVE  Effect(c)
<1>1. hist.lost[c] \in Nat /\ hist.strays[c] \in Nat /\ Owed(c) \in {0, 1}
  BY Part DEF Owed
<1>2. IsFiniteSet({}) /\ Cardinality({}) = 0
  BY FS_EmptySet
<1>3. Loses(c, {}, 0)
  <2>1. /\ Cardinality({}) <= 0 /\ hist'.lost[c] = hist.lost[c] + 0
        /\ hist'.strays[c] >= hist.strays[c]
        /\ Owed(c)' <= Owed(c) + 0 + (hist'.strays[c] - hist.strays[c])
    <3> HIDE DEF Owed
    <3> QED
      BY <1>1, <1>2
  <2> QED
    BY <1>2, <2>1 DEF Loses
<1>4. 0 \in Nat /\ {} \in SUBSET Nat
  OBVIOUS
<1> QED
  BY <1>3, <1>4 DEF Effect

LEMMA OthersFollow ==
  ASSUME RelayTypes, NEW c \in Clients, Arrives(c), SameFor(c)
  PROVE  Follows(c)
<1>1. OnWay(c)' = OnWay(c) /\ ToSend(c)' = ToSend(c)
  BY DEF OnWay, ToSend, SameFor
<1>2. LinesOK(c)'
  BY <1>1 DEF LinesOK, SameFor, Arrives
<1>3. EntryOK(c)'
  BY DEF EntryOK, SameFor, Arrives
<1>4. QueueOK(c)'
  BY <1>1 DEF QueueOK, SameFor, Arrives
<1>5. Owed(c)' = Owed(c) /\ Count(c)' = Count(c)
  BY DEF Owed, OutOfStep, Count, SameFor
<1>6. Effect(c)
  BY <1>1, <1>5, Nothing DEF SameFor
<1> QED
  BY <1>2, <1>3, <1>4, <1>6 DEF Arrives, Follows

(* Nothing comes to the Pi, and no line gets headless.                      *)
LEMMA Quiet ==
  ASSUME NEW c \in Clients, Arrives(c), entry'[c] = entry[c], queue'[c] = queue[c],
         hist'.sent[c] = hist.sent[c], OnWay(c)' \subseteq OnWay(c),
         Headless(up'[c]) => Headless(up[c]) /\ up'[c][1] = up[c][1]
  PROVE  EntryOK(c)' /\ QueueOK(c)'
<1>1. EntryOK(c)'
  BY DEF Arrives, EntryOK, EntryWaits
<1>2. QueueOK(c)'
  BY DEF Arrives, QueueOK, Below
<1> QED
  BY <1>1, <1>2

LEMMA InitArrive == Init => ArriveInv
<1> SUFFICES ASSUME Init PROVE ArriveInv
  OBVIOUS
<1>1. RelayTypes
  BY InitTypes
<1>2. ASSUME NEW c \in Clients PROVE Arrives(c)
  <2>1. /\ job[c] = 0 /\ waiting[c] = <<>> /\ up[c] = <<>> /\ entry[c] = NoMsg
        /\ queue[c] = <<>> /\ Len(queue[c]) = 0 /\ hist.sent[c] = <<>> /\ conn[c] = "none"
    BY DEF Init
  <2>2. InOrder(c, <<>>, <<>>, <<>>)
    <3>1. 1 .. Len(<<>>) = {}
      OBVIOUS
    <3> QED
      BY <3>1, EmptyLine DEF InOrder
  <2>3. LinesOK(c)
    BY <2>1, <2>2 DEF LinesOK, Below, ToSend
  <2>4. EntryOK(c)
    BY <2>1 DEF EntryOK, EntryWaits
  <2>5. QueueOK(c)
    BY <2>1 DEF QueueOK, Plain
  <2> QED
    BY <2>3, <2>4, <2>5 DEF Arrives
<1> QED
  BY <1>1, <1>2 DEF ArriveInv

(* What c has sent, with its types, out of the invariant.                   *)
LEMMA PartArrives ==
  ASSUME ArriveInv, NEW c \in Clients
  PROVE  /\ RelayTypes /\ Arrives(c)
         /\ hist.sent[c] \in Seq(Nat) /\ hist.sent[c] \in Seq(Nat \ {0})
         /\ Len(hist.sent[c]) \in Nat
         /\ InOrder(c, hist.sent[c], up[c], waiting[c]) /\ waiting[c] \in Seq(Packets)
         /\ AllOn(up[c], waiting[c]) \subseteq 1 .. Len(hist.sent[c])
         /\ OnWay(c) \subseteq 1 .. Len(hist.sent[c])
<1>1. /\ RelayTypes /\ Arrives(c) /\ hist.sent[c] \in Seq(Nat) /\ hist.sent[c] \in Seq(Nat \ {0})
      /\ Len(hist.sent[c]) \in Nat /\ waiting[c] \in Seq(Packets)
  BY Part DEF ArriveInv
<1>2. InOrder(c, hist.sent[c], up[c], waiting[c])
  BY <1>1 DEF Arrives, LinesOK
<1>3. AllOn(up[c], waiting[c]) \subseteq 1 .. Len(hist.sent[c])
  BY <1>1, <1>2, OrderSent
<1>4. ToSend(c) \subseteq 1 .. Len(hist.sent[c])
  BY <1>1 DEF ToSend, Arrives, LinesOK
<1> QED
  BY <1>1, <1>2, <1>3, <1>4 DEF OnWay

LEMMA SendCmdFollows ==
  ASSUME ArriveInv, RelayTypes', NEW c \in Clients, NEW z \in Sizes, send_cmd(c, z)
  PROVE  \A d \in Clients : Follows(d)
<1> DEFINE n == hist.sent[c]
           N == Append(n, z)
           A == AllOn(up[c], waiting[c])
<1>1. z \in Nat /\ z # 0 /\ z \in Nat \ {0}
  BY EspRelayAssumption
<1>2. /\ RelayTypes /\ Arrives(c) /\ n \in Seq(Nat) /\ Len(n) \in Nat
      /\ InOrder(c, n, up[c], waiting[c]) /\ A \subseteq 1 .. Len(n)
      /\ OnWay(c) \subseteq 1 .. Len(n) /\ n \in Seq(Nat \ {0})
  BY PartArrives
<1>3. /\ job[c] = 0 /\ job' = [job EXCEPT ![c] = z]
      /\ hist' = [hist EXCEPT !.sent = [hist.sent EXCEPT ![c] = N]]
      /\ UNCHANGED <<conn, waiting, up, entry, queue>>
  BY DEF send_cmd, piVars
<1>4. /\ N \in Seq(Nat) /\ Len(N) = Len(n) + 1
      /\ \A i \in 1 .. Len(n) : N[i] = n[i]
      /\ N[Len(n) + 1] = z
  BY <1>1, <1>2, Came
<1>5. /\ job'[c] = z /\ hist'.sent[c] = N /\ hist'.lost = hist.lost /\ hist'.strays = hist.strays
      /\ \A d \in Clients : d # c => job'[d] = job[d] /\ hist'.sent[d] = hist.sent[d]
  BY <1>2, <1>3 DEF RelayTypes, HistType
<1>6. \A d \in Clients : d # c => SameFor(d)
  BY <1>3, <1>5 DEF SameFor
<1>7. \A d \in Clients : d # c => Follows(d)
  BY <1>2, <1>6, OthersFollow DEF ArriveInv
<1>8. InOrder(c, N, up[c], waiting[c])
  BY <1>1, <1>2, OrderGrows
<1>9. ToSend(c)' = {Len(n) + 1} /\ OnWay(c) = A /\ OnWay(c)' = A \cup {Len(n) + 1}
  <2> HIDE DEF N
  <2>1. ToSend(c)' = {Len(n) + 1} /\ ToSend(c) = {}
    BY <1>1, <1>3, <1>4, <1>5 DEF ToSend
  <2> QED
    BY <1>3, <2>1 DEF OnWay
<1>10. conn[c] = "waiting" => waiting[c] # <<>>
  BY <1>2 DEF Arrives, LinesOK
<1>11. conn[c] = "accepted" => waiting[c] = <<>>
  BY <1>2 DEF Arrives, LinesOK
<1>12. EntryWaits(entry[c], n, up[c])
  BY <1>2 DEF Arrives, EntryOK
<1>13. /\ \A i \in Plain(queue[c]) :
            IsShort(queue[c][i], n) /\ Below({queue[c][i][1].msg}, OnWay(c))
       /\ \A i, j \in Plain(queue[c]) : i < j => queue[c][i][1].msg < queue[c][j][1].msg
  BY <1>2 DEF Arrives, QueueOK
<1>14. A = AllOn(up[c], waiting[c])
  OBVIOUS
<1>15. hist.sent[c] = n
  OBVIOUS
<1>16. hist'.sent[c] = Append(n, z)
  BY <1>5
<1> HIDE DEF n, N, A
<1>17. \A i \in 1 .. Len(n) : i < Len(n) + 1 /\ i \in 1 .. Len(N)
  BY <1>2, <1>4
<1>18. LinesOK(c)'
  <2>1. Below(A, {Len(n) + 1})
    BY <1>2, <1>17 DEF Below
  <2>2. N # <<>> /\ N[Len(N)] = z
    BY <1>2, <1>4
  <2>3. AllOn(up[c], waiting[c])' = A /\ waiting[c]' = waiting[c] /\ conn[c]' = conn[c]
    BY <1>3, <1>14
  <2>4. InOrder(c, hist.sent[c], up[c], waiting[c])'
    BY <1>3, <1>5, <1>8
  <2>5. Below(AllOn(up[c], waiting[c])', ToSend(c)')
    BY <1>9, <2>1, <2>3
  <2> QED
    BY <1>5, <1>10, <1>11, <2>2, <2>3, <2>4, <2>5 DEF LinesOK
<1>19. EntryOK(c)'
  <2>1. ASSUME Headless(up[c]) PROVE N[up[c][1].msg] = n[up[c][1].msg]
    <3>1. 1 \in 1 .. Len(up[c]) /\ up[c][1].k # 0
      BY <1>2, <2>1 DEF Headless, InOrder, Line
    <3>2. up[c][1].msg \in A
      BY <1>14, <3>1 DEF AllOn, On
    <3> QED
      BY <1>2, <1>4, <3>2
  <2>2. EntryWaits(entry[c], N, up[c])
    BY <1>12, <2>1 DEF EntryWaits
  <2> QED
    BY <1>3, <1>5, <2>2 DEF EntryOK
<1>20. QueueOK(c)'
  <2>1. ASSUME NEW i \in Plain(queue[c])
        PROVE  IsShort(queue[c][i], N) /\ Below({queue[c][i][1].msg}, OnWay(c)')
    <3>1. PICK m \in 1 .. Len(n) : n[m] = 1 /\ queue[c][i] = <<[msg |-> m, k |-> 1]>>
      BY <1>13 DEF IsShort
    <3>2. queue[c][i][1].msg = m
      BY <3>1
    <3>3. Below({m}, OnWay(c)')
      BY <1>9, <1>13, <1>17, <3>2 DEF Below
    <3> QED
      BY <1>4, <1>17, <3>1, <3>2, <3>3 DEF IsShort
  <2> QED
    BY <1>3, <1>5, <1>13, <2>1 DEF QueueOK
<1>21. Sends(c)
  <2>1. Owed(c)' = Owed(c)
    BY <1>3 DEF Owed, OutOfStep
  <2> QED
    BY <1>1, <1>3, <1>5, <1>9, <1>15, <1>16, <2>1 DEF Sends
<1> QED
  BY <1>7, <1>18, <1>19, <1>20, <1>21 DEF Follows, Effect, Arrives

(* A connection that is made, or a try that fails.                          *)
LEMMA ConnectFollows ==
  ASSUME ArriveInv, NEW c \in Clients, NEW r \in BOOLEAN, ConnectTo(c, r), RelayTypes',
         UNCHANGED <<job, up, entry, queue>>, hist'.sent = hist.sent, hist'.lost = hist.lost,
         hist'.strays = hist.strays
  PROVE  \A d \in Clients : Follows(d)
<1> DEFINE n == hist.sent[c]
           w == IF r THEN Append(waiting[c], <<>>) ELSE waiting[c]
<1>1. /\ RelayTypes /\ Arrives(c) /\ waiting[c] \in Seq(Packets) /\ InOrder(c, n, up[c], waiting[c])
  BY PartArrives
<1>2. /\ conn'[c] = (IF r THEN "waiting" ELSE "none") /\ waiting'[c] = w
      /\ \A d \in Clients : d # c => conn'[d] = conn[d] /\ waiting'[d] = waiting[d]
  BY <1>1 DEF ConnectTo, RelayTypes
<1>3. InOrder(c, n, up[c], w) /\ AllOn(up[c], w) = AllOn(up[c], waiting[c])
  BY <1>1, OrderConnects
<1>4. r => w # <<>>
  BY <1>1, Came
<1>5. \A d \in Clients : d # c => SameFor(d)
  BY <1>2 DEF SameFor
<1>6. \A d \in Clients : d # c => Follows(d)
  BY <1>1, <1>5, OthersFollow DEF ArriveInv
<1> HIDE DEF w
<1>7. ToSend(c)' = ToSend(c)
  BY DEF ToSend
<1>8. OnWay(c)' = OnWay(c)
  BY <1>2, <1>3, <1>7 DEF OnWay
<1>9. LinesOK(c)'
  BY <1>1, <1>2, <1>3, <1>4, <1>7 DEF LinesOK, Arrives
<1>10. EntryOK(c)' /\ QueueOK(c)'
  BY <1>1, <1>8, Quiet
<1>11. Effect(c)
  <2>1. Owed(c)' = Owed(c) /\ Count(c)' = Count(c)
    BY DEF Owed, OutOfStep, Count
  <2> QED
    BY <1>1, <1>8, <2>1, Nothing
<1> QED
  BY <1>6, <1>9, <1>10, <1>11 DEF Follows, Arrives

LEMMA SendMsgFollows ==
  ASSUME ArriveInv, RelayTypes', NEW c \in Clients, send_msg(c)
  PROVE  \A d \in Clients : Follows(d)
<1> DEFINE n == hist.sent[c]
           u == up[c]
           v == waiting[c]
<1>1. /\ RelayTypes /\ Arrives(c) /\ n \in Seq(Nat) /\ n \in Seq(Nat \ {0}) /\ Len(n) \in Nat
      /\ InOrder(c, n, u, v) /\ v \in Seq(Packets)
  BY PartArrives
<1>2. /\ job[c] # 0 /\ conn[c] # "none" /\ job' = [job EXCEPT ![c] = 0]
      /\ UNCHANGED <<conn, entry, queue, hist>>
  BY DEF send_msg, piVars
<1>3. PICK x \in [1 .. job[c] - 1 -> Clients \cup Others] :
        LET w == Wire(c, Len(n), job[c], x)
        IN  IF conn[c] = "waiting"
              THEN waiting' = [waiting EXCEPT ![c][Len(waiting[c])] = @ \o w] /\ UNCHANGED up
              ELSE up' = [up EXCEPT ![c] = @ \o w] /\ UNCHANGED waiting
  BY DEF send_msg
<1> DEFINE w == Wire(c, Len(n), job[c], x)
<1>4. /\ n # <<>> /\ n[Len(n)] = job[c] /\ ToSend(c) = {Len(n)} /\ Below(AllOn(u, v), {Len(n)})
      /\ (conn[c] = "waiting" => v # <<>>) /\ (conn[c] = "accepted" => v = <<>>)
  BY <1>1, <1>2 DEF Arrives, LinesOK, ToSend
<1>5. Line(c, n, w) /\ ~ Headless(w) /\ On(w) = {Len(n)}
  BY <1>1, <1>4, WireLine
<1>6. /\ job'[c] = 0 /\ ToSend(c)' = {} /\ \A d \in Clients : d # c => job'[d] = job[d]
  BY <1>1, <1>2 DEF RelayTypes, ToSend
<1>7. conn[c] \in {"none", "waiting", "accepted"}
  BY <1>1, Part
<1>8. conn[c] = "waiting" =>
        waiting' = [waiting EXCEPT ![c] = [v EXCEPT ![Len(v)] = @ \o w]] /\ up' = up
  BY <1>3
<1>9. conn[c] # "waiting" => up' = [up EXCEPT ![c] = u \o w] /\ waiting' = waiting
  BY <1>3
<1>10. hist'.sent[c] = n
  BY <1>2
<1>11. u = up[c] /\ v = waiting[c] /\ n = hist.sent[c]
  OBVIOUS
<1> HIDE DEF w, n, u, v
<1>12. /\ InOrder(c, n, up'[c], waiting'[c])
       /\ AllOn(up'[c], waiting'[c]) = AllOn(u, v) \cup {Len(n)}
       /\ (conn[c] = "waiting" => waiting'[c] # <<>>)
       /\ (conn[c] = "accepted" => waiting'[c] = <<>>)
       /\ Headless(up'[c]) <=> Headless(u)
       /\ Headless(u) => up'[c][1] = u[1]
       /\ \A d \in Clients : d # c => up'[d] = up[d] /\ waiting'[d] = waiting[d]
  <2>1. CASE conn[c] = "waiting"
    <3> DEFINE r == [v EXCEPT ![Len(v)] = @ \o w]
    <3>1. /\ n \in Seq(Nat) /\ v \in Seq(Packets) /\ v # <<>> /\ InOrder(c, n, u, v)
          /\ Line(c, n, w) /\ ~ Headless(w) /\ Below(AllOn(u, v), On(w))
      BY <1>1, <1>4, <1>5, <2>1
    <3>8. r = Written(v, w)
      BY DEF Written
    <3>3. r # <<>>
      <4>1. DOMAIN r = DOMAIN v /\ DOMAIN v = 1 .. Len(v) /\ Len(v) \in Nat /\ Len(v) # 0
        BY <1>1, <3>1
      <4>2. 1 \in DOMAIN r
        BY <4>1
      <4>3. DOMAIN <<>> = {}
        OBVIOUS
      <4> HIDE DEF r
      <4> QED
        BY <4>2, <4>3
    <3> HIDE DEF r
    <3>2. InOrder(c, n, u, r) /\ AllOn(u, r) = AllOn(u, v) \cup On(w)
      BY <3>1, <3>8, OrderWritesLast
    <3>4. waiting' = [waiting EXCEPT ![c] = r] /\ up' = up
      BY <1>8, <2>1 DEF r
    <3>5. waiting'[c] = r /\ \A d \in Clients : d # c => waiting'[d] = waiting[d]
      BY <1>1, <3>4 DEF RelayTypes
    <3> QED
      BY <1>5, <1>11, <2>1, <3>2, <3>3, <3>4, <3>5
  <2>2. CASE conn[c] = "accepted"
    <3>1. v = <<>>
      BY <1>4, <2>2
    <3>7. /\ n \in Seq(Nat) /\ InOrder(c, n, u, <<>>) /\ Line(c, n, w) /\ ~ Headless(w)
          /\ Below(AllOn(u, <<>>), On(w))
      BY <1>1, <1>4, <1>5, <3>1
    <3>2. /\ InOrder(c, n, u \o w, <<>>) /\ AllOn(u \o w, <<>>) = AllOn(u, <<>>) \cup On(w)
          /\ Headless(u \o w) <=> Headless(u)
          /\ u # <<>> => (u \o w)[1] = u[1]
      BY <3>7, OrderWrites
    <3>3. up' = [up EXCEPT ![c] = u \o w] /\ waiting' = waiting
      BY <1>9, <2>2
    <3>4. up'[c] = u \o w /\ \A d \in Clients : d # c => up'[d] = up[d]
      BY <1>1, <3>3 DEF RelayTypes
    <3>5. Headless(u) => u # <<>>
      BY DEF Headless
    <3>6. waiting'[c] = <<>> /\ conn[c] # "waiting"
      BY <1>11, <2>2, <3>1, <3>3
    <3> QED
      BY <1>5, <3>1, <3>2, <3>3, <3>4, <3>5, <3>6
  <2> QED
    BY <1>2, <1>7, <2>1, <2>2
<1>13. OnWay(c)' = OnWay(c)
  <2>1. OnWay(c) = AllOn(u, v) \cup {Len(n)}
    BY <1>4, <1>11 DEF OnWay
  <2> QED
    BY <1>6, <1>12, <2>1 DEF OnWay
<1>14. LinesOK(c)'
  <2>1. job[c]' = 0 /\ conn[c]' = conn[c]
    BY <1>2, <1>6
  <2> QED
    BY <1>6, <1>10, <1>12, <2>1 DEF LinesOK, Below
<1>15. EntryOK(c)' /\ QueueOK(c)'
  <2>1. entry'[c] = entry[c] /\ queue'[c] = queue[c] /\ hist'.sent[c] = hist.sent[c]
    BY <1>2
  <2>2. Headless(up'[c]) => Headless(up[c]) /\ up'[c][1] = up[c][1]
    BY <1>11, <1>12
  <2> QED
    BY <1>1, <1>13, <2>1, <2>2, Quiet
<1>16. Effect(c)
  <2>1. Owed(c)' = Owed(c) /\ Count(c)' = Count(c)
    BY <1>2, <1>11, <1>12 DEF Owed, OutOfStep, Count
  <2> QED
    BY <1>1, <1>2, <1>13, <2>1, Nothing
<1>17. \A d \in Clients : d # c => SameFor(d)
  BY <1>2, <1>6, <1>12 DEF SameFor
<1>18. \A d \in Clients : d # c => Follows(d)
  BY <1>1, <1>17, OthersFollow DEF ArriveInv
<1> QED
  BY <1>14, <1>15, <1>16, <1>18 DEF Follows, Arrives

LEMMA UpTo ==
  ASSUME NEW n \in Nat
  PROVE  IsFiniteSet(1 .. n) /\ Cardinality(1 .. n) = n
<1>1. IsFiniteSet(1 .. n) /\ Cardinality(1 .. n) = IF 1 > n THEN 0 ELSE n - 1 + 1
  BY FS_Interval
<1> QED
  BY <1>1

(* A line has no more messages than packets.                                *)
LEMMA FewOn ==
  ASSUME NEW s \in Seq(PacketType)
  PROVE  IsFiniteSet(On(s)) /\ Cardinality(On(s)) \in Nat /\ Cardinality(On(s)) <= Len(s)
<1> DEFINE I == {i \in 1 .. Len(s) : s[i].k # 0}
           f == [i \in I |-> s[i].msg]
<1>1. Len(s) \in Nat /\ IsFiniteSet(1 .. Len(s)) /\ Cardinality(1 .. Len(s)) = Len(s)
  <2>1. Len(s) \in Nat
    OBVIOUS
  <2> QED
    BY <2>1, UpTo
<1>2. I \in SUBSET (1 .. Len(s))
  OBVIOUS
<1>3. f \in Surjection(I, On(s))
  BY DEF Surjection, On
<1> HIDE DEF I, f
<1>4. IsFiniteSet(I) /\ Cardinality(I) <= Cardinality(1 .. Len(s))
  BY <1>1, <1>2, FS_Subset
<1>5. IsFiniteSet(On(s)) /\ Cardinality(On(s)) <= Cardinality(I)
  BY <1>3, <1>4, FS_Surjection
<1>6. Cardinality(I) \in Nat /\ Cardinality(On(s)) \in Nat
  BY <1>4, <1>5, FS_CardinalityType
<1> QED
  BY <1>1, <1>4, <1>5, <1>6

(* With a connection go at most as many messages as packets, and one more   *)
(* may be owed.                                                             *)
LEMMA AcceptFollows ==
  ASSUME ArriveInv, RelayTypes', NEW c \in Clients, accept(c)
  PROVE  \A d \in Clients : Follows(d)
<1> DEFINE n == hist.sent[c]
           u == up[c]
           v == waiting[c]
           A == AllOn(Head(v), Tail(v))
<1>1. /\ RelayTypes /\ Arrives(c) /\ n \in Seq(Nat) /\ Len(n) \in Nat
      /\ InOrder(c, n, u, v) /\ v \in Seq(Packets) /\ AllOn(u, v) \subseteq 1 .. Len(n)
  BY PartArrives
<1>2. /\ v # <<>> /\ up' = [up EXCEPT ![c] = Head(v)] /\ waiting' = [waiting EXCEPT ![c] = Tail(v)]
      /\ conn' = [conn EXCEPT ![c] =
                    IF conn[c] = "waiting" /\ Len(v) = 1 THEN "accepted" ELSE conn[c]]
      /\ hist' = [hist EXCEPT !.lost = [hist.lost EXCEPT ![c] = hist.lost[c] + Len(u)]]
      /\ UNCHANGED <<job, entry, queue>>
  BY DEF accept, piVars
<1>3. /\ InOrder(c, n, Head(v), Tail(v)) /\ ~ Headless(Head(v))
      /\ AllOn(u, v) = On(u) \cup A /\ Below(On(u), A)
  BY <1>1, <1>2, OrderAccepts
<1>4. /\ up'[c] = Head(v) /\ waiting'[c] = Tail(v) /\ hist'.sent = hist.sent
      /\ conn'[c] = (IF conn[c] = "waiting" /\ Len(v) = 1 THEN "accepted" ELSE conn[c])
      /\ hist'.lost[c] = hist.lost[c] + Len(u) /\ hist'.strays = hist.strays
      /\ \A d \in Clients : d # c => /\ up'[d] = up[d] /\ waiting'[d] = waiting[d]
                                     /\ conn'[d] = conn[d] /\ hist'.lost[d] = hist.lost[d]
  BY <1>1, <1>2 DEF RelayTypes, HistType
<1>5. /\ (job[c] # 0 => n # <<>> /\ n[Len(n)] = job[c])
      /\ Below(AllOn(u, v), ToSend(c)) /\ (conn[c] = "accepted" => v = <<>>)
  BY <1>1 DEF Arrives, LinesOK
<1>6. /\ Len(v) # 1 => Tail(v) # <<>>
      /\ Len(v) = 1 => Tail(v) = <<>>
  <2>1. Tail(v) \in Seq(Packets) /\ Len(Tail(v)) = Len(v) - 1 /\ Len(v) \in Nat
    BY <1>1, <1>2, Left
  <2> HIDE DEF v
  <2> DEFINE t == Tail(v)
  <2>2. t \in Seq(Packets) /\ Len(t) = Len(v) - 1 /\ Len(v) \in Nat
    BY <2>1
  <2> HIDE DEF t
  <2>3. Len(v) = 1 => Len(t) = 0
    BY <2>2
  <2>4. Len(v) # 1 => Len(t) # 0
    BY <2>2
  <2>5. t = <<>> <=> Len(t) = 0
    BY <2>2
  <2> QED
    BY <2>3, <2>4, <2>5 DEF t
<1>7. u \in Seq(PacketType) /\ Len(u) \in Nat
  BY <1>1, Part DEF Packets
<1>8. u = up[c] /\ hist.sent[c] = n /\ OnWay(c) = AllOn(u, v) \cup ToSend(c)
  BY DEF OnWay
<1>9. ToSend(c)' = ToSend(c) /\ OnWay(c)' = A \cup ToSend(c)
  BY <1>2, <1>4 DEF ToSend, OnWay
<1>10. LinesOK(c)'
  <2>1. Below(A, ToSend(c))
    BY <1>3, <1>5 DEF Below
  <2>2. conn'[c] = "waiting" => waiting'[c] # <<>>
    BY <1>4, <1>6
  <2>3. conn'[c] = "accepted" => waiting'[c] = <<>>
    BY <1>2, <1>4, <1>5, <1>6
  <2>4. AllOn(up[c], waiting[c])' = A /\ InOrder(c, hist.sent[c], up[c], waiting[c])'
    BY <1>3, <1>4
  <2>5. job[c] # 0 => hist'.sent[c] # <<>> /\ hist'.sent[c][Len(hist'.sent[c])] = job[c]
    BY <1>4, <1>5
  <2> QED
    BY <1>2, <1>9, <2>1, <2>2, <2>3, <2>4, <2>5 DEF LinesOK
<1> HIDE DEF n, u, v, A
<1>11. OnWay(c)' = OnWay(c) \ On(u)
  <2>1. On(u) \subseteq Nat
    BY <1>1, <1>3
  <2>2. \A a \in On(u) : a \notin A \cup ToSend(c)
    BY <1>3, <1>5, <2>1 DEF Below
  <2> QED
    BY <1>3, <1>8, <1>9, <2>2
<1>12. EntryOK(c)' /\ QueueOK(c)'
  BY <1>1, <1>2, <1>3, <1>4, <1>11, Quiet
<1>13. Effect(c)
  <2>1. /\ hist.strays[c] \in Nat /\ Owed(c) \in {0, 1} /\ Owed(c)' \in {0, 1}
    BY <1>1, Part DEF Owed
  <2>2. Len(u) = 0 => Owed(c)' = Owed(c)
    <3>1. ASSUME Len(u) = 0 PROVE ~ Headless(u)
      <4>1. u = <<>>
        BY <1>7, <3>1
      <4> QED
        BY <4>1 DEF Headless
    <3> QED
      BY <1>2, <1>3, <1>4, <1>8, <3>1 DEF Owed, OutOfStep
  <2>3. Count(c)' = Count(c)
    BY <1>2 DEF Count
  <2>4. IsFiniteSet(On(u)) /\ Cardinality(On(u)) <= Len(u) /\ On(u) \in SUBSET Nat
    BY <1>1, <1>3, <1>7, FewOn
  <2>5. hist'.strays[c] = hist.strays[c]
    BY <1>4
  <2>6. Loses(c, On(u), Len(u))
    <3>1. hist'.strays[c] >= hist.strays[c]
      BY <2>1, <2>5
    <3>2. Owed(c)' <= Owed(c) + Len(u) + (hist'.strays[c] - hist.strays[c])
      <4> DEFINE o == Owed(c)
                 p == Owed(c)'
                 l == Len(u)
                 s == hist.strays[c]
      <4>1. /\ o \in {0, 1} /\ p \in {0, 1} /\ l \in Nat /\ (l = 0 => p = o) /\ s \in Nat
            /\ hist'.strays[c] = s
        BY <1>7, <2>1, <2>2, <2>5
      <4> HIDE DEF o, p, l, s
      <4>2. p <= o + l + (s - s)
        BY <4>1
      <4> QED
        BY <4>1, <4>2 DEF o, p, l, s
    <3> QED
      BY <1>4, <1>11, <2>3, <2>4, <3>1, <3>2 DEF Loses
  <2> QED
    BY <1>7, <2>4, <2>6 DEF Effect
<1>14. \A d \in Clients : d # c => SameFor(d)
  BY <1>2, <1>4 DEF SameFor
<1>15. \A d \in Clients : d # c => Follows(d)
  BY <1>1, <1>14, OthersFollow DEF ArriveInv
<1> QED
  BY <1>10, <1>12, <1>13, <1>15 DEF Follows, Arrives

(* A client's ESP starts again: with its connection goes the message that   *)
(* was not on the line yet.                                                 *)
LEMMA ClientRelayFollows ==
  ASSUME ArriveInv, RelayTypes', NEW c \in Clients, ClientRelay(c)
  PROVE  \A d \in Clients : Follows(d)
<1>1. /\ RelayTypes /\ Arrives(c) /\ hist \in HistType /\ job \in [Clients -> Nat]
      /\ conn \in [Clients -> {"none", "waiting", "accepted"}] /\ hist.lost[c] \in Nat
      /\ hist.strays[c] \in Nat /\ Owed(c) \in {0, 1} /\ job[c] \in Nat
  BY PartArrives, Part DEF RelayTypes, Owed
<1>2. UNCHANGED <<waiting, up, entry, queue>>
  BY DEF ClientRelay, piVars
<1>3. conn' = conn \/ conn' = [conn EXCEPT ![c] = "none"]
  BY DEF ClientRelay
<1>4. \/ UNCHANGED <<job, hist>>
      \/ /\ job' = [job EXCEPT ![c] = 0]
         /\ hist' = [hist EXCEPT !.lost = [hist.lost EXCEPT ![c] =
                       IF job[c] = 0 THEN hist.lost[c] ELSE hist.lost[c] + job[c] + 1]]
  BY DEF ClientRelay
<1>5. /\ hist'.sent = hist.sent /\ hist'.strays = hist.strays
      /\ conn'[c] \in {conn[c], "none"} /\ job'[c] \in {job[c], 0}
      /\ \A d \in Clients : d # c => /\ job'[d] = job[d] /\ conn'[d] = conn[d]
                                     /\ hist'.lost[d] = hist.lost[d]
  BY <1>1, <1>3, <1>4 DEF HistType
<1>6. \/ job'[c] = job[c] /\ hist'.lost[c] = hist.lost[c]
      \/ job[c] # 0 /\ job'[c] = 0 /\ hist'.lost[c] = hist.lost[c] + (job[c] + 1)
  <2>1. job[c] # 0 => (hist.lost[c] + job[c]) + 1 = hist.lost[c] + (job[c] + 1)
    BY <1>1
  <2> QED
    BY <1>1, <1>4, <2>1 DEF HistType
<1>7. \A d \in Clients : d # c => SameFor(d)
  BY <1>2, <1>5 DEF SameFor
<1>8. \A d \in Clients : d # c => Follows(d)
  BY <1>1, <1>7, OthersFollow DEF ArriveInv
<1>9. LinesOK(c) /\ LinesOK(c)'
  BY <1>1, <1>2, <1>5 DEF Arrives, LinesOK, ToSend, Below
<1>10. Owed(c)' = Owed(c) /\ Count(c)' = Count(c)
  BY <1>2 DEF Owed, OutOfStep, Count
<1>11. OnWay(c)' \subseteq OnWay(c)
  BY <1>2, <1>5 DEF OnWay, ToSend
<1>12. EntryOK(c)' /\ QueueOK(c)'
  BY <1>1, <1>2, <1>5, <1>11, Quiet
<1>13. CASE job'[c] = job[c] /\ hist'.lost[c] = hist.lost[c]
  <2>1. OnWay(c)' = OnWay(c)
    BY <1>2, <1>5, <1>13 DEF OnWay, ToSend
  <2>2. Effect(c)
    BY <1>1, <1>5, <1>10, <1>13, <2>1, Nothing
  <2> QED
    BY <1>8, <1>9, <1>12, <2>2 DEF Follows, Arrives
<1>14. CASE job[c] # 0 /\ job'[c] = 0 /\ hist'.lost[c] = hist.lost[c] + (job[c] + 1)
  <2> DEFINE B == {Len(hist.sent[c])}
             k == job[c] + 1
  <2>1. /\ ToSend(c) = B /\ ToSend(c)' = {} /\ Len(hist.sent[c]) \in Nat
        /\ AllOn(up[c], waiting[c]) \subseteq 1 .. Len(hist.sent[c])
    BY <1>14, PartArrives DEF ToSend
  <2>2. Len(hist.sent[c]) \notin AllOn(up[c], waiting[c])
    BY <1>9, <2>1 DEF LinesOK, Below
  <2>3. OnWay(c)' = OnWay(c) \ B
    BY <1>2, <2>1, <2>2 DEF OnWay
  <2>4. IsFiniteSet(B) /\ Cardinality(B) = 1
    BY FS_Singleton
  <2>5. B \in SUBSET Nat
    BY <2>1
  <2> HIDE DEF B
  <2>6. k \in Nat /\ 1 <= k /\ hist'.lost[c] = hist.lost[c] + k
    BY <1>1, <1>14
  <2> HIDE DEF k
  <2>7. Loses(c, B, k)
    <3>1. hist'.strays[c] = hist.strays[c] /\ hist'.sent[c] = hist.sent[c]
      BY <1>5
    <3>2. hist'.strays[c] >= hist.strays[c]
      BY <1>1, <3>1
    <3>3. Owed(c)' <= Owed(c) + k + (hist'.strays[c] - hist.strays[c])
      <4> DEFINE o == Owed(c)
                 s == hist.strays[c]
      <4>1. o \in {0, 1} /\ s \in Nat /\ Owed(c)' = o /\ hist'.strays[c] = s
        BY <1>1, <1>10, <3>1
      <4> HIDE DEF o, s
      <4>2. o <= o + k + (s - s)
        BY <2>6, <4>1
      <4> QED
        BY <4>1, <4>2 DEF o, s
    <3> QED
      BY <1>10, <2>3, <2>4, <2>6, <3>1, <3>2, <3>3 DEF Loses
  <2>8. Effect(c)
    BY <2>5, <2>6, <2>7 DEF Effect
  <2> QED
    BY <1>8, <1>9, <1>12, <2>8 DEF Follows, Arrives
<1> QED
  BY <1>6, <1>13, <1>14

(* A sequence of pieces put to a queue.                                     *)
LEMMA PlainGrows ==
  ASSUME NEW q \in Seq(Seq(Piece)), NEW x \in Seq(Piece)
  PROVE  /\ Plain(Append(q, x)) = IF Mixed(x) THEN Plain(q) ELSE Plain(q) \cup {Len(q) + 1}
         /\ \A i \in Plain(q) : Append(q, x)[i] = q[i] /\ i < Len(q) + 1
         /\ Append(q, x)[Len(q) + 1] = x
         /\ Len(q) + 1 \notin Plain(q)
         /\ IsFiniteSet(Plain(q)) /\ Cardinality(Plain(q)) \in Nat
<1> DEFINE r == Append(q, x)
<1>1. /\ Len(r) = Len(q) + 1 /\ \A i \in 1 .. Len(q) : r[i] = q[i]
      /\ r[Len(q) + 1] = x /\ Len(q) \in Nat
  BY Came
<1> HIDE DEF r
<1>2. \A i : i \in 1 .. Len(r) <=> i \in 1 .. Len(q) \/ i = Len(q) + 1
  BY <1>1
<1>3. Plain(r) = IF Mixed(x) THEN Plain(q) ELSE Plain(q) \cup {Len(q) + 1}
  BY <1>1, <1>2 DEF Plain
<1>4. \A i \in 1 .. Len(q) : i < Len(q) + 1
  BY <1>1
<1>5. \A i \in Plain(q) : i \in 1 .. Len(q)
  BY DEF Plain
<1>6. IsFiniteSet(Plain(q))
  <2>1. IsFiniteSet(1 .. Len(q))
    BY <1>1, UpTo
  <2>2. Plain(q) \in SUBSET (1 .. Len(q))
    BY <1>5
  <2> QED
    BY <2>1, <2>2, FS_Subset
<1>7. Cardinality(Plain(q)) \in Nat
  BY <1>6, FS_CardinalityType
<1>8. Len(q) + 1 \notin Plain(q)
  BY <1>1, <1>4, <1>5
<1> QED
  BY <1>1, <1>3, <1>4, <1>5, <1>6, <1>7, <1>8 DEF r

(* What the handler does with a packet of data.                             *)
Got(p) == [msg |-> p.msg, k |-> p.k]

Data(f, p) == Append(entry[f].data, Got(p))

LEMMA DataRead ==
  ASSUME RelayTypes, NEW p \in PacketType, ~ p.isCmd, recieveMsgHandler(p),
         NEW f \in Clients, p.from = f
  PROVE  /\ Data(f, p) \in Seq(Piece) /\ Len(Data(f, p)) = Len(entry[f].data) + 1
         /\ Len(entry[f].data) \in Nat /\ Data(f, p)[Len(entry[f].data) + 1] = Got(p)
         /\ \A i \in 1 .. Len(entry[f].data) : Data(f, p)[i] = entry[f].data[i]
         /\ \A b \in Clients : b # f => entry'[b] = entry[b] /\ queue'[b] = queue[b]
         /\ \/ /\ entry[f].has_cmd /\ Len(Data(f, p)) = entry[f].totPckts
               /\ entry'[f] = NoMsg /\ queue'[f] = Append(queue[f], Data(f, p))
            \/ /\ entry[f].has_cmd /\ Len(Data(f, p)) # entry[f].totPckts
               /\ queue'[f] = queue[f] /\ entry'[f].has_cmd
               /\ entry'[f].totPckts = entry[f].totPckts /\ entry'[f].data = Data(f, p)
            \/ ~ entry[f].has_cmd /\ entry'[f] = entry[f] /\ queue'[f] = queue[f]
<1> DEFINE e == entry[f]
           x == Got(p)
           d == Data(f, p)
<1>1. /\ e \in EntryType /\ e.data \in Seq(Piece) /\ e.has_cmd \in BOOLEAN /\ x \in Piece
      /\ entry \in [Clients -> EntryType] /\ queue \in [Clients -> Seq(Seq(Piece))]
  BY DEF RelayTypes, EntryType, PacketType, Piece, Got
<1>2. /\ d \in Seq(Piece) /\ Len(d) = Len(e.data) + 1 /\ Len(e.data) \in Nat
      /\ d[Len(e.data) + 1] = x /\ \A i \in 1 .. Len(e.data) : d[i] = e.data[i]
  BY <1>1, Came DEF Data
<1>3. \/ /\ e.has_cmd /\ Len(d) = e.totPckts /\ entry' = [entry EXCEPT ![f] = NoMsg]
         /\ queue' = [queue EXCEPT ![f] = Append(queue[f], d)]
      \/ /\ ~ (e.has_cmd /\ Len(d) = e.totPckts)
         /\ entry' = [entry EXCEPT ![f].data = IF e.has_cmd THEN d ELSE @]
         /\ UNCHANGED queue
  BY DEF recieveMsgHandler, Data, Got
<1> HIDE DEF x, d
<1>4. CASE e.has_cmd /\ Len(d) = e.totPckts
  <2>1. /\ entry'[f] = NoMsg /\ queue'[f] = Append(queue[f], d)
        /\ \A b \in Clients : b # f => entry'[b] = entry[b] /\ queue'[b] = queue[b]
    BY <1>1, <1>3, <1>4
  <2> QED
    BY <1>1, <1>2, <1>4, <2>1 DEF d, x
<1>5. CASE ~ (e.has_cmd /\ Len(d) = e.totPckts)
  <2> DEFINE m == [e EXCEPT !.data = IF e.has_cmd THEN d ELSE e.data]
  <2>1. entry' = [entry EXCEPT ![f] = m] /\ UNCHANGED queue
    BY <1>1, <1>3, <1>5
  <2>2. /\ m.has_cmd = e.has_cmd /\ m.totPckts = e.totPckts
        /\ m.data = IF e.has_cmd THEN d ELSE e.data
    BY <1>1 DEF EntryType
  <2>3. ~ e.has_cmd => m = e
    BY <1>1 DEF EntryType
  <2> HIDE DEF m
  <2>4. entry'[f] = m /\ \A b \in Clients : b # f => entry'[b] = entry[b]
    BY <1>1, <2>1
  <2> QED
    BY <1>1, <1>2, <1>5, <2>1, <2>2, <2>3, <2>4 DEF d, x
<1> QED
  BY <1>4, <1>5

(* A packet that is no piece of a message comes to the table of client d,   *)
(* from whatever connection.                                                *)
LEMMA StrayFollows ==
  ASSUME RelayTypes, NEW d \in Clients, Arrives(d), LinesOK(d)', OnWay(d)' = OnWay(d),
         Headless(up'[d]) <=> Headless(up[d]), Headless(up[d]) => up'[d][1] = up[d][1],
         NEW p \in PacketType, p.from = d, ~ p.isCmd, p.k = 0, recieveMsgHandler(p),
         hist'.sent[d] = hist.sent[d], hist'.lost[d] = hist.lost[d],
         hist'.strays[d] = hist.strays[d] + 1
  PROVE  Follows(d)
<1> DEFINE e == entry[d]
           x == Got(p)
           q == Data(d, p)
           n == hist.sent[d]
<1>1. /\ q \in Seq(Piece) /\ Len(q) = Len(e.data) + 1
      /\ Len(e.data) \in Nat /\ q[Len(e.data) + 1] = x
      /\ \A i \in 1 .. Len(e.data) : q[i] = e.data[i]
      /\ \/ /\ e.has_cmd /\ Len(q) = e.totPckts
            /\ entry'[d] = NoMsg /\ queue'[d] = Append(queue[d], q)
         \/ /\ e.has_cmd /\ Len(q) # e.totPckts /\ queue'[d] = queue[d]
            /\ entry'[d].has_cmd /\ entry'[d].totPckts = e.totPckts
            /\ entry'[d].data = q
         \/ ~ e.has_cmd /\ entry'[d] = e /\ queue'[d] = queue[d]
  BY DataRead, SMTT(30)
<1>2. x.k = 0
  BY DEF Got
<1>3. EntryWaits(e, n, up[d]) /\ e \in EntryType /\ e.totPckts \in Nat /\ n = hist'.sent[d]
  BY Part DEF Arrives, EntryOK, EntryType
<1>4. e = entry[d]
  OBVIOUS
<1>5. queue[d] \in Seq(Seq(Piece))
  BY Part
<1> HIDE DEF e, x, q, n
<1>6. Len(e.data) + 1 \in 1 .. Len(q) /\ \A i \in 1 .. Len(q) : i \in 1 .. Len(e.data) \/ q[i] = x
  <2>1. \A i \in 1 .. Len(q) : i \in 1 .. Len(e.data) \/ i = Len(e.data) + 1
    BY <1>1
  <2> QED
    BY <1>1, <2>1
<1>7. Mixed(q)
  <2>1. DOMAIN q = 1 .. Len(q)
    BY <1>1
  <2> QED
    BY <1>1, <1>2, <1>6, <2>1 DEF Mixed
<1>8. EntryWaits(entry'[d], n, up'[d])
  <2>1. CASE entry'[d] = NoMsg \/ entry'[d] = e
    BY <1>3, <2>1 DEF EntryWaits
  <2>2. CASE /\ e.has_cmd /\ Len(q) # e.totPckts
             /\ entry'[d].has_cmd /\ entry'[d].totPckts = e.totPckts /\ entry'[d].data = q
    <3>1. Len(e.data) < e.totPckts
      BY <1>3, <2>2, NoMsgFacts DEF EntryWaits
    <3>2. Len(q) < e.totPckts
      BY <1>1, <1>3, <2>2, <3>1
    <3>3. Headless(up[d]) => e.totPckts = n[up[d][1].msg] /\ Strays(e.data)
      BY <1>3, <2>2, NoMsgFacts DEF EntryWaits
    <3>4. Strays(e.data) => Strays(q)
      BY <1>1, <1>2, <1>6 DEF Strays
    <3> QED
      BY <2>2, <3>2, <3>3, <3>4 DEF EntryWaits
  <2> QED
    BY <1>1, <2>1, <2>2
<1>9. EntryOK(d)'
  BY <1>3, <1>8 DEF EntryOK
<1>10. /\ Plain(queue'[d]) = Plain(queue[d])
       /\ \A i \in Plain(queue[d]) : queue'[d][i] = queue[d][i]
  <2>1. CASE queue'[d] = queue[d]
    BY <2>1
  <2>2. CASE queue'[d] = Append(queue[d], q)
    <3>1. queue[d] \in Seq(Seq(Piece)) /\ q \in Seq(Piece)
      BY <1>1, <1>5
    <3>2. /\ Plain(Append(queue[d], q)) = IF Mixed(q) THEN Plain(queue[d])
                                         ELSE Plain(queue[d]) \cup {Len(queue[d]) + 1}
          /\ \A i \in Plain(queue[d]) : Append(queue[d], q)[i] = queue[d][i]
      BY <3>1, PlainGrows, ZenonT(40)
    <3> QED
      BY <1>7, <2>2, <3>2
  <2> QED
    BY <1>1, <2>1, <2>2
<1>11. QueueOK(d)'
  BY <1>10 DEF QueueOK, Arrives
<1>12. Loses(d, {}, 0)
  <2>1. IsFiniteSet({}) /\ Cardinality({}) = 0
    BY FS_EmptySet
  <2>2. Count(d)' = Count(d)
    BY <1>10 DEF Count
  <2>3. hist.lost[d] \in Nat /\ hist.strays[d] \in Nat
    BY Part
  <2>4. Owed(d) \in {0, 1} /\ Owed(d)' \in {0, 1}
    BY DEF Owed
  <2>5. /\ Owed(d)' <= Owed(d) + 0 + (hist'.strays[d] - hist.strays[d])
        /\ hist'.strays[d] >= hist.strays[d] /\ hist'.lost[d] = hist.lost[d] + 0
        /\ Cardinality({}) <= 0
    <3> DEFINE s == hist.strays[d]
               t == hist'.strays[d]
               o == Owed(d)
               w == Owed(d)'
    <3>1. s \in Nat /\ t = s + 1 /\ o \in {0, 1} /\ w \in {0, 1}
      BY <2>3, <2>4
    <3> HIDE DEF s, t, o, w
    <3>2. w <= o + 0 + (t - s) /\ t >= s
      BY <3>1
    <3> QED
      BY <2>1, <2>3, <3>2 DEF s, t, o, w
  <2> QED
    BY <2>1, <2>2, <2>5 DEF Loses
<1>13. Effect(d)
  <2>1. 0 \in Nat /\ {} \in SUBSET Nat
    OBVIOUS
  <2> QED
    BY <1>12, <2>1 DEF Effect
<1> QED
  BY <1>9, <1>11, <1>13 DEF Follows, Arrives

(* What is read of the line, and what stays.                                *)
LEMMA RelayLines ==
  ASSUME ArriveInv, NEW c \in Clients, relay_to_pi(c), NEW p, p = Head(up[c])
  PROVE  /\ p \in PacketType /\ recieveMsgHandler(p) /\ LinesOK(c)'
         /\ p.k # 0 => p.from = c /\ p.msg \in 1 .. Len(hist.sent[c])
         /\ p.isCmd => /\ p.k # 0 /\ p.k = hist.sent[c][p.msg] /\ up'[c][1].msg = p.msg
         /\ Headless(up'[c]) <=> p.isCmd
         /\ Headless(up[c]) <=> p.k # 0 /\ ~ p.isCmd
         /\ up[c][1] = p
         /\ ~ Headless(up[c]) => OnWay(c)' = OnWay(c)
         /\ Headless(up[c]) => /\ p.k = 1 /\ p.msg \in OnWay(c)
                               /\ OnWay(c)' = OnWay(c) \ {p.msg} /\ Below({p.msg}, OnWay(c)')
         /\ UNCHANGED <<job, conn, waiting>> /\ hist'.sent = hist.sent /\ hist'.lost = hist.lost
         /\ \A d \in Clients : hist'.strays[d] = hist.strays[d] + StrayFor(p, d)
         /\ \A d \in Clients : d # c => up'[d] = up[d]
<1> DEFINE n == hist.sent[c]
           s == up[c]
           t == Tail(s)
           v == waiting[c]
<1>1. /\ RelayTypes /\ Arrives(c) /\ n \in Seq(Nat) /\ Len(n) \in Nat /\ InOrder(c, n, s, v)
      /\ AllOn(s, v) \subseteq 1 .. Len(n)
  BY PartArrives
<1>2. /\ s # <<>> /\ recieveMsgHandler(p) /\ up' = [up EXCEPT ![c] = t]
      /\ hist' = [hist EXCEPT !.strays = [d \in Clients |-> hist.strays[d] + StrayFor(p, d)]]
      /\ UNCHANGED <<job, conn, waiting>>
  BY DEF relay_to_pi, clientVars
<1>3. /\ up'[c] = t /\ hist'.sent = hist.sent /\ hist'.lost = hist.lost
      /\ \A d \in Clients : hist'.strays[d] = hist.strays[d] + StrayFor(p, d)
      /\ \A d \in Clients : d # c => up'[d] = up[d]
  BY <1>1, <1>2 DEF RelayTypes, HistType
<1>4. Line(c, n, s)
  BY <1>1 DEF InOrder
<1>5. s = up[c] /\ n = hist.sent[c] /\ v = waiting[c] /\ t = Tail(s) /\ p = Head(s)
  OBVIOUS
<1> HIDE DEF n, s, t, v
<1>6. /\ s[1] = p /\ p \in PacketType
      /\ Headless(t) <=> p.isCmd
      /\ p.isCmd => t[1] = Packet(FALSE, c, p.msg, 1)
  <2>1. /\ s[1] = Head(s) /\ s[1] \in PacketType
        /\ Headless(Tail(s)) <=> s[1].isCmd
        /\ s[1].isCmd => Tail(s)[1] = Packet(FALSE, c, s[1].msg, 1)
    BY <1>1, <1>2, <1>4, LineTail
  <2> QED
    BY <1>5, <2>1
<1>7. /\ InOrder(c, n, t, v)
      /\ ~ Headless(s) => AllOn(t, v) = AllOn(s, v)
      /\ Headless(s) => /\ p.msg \in AllOn(s, v) /\ AllOn(t, v) = AllOn(s, v) \ {p.msg}
                        /\ Below({p.msg}, AllOn(t, v))
  <2>1. /\ InOrder(c, n, Tail(s), v)
        /\ ~ Headless(s) => AllOn(Tail(s), v) = AllOn(s, v)
        /\ Headless(s) => /\ s[1].msg \in AllOn(s, v)
                          /\ AllOn(Tail(s), v) = AllOn(s, v) \ {s[1].msg}
                          /\ Below({s[1].msg}, AllOn(Tail(s), v))
    BY <1>1, <1>2, OrderReads
  <2> QED
    BY <1>5, <1>6, <2>1
<1>8. 1 \in 1 .. Len(s)
  BY <1>2, <1>4 DEF Line
<1>9. /\ p.k # 0 => p.from = c /\ p.msg \in 1 .. Len(n)
      /\ p.isCmd => p.k # 0 /\ p.k = n[p.msg]
      /\ p.k # 0 /\ ~ p.isCmd => p.k = 1
  BY <1>4, <1>6, <1>8, ZenonT(40) DEF Line
<1>10. Headless(s) <=> p.k # 0 /\ ~ p.isCmd
  BY <1>2, <1>6 DEF Headless
<1>11. p.isCmd => t[1].msg = p.msg
  BY <1>6 DEF Packet
<1>12. /\ ToSend(c)' = ToSend(c) /\ OnWay(c) = AllOn(s, v) \cup ToSend(c)
       /\ OnWay(c)' = AllOn(t, v) \cup ToSend(c)
  BY <1>2, <1>3, <1>5 DEF ToSend, OnWay
<1>13. /\ Below(AllOn(s, v), ToSend(c))
       /\ (job[c] # 0 => n # <<>> /\ n[Len(n)] = job[c])
       /\ (conn[c] = "waiting" => v # <<>>) /\ (conn[c] = "accepted" => v = <<>>)
  BY <1>1, <1>5 DEF Arrives, LinesOK
<1>14. AllOn(t, v) \subseteq AllOn(s, v)
  BY <1>7
<1>15. LinesOK(c)'
  <2>1. InOrder(c, hist.sent[c], up[c], waiting[c])'
    BY <1>2, <1>3, <1>5, <1>7
  <2>2. AllOn(up[c], waiting[c])' = AllOn(t, v)
    BY <1>2, <1>3, <1>5
  <2>3. Below(AllOn(t, v), ToSend(c))
    BY <1>13, <1>14 DEF Below
  <2> QED
    BY <1>2, <1>3, <1>5, <1>12, <1>13, <2>1, <2>2, <2>3 DEF LinesOK
<1>16. ASSUME Headless(s)
       PROVE  /\ p.msg \in OnWay(c) /\ OnWay(c)' = OnWay(c) \ {p.msg}
              /\ Below({p.msg}, OnWay(c)')
  <2>1. p.msg \in AllOn(s, v) /\ p.msg \in Nat
    BY <1>1, <1>7, <1>16
  <2>2. Below({p.msg}, AllOn(t, v) \cup ToSend(c))
    BY <1>7, <1>13, <1>16, <2>1 DEF Below
  <2>3. p.msg \notin AllOn(t, v) \cup ToSend(c)
    BY <2>1, <2>2 DEF Below
  <2> QED
    BY <1>7, <1>12, <1>16, <2>1, <2>2, <2>3
<1> QED
  BY <1>2, <1>3, <1>5, <1>6, <1>7, <1>9, <1>10, <1>11, <1>12, <1>15, <1>16

LEMMA RelayFollows ==
  ASSUME ArriveInv, RelayTypes', NEW c \in Clients, relay_to_pi(c)
  PROVE  \A d \in Clients : Follows(d)
<1> DEFINE p == Head(up[c])
           n == hist.sent[c]
           e == entry[c]
<1>1. /\ RelayTypes /\ n \in Seq(Nat) /\ n \in Seq(Nat \ {0}) /\ e \in EntryType
      /\ \A d \in Clients : Arrives(d)
  BY PartArrives, Part DEF ArriveInv
<1>2. /\ p \in PacketType /\ recieveMsgHandler(p) /\ LinesOK(c)'
      /\ p.k # 0 => p.from = c /\ p.msg \in 1 .. Len(n)
      /\ p.isCmd => /\ p.k # 0 /\ p.k = n[p.msg] /\ up'[c][1].msg = p.msg
      /\ Headless(up'[c]) <=> p.isCmd
      /\ Headless(up[c]) <=> p.k # 0 /\ ~ p.isCmd
      /\ up[c][1] = p
      /\ ~ Headless(up[c]) => OnWay(c)' = OnWay(c)
      /\ Headless(up[c]) => /\ p.k = 1 /\ p.msg \in OnWay(c)
                            /\ OnWay(c)' = OnWay(c) \ {p.msg} /\ Below({p.msg}, OnWay(c)')
      /\ UNCHANGED <<job, conn, waiting>> /\ hist'.sent = hist.sent /\ hist'.lost = hist.lost
      /\ \A d \in Clients : hist'.strays[d] = hist.strays[d] + StrayFor(p, d)
      /\ \A d \in Clients : d # c => up'[d] = up[d]
  BY RelayLines
<1>3. n = hist.sent[c] /\ e = entry[c]
  OBVIOUS
<1> HIDE DEF p, n, e
<1>4. \A d \in Clients : hist.strays[d] \in Nat
  BY <1>1, Part
<1>5. p.isCmd \in BOOLEAN /\ p.k \in Nat /\ p.msg \in Nat
  BY <1>2 DEF PacketType
(* A packet that is no piece, perhaps for the table of another client.      *)
<1>6. ASSUME p.k = 0, NEW d \in Clients PROVE Follows(d)
  <2>1. ~ p.isCmd /\ ~ Headless(up[c]) /\ ~ Headless(up'[c]) /\ OnWay(c)' = OnWay(c)
    BY <1>2, <1>6
  <2>2. /\ Headless(up'[d]) <=> Headless(up[d])
        /\ Headless(up[d]) => up'[d][1] = up[d][1]
    BY <1>2, <2>1
  <2>3. OnWay(d)' = OnWay(d) /\ LinesOK(d)'
    <3>1. CASE d = c
      BY <1>2, <2>1, <3>1
    <3>2. CASE d # c
      <4>1. up'[d] = up[d] /\ LinesOK(d)
        BY <1>1, <1>2, <3>2 DEF Arrives
      <4>2. ToSend(d)' = ToSend(d)
        BY <1>2 DEF ToSend
      <4> QED
        BY <1>2, <4>1, <4>2 DEF OnWay, LinesOK
    <3> QED
      BY <3>1, <3>2
  <2>4. Arrives(d) /\ hist'.sent[d] = hist.sent[d] /\ hist'.lost[d] = hist.lost[d]
    BY <1>1, <1>2
  <2>5. CASE p.from = d
    <3>1. StrayFor(p, d) = 1
      BY <1>6, <2>5 DEF StrayFor
    <3>2. hist'.strays[d] = hist.strays[d] + 1
      BY <1>2, <3>1
    <3> QED
      BY <1>1, <1>2, <1>6, <2>1, <2>2, <2>3, <2>4, <2>5, <3>2, StrayFollows
  <2>6. CASE p.from # d
    <3>1. StrayFor(p, d) = 0
      BY <2>6 DEF StrayFor
    <3>2. hist'.strays[d] = hist.strays[d]
      BY <1>2, <1>4, <3>1
    <3>3. entry'[d] = entry[d] /\ queue'[d] = queue[d]
      <4>1. CASE p.from \notin Clients
        BY <1>2, <4>1 DEF recieveMsgHandler, piVars
      <4>2. CASE p.from \in Clients
        BY <1>1, <1>2, <2>1, <2>6, <4>2, DataRead
      <4> QED
        BY <4>1, <4>2
    <3>4. EntryOK(d)' /\ QueueOK(d)'
      BY <2>2, <2>3, <2>4, <3>3, Quiet
    <3>5. Owed(d)' = Owed(d) /\ Count(d)' = Count(d)
      BY <2>2, <3>3 DEF Owed, OutOfStep, Count
    <3>6. Effect(d)
      BY <1>1, <2>3, <2>4, <3>2, <3>5, Nothing
    <3> QED
      BY <2>3, <3>4, <3>6 DEF Follows, Arrives
  <2> QED
    BY <2>5, <2>6
(* The other packets are of c.                                              *)
<1>7. ASSUME p.k # 0, NEW d \in Clients, d # c, entry'[d] = entry[d], queue'[d] = queue[d]
      PROVE  Follows(d)
  <2>1. StrayFor(p, d) = 0
    BY <1>7 DEF StrayFor
  <2>2. hist'.strays[d] = hist.strays[d]
    BY <1>2, <1>4, <2>1
  <2>3. SameFor(d)
    BY <1>2, <1>7, <2>2 DEF SameFor
  <2> QED
    BY <1>1, <2>3, OthersFollow
<1>8. p.k # 0 => hist'.strays[c] = hist.strays[c]
  <2>1. p.k # 0 => StrayFor(p, c) = 0
    BY DEF StrayFor
  <2> QED
    BY <1>2, <1>4, <2>1
<1>9. EntryWaits(e, n, up[c])
  BY <1>1, <1>3 DEF Arrives, EntryOK
<1>10. CASE p.isCmd
  <2> DEFINE f == IF e.has_cmd THEN NoMsg
                  ELSE [has_cmd |-> TRUE, totPckts |-> p.k, data |-> <<>>]
  <2>1. p.from = c /\ p.k # 0 /\ p.k = n[p.msg] /\ p.msg \in 1 .. Len(n)
    BY <1>2, <1>10
  <2>2. entry' = [entry EXCEPT ![c] = f] /\ UNCHANGED queue
    BY <1>2, <1>3, <1>10, <2>1 DEF recieveMsgHandler
  <2>3. /\ Len(<<>>) = 0 /\ 0 < p.k /\ Strays(<<>>)
    BY <1>5, <2>1 DEF Strays
  <2>4. f.has_cmd <=> ~ e.has_cmd
    BY NoMsgFacts
  <2>5. EntryWaits(f, n, up'[c])
    <3>1. up'[c][1].msg = p.msg
      BY <1>2, <1>10
    <3> QED
      BY <2>1, <2>3, <3>1 DEF EntryWaits
  <2> HIDE DEF f
  <2>6. entry'[c] = f /\ \A d \in Clients : d # c => entry'[d] = entry[d]
    BY <1>1, <2>2 DEF RelayTypes
  <2>7. EntryOK(c)'
    BY <1>2, <1>3, <2>5, <2>6 DEF EntryOK
  <2>8. ~ Headless(up[c]) /\ Headless(up'[c]) /\ OnWay(c)' = OnWay(c)
    BY <1>2, <1>10
  <2>9. QueueOK(c)'
    BY <1>1, <1>2, <2>2, <2>8 DEF Arrives, QueueOK
  <2>10. Owed(c)' = Owed(c) /\ Count(c)' = Count(c)
    BY <1>3, <2>2, <2>4, <2>6, <2>8 DEF Owed, OutOfStep, Count
  <2>11. Effect(c)
    BY <1>1, <1>2, <1>8, <2>1, <2>8, <2>10, Nothing
  <2>12. Follows(c)
    BY <1>2, <2>7, <2>9, <2>11 DEF Follows, Arrives
  <2>13. \A d \in Clients : d # c => Follows(d)
    BY <1>7, <2>1, <2>2, <2>6
  <2> QED
    BY <2>12, <2>13
(* A piece of c.                                                            *)
<1>11. CASE p.k # 0 /\ ~ p.isCmd
  <2> DEFINE m == p.msg
             q == Data(c, p)
  <2>1. /\ p.from = c /\ p.k = 1 /\ m \in 1 .. Len(n) /\ Headless(up[c]) /\ ~ Headless(up'[c])
        /\ m \in OnWay(c) /\ OnWay(c)' = OnWay(c) \ {m} /\ Below({m}, OnWay(c)')
    BY <1>2, <1>11
  <2>2. /\ q \in Seq(Piece) /\ Len(q) = Len(e.data) + 1
        /\ Len(e.data) \in Nat /\ q[Len(e.data) + 1] = Got(p)
        /\ \A i \in 1 .. Len(e.data) : q[i] = e.data[i]
        /\ \A b \in Clients : b # c => entry'[b] = entry[b] /\ queue'[b] = queue[b]
        /\ \/ /\ e.has_cmd /\ Len(q) = e.totPckts
              /\ entry'[c] = NoMsg /\ queue'[c] = Append(queue[c], q)
           \/ /\ e.has_cmd /\ Len(q) # e.totPckts
              /\ queue'[c] = queue[c] /\ entry'[c].has_cmd
              /\ entry'[c].totPckts = e.totPckts /\ entry'[c].data = q
           \/ ~ e.has_cmd /\ entry'[c] = e /\ queue'[c] = queue[c]
    <3>1. RelayTypes /\ p \in PacketType /\ ~ p.isCmd /\ recieveMsgHandler(p) /\ p.from = c
      BY <1>1, <1>2, <1>11, <2>1
    <3>2. /\ Data(c, p) \in Seq(Piece) /\ Len(Data(c, p)) = Len(entry[c].data) + 1
          /\ Len(entry[c].data) \in Nat /\ Data(c, p)[Len(entry[c].data) + 1] = Got(p)
          /\ \A i \in 1 .. Len(entry[c].data) : Data(c, p)[i] = entry[c].data[i]
          /\ \A b \in Clients : b # c => entry'[b] = entry[b] /\ queue'[b] = queue[b]
          /\ \/ /\ entry[c].has_cmd /\ Len(Data(c, p)) = entry[c].totPckts
                /\ entry'[c] = NoMsg /\ queue'[c] = Append(queue[c], Data(c, p))
             \/ /\ entry[c].has_cmd /\ Len(Data(c, p)) # entry[c].totPckts
                /\ queue'[c] = queue[c] /\ entry'[c].has_cmd
                /\ entry'[c].totPckts = entry[c].totPckts /\ entry'[c].data = Data(c, p)
             \/ ~ entry[c].has_cmd /\ entry'[c] = entry[c] /\ queue'[c] = queue[c]
      BY <3>1, DataRead, SMTT(30)
    <3> QED
      BY <1>3, <3>2
  <2>3. /\ queue[c] \in Seq(Seq(Piece)) /\ Len(queue[c]) \in Nat /\ e.totPckts \in Nat
        /\ e.has_cmd \in BOOLEAN /\ n[m] \in Nat
    BY <1>1, <2>1, Part DEF EntryType
  <2>4. Got(p) = [msg |-> m, k |-> 1]
    BY <2>1 DEF Got
  <2>5. e.has_cmd => Len(e.data) < e.totPckts /\ e.totPckts = n[m] /\ Strays(e.data)
    BY <1>2, <1>9, <2>1, NoMsgFacts DEF EntryWaits
  <2>6. Owed(c) = (IF e.has_cmd THEN 0 ELSE 1) /\ Owed(c)' = (IF entry'[c].has_cmd THEN 1 ELSE 0)
    BY <1>3, <2>1 DEF Owed, OutOfStep
  <2>7. hist' = hist
    <3>1. hist' = [hist EXCEPT !.strays =
                     [d \in Clients |-> hist.strays[d] + StrayFor(Head(up[c]), d)]]
      BY DEF relay_to_pi
    <3>2. \A d \in Clients : hist.strays[d] + StrayFor(p, d) = hist.strays[d]
      BY <1>4, <1>11 DEF StrayFor
    <3>3. [d \in Clients |-> hist.strays[d] + StrayFor(p, d)] = hist.strays
      BY <1>1, <3>2 DEF RelayTypes, HistType
    <3> QED
      BY <1>1, <3>1, <3>3 DEF RelayTypes, HistType, p
  <2>8. /\ \A i \in Plain(queue[c]) :
             IsShort(queue[c][i], n) /\ Below({queue[c][i][1].msg}, OnWay(c))
        /\ \A i, j \in Plain(queue[c]) : i < j => queue[c][i][1].msg < queue[c][j][1].msg
    BY <1>1, <1>3 DEF Arrives, QueueOK
  <2>9. \A d \in Clients : d # c => Follows(d)
    BY <1>7, <1>11, <2>2
  <2>10. ASSUME EntryWaits(entry'[c], n, up'[c]), QueueOK(c)', Ends(c, m) PROVE Follows(c)
    <3>1. EntryOK(c)'
      BY <1>2, <1>3, <2>10 DEF EntryOK
    <3>2. Effect(c)
      BY <1>5, <2>10 DEF Effect
    <3> QED
      BY <1>2, <2>10, <3>1, <3>2 DEF Follows, Arrives
  <2>11. ASSUME Plain(queue'[c]) = Plain(queue[c]),
                \A i \in Plain(queue[c]) : queue'[c][i] = queue[c][i]
         PROVE  QueueOK(c)' /\ Count(c)' = Count(c)
    <3>1. OnWay(c)' \subseteq OnWay(c)
      BY <2>1
    <3>2. QueueOK(c)'
      BY <1>3, <2>7, <2>8, <2>11, <3>1 DEF QueueOK, Below
    <3> QED
      BY <2>11, <3>2 DEF Count
  <2> HIDE DEF m, q
  <2>12. n = hist.sent[c] /\ entry[c] = e
    BY <1>3
  <2>13. ASSUME e.has_cmd /\ Len(q) = e.totPckts PROVE Follows(c)
    <3>1. entry'[c] = NoMsg /\ queue'[c] = Append(queue[c], q)
      BY <2>2, <2>13
    <3>2. EntryWaits(entry'[c], n, up'[c]) /\ Owed(c) = 0 /\ Owed(c)' = 0
      BY <2>6, <2>13, <3>1, NoMsgFacts DEF EntryWaits
    <3>3. /\ Plain(Append(queue[c], q)) = IF Mixed(q) THEN Plain(queue[c])
                                          ELSE Plain(queue[c]) \cup {Len(queue[c]) + 1}
          /\ \A i \in Plain(queue[c]) : /\ Append(queue[c], q)[i] = queue[c][i]
                                        /\ i < Len(queue[c]) + 1
          /\ Append(queue[c], q)[Len(queue[c]) + 1] = q
          /\ Len(queue[c]) + 1 \notin Plain(queue[c])
          /\ IsFiniteSet(Plain(queue[c])) /\ Cardinality(Plain(queue[c])) \in Nat
      BY <2>2, <2>3, PlainGrows
    <3>4. CASE Mixed(q)
      <4>1. QueueOK(c)' /\ Count(c)' = Count(c)
        BY <2>11, <3>1, <3>3, <3>4
      <4>2. n[m] # 1
        <5>1. ASSUME n[m] = 1 PROVE FALSE
          <6>1. Len(e.data) = 0 /\ Len(q) = 1
            BY <2>2, <2>3, <2>5, <2>13, <5>1
          <6>2. q[1] = Got(p) /\ DOMAIN q = 1 .. 1
            BY <2>2, <6>1
          <6>3. \A i \in 1 .. 1 : i = 1
            OBVIOUS
          <6> QED
            BY <2>4, <3>4, <6>2, <6>3 DEF Mixed
        <5> QED
          BY <5>1
      <4>3. Ends(c, m)
        BY <2>1, <2>7, <2>12, <3>2, <4>1, <4>2 DEF Ends
      <4> QED
        BY <2>10, <3>2, <4>1, <4>3
    <3>5. CASE ~ Mixed(q)
      <4>1. Len(e.data) = 0
        <5>1. ASSUME Len(e.data) # 0 PROVE FALSE
          <6>1. 1 \in 1 .. Len(e.data) /\ 1 \in 1 .. Len(q)
            BY <2>2, <5>1
          <6>2. q[1].k = 0
            BY <2>2, <2>5, <2>13, <6>1 DEF Strays
          <6>3. DOMAIN q = 1 .. Len(q)
            BY <2>2
          <6> QED
            BY <3>5, <6>1, <6>2, <6>3 DEF Mixed
        <5> QED
          BY <5>1
      <4>2. Len(q) = 1 /\ q[1] = [msg |-> m, k |-> 1] /\ n[m] = 1
        BY <2>2, <2>4, <2>5, <2>13, <4>1
      <4>3. q = <<[msg |-> m, k |-> 1]>>
        BY <2>2, <4>2
      <4>4. IsShort(q, n) /\ q[1].msg = m
        BY <2>1, <4>2, <4>3 DEF IsShort
      <4> DEFINE l == Len(queue[c]) + 1
                 P == Plain(queue[c])
      <4>5. Plain(queue'[c]) = P \cup {l} /\ queue'[c][l] = q /\ l \notin P
        BY <3>1, <3>3, <3>5
      <4>6. \A i \in P : queue'[c][i] = queue[c][i] /\ i < l /\ i \in Nat /\ l \in Nat
        BY <2>3, <3>1, <3>3 DEF Plain
      <4>7. \A i \in P : queue[c][i][1].msg < m
        BY <2>1, <2>8 DEF Below
      <4> HIDE DEF l
      <4>8. QueueOK(c)'
        <5>1. \A i \in P \cup {l} :
                IsShort(queue'[c][i], n) /\ Below({queue'[c][i][1].msg}, OnWay(c)')
          <6>1. \A i \in P : Below({queue[c][i][1].msg}, OnWay(c)')
            BY <2>1, <2>8 DEF Below
          <6> QED
            BY <2>1, <2>8, <4>4, <4>5, <4>6, <6>1
        <5>2. ASSUME NEW i \in P \cup {l}, NEW j \in P \cup {l}, i < j
              PROVE  queue'[c][i][1].msg < queue'[c][j][1].msg
          <6>1. i \in P
            <7>1. \A b \in P : b < l /\ b \in Nat /\ l \in Nat
              BY <4>6
            <7>2. l \in Nat
              BY <2>3 DEF l
            <7> HIDE DEF P
            <7>3. i = l => FALSE
              BY <5>2, <7>1, <7>2
            <7> QED
              BY <7>3
          <6> QED
            BY <2>8, <4>4, <4>5, <4>6, <4>7, <5>2, <6>1
        <5> QED
          BY <2>7, <2>12, <4>5, <5>1, <5>2 DEF QueueOK
      <4>9. Count(c)' = Count(c) + 1
        <5>1. Count(c)' = Cardinality(P \cup {l}) /\ Count(c) = Cardinality(P)
          BY <4>5 DEF Count
        <5>2. IsFiniteSet(P) /\ Cardinality(P) \in Nat
          BY <3>3
        <5> HIDE DEF P
        <5> QED
          BY <4>5, <5>1, <5>2, FS_AddElement
      <4>10. Ends(c, m)
        BY <2>1, <2>7, <2>12, <3>2, <4>2, <4>9 DEF Ends
      <4> QED
        BY <2>10, <3>2, <4>8, <4>10
    <3> QED
      BY <3>4, <3>5
  <2>14. ASSUME ~ (e.has_cmd /\ Len(q) = e.totPckts) PROVE Follows(c)
    <3>1. queue'[c] = queue[c]
      BY <2>2, <2>14
    <3>2. QueueOK(c)' /\ Count(c)' = Count(c)
      BY <2>11, <3>1
    <3>3. CASE ~ e.has_cmd
      <4>1. entry'[c] = e
        BY <2>2, <3>3
      <4>2. EntryWaits(entry'[c], n, up'[c])
        BY <1>9, <3>3, <4>1 DEF EntryWaits
      <4>3. Ends(c, m)
        BY <2>1, <2>6, <2>7, <3>2, <3>3, <4>1 DEF Ends
      <4> QED
        BY <2>10, <3>2, <4>2, <4>3
    <3>4. CASE e.has_cmd
      <4>1. /\ Len(q) # e.totPckts /\ entry'[c].has_cmd
            /\ entry'[c].totPckts = e.totPckts /\ entry'[c].data = q
        BY <2>2, <2>14, <3>4
      <4>2. Len(q) < e.totPckts
        BY <2>2, <2>3, <2>5, <3>4, <4>1
      <4>3. EntryWaits(entry'[c], n, up'[c])
        BY <2>1, <4>1, <4>2 DEF EntryWaits
      <4>4. n[m] # 1
        BY <2>2, <2>3, <2>5, <3>4, <4>2
      <4>5. Ends(c, m)
        BY <2>1, <2>6, <2>7, <2>12, <3>2, <3>4, <4>4 DEF Ends
      <4> QED
        BY <2>10, <3>2, <4>3, <4>5
    <3> QED
      BY <3>3, <3>4
  <2>15. Follows(c)
    BY <2>13, <2>14
  <2> QED
    BY <2>9, <2>15
<1> QED
  BY <1>2, <1>6, <1>10, <1>11

LEMMA NextArrive ==
  ASSUME ArriveInv, [Next]_vars
  PROVE  ArriveInv' /\ \A d \in Clients : Follows(d)
<1>1. RelayTypes /\ \A d \in Clients : Arrives(d)
  BY DEF ArriveInv
<1>2. RelayTypes'
  BY <1>1, NextTypes
<1>3. ASSUME NEW c \in Clients, client_wifi_cnct(c) PROVE \A d \in Clients : Follows(d)
  <2>1. PICK r \in BOOLEAN : ConnectTo(c, r)
    BY <1>3 DEF client_wifi_cnct
  <2>2. UNCHANGED <<job, up, entry, queue>>
    BY <1>3 DEF client_wifi_cnct, piVars
  <2>3. hist'.sent = hist.sent /\ hist'.lost = hist.lost /\ hist'.strays = hist.strays
    BY <1>1, <1>3 DEF client_wifi_cnct, RelayTypes, HistType
  <2> QED
    BY <1>2, <2>1, <2>2, <2>3, ConnectFollows
<1>4. ASSUME NEW c \in Clients, connect(c) PROVE \A d \in Clients : Follows(d)
  <2>1. /\ ConnectTo(c, TRUE) /\ UNCHANGED <<job, up, entry, queue>>
        /\ hist'.sent = hist.sent /\ hist'.lost = hist.lost /\ hist'.strays = hist.strays
    BY <1>4 DEF connect, piVars
  <2>2. TRUE \in BOOLEAN
    OBVIOUS
  <2> QED
    BY <1>2, <2>1, <2>2, ConnectFollows
<1>5. ASSUME NEW c \in Clients, ServerSend(c) PROVE \A d \in Clients : SameFor(d)
  <2>1. UNCHANGED <<job, conn, waiting, up, entry, queue>>
    BY <1>5 DEF ServerSend, clientVars, piVars
  <2>2. hist'.sent = hist.sent /\ hist'.lost = hist.lost /\ hist'.strays = hist.strays
    BY <1>1, <1>5 DEF ServerSend, RelayTypes, HistType
  <2> QED
    BY <2>1, <2>2 DEF SameFor
<1>6. ASSUME UNCHANGED vars PROVE \A d \in Clients : SameFor(d)
  BY <1>6 DEF vars, SameFor
<1>7. \A d \in Clients : SameFor(d) => Follows(d)
  BY <1>1, OthersFollow
<1>8. ASSUME NEW c \in Clients, ClientLoop(c) PROVE \A d \in Clients : Follows(d)
  BY <1>2, <1>4, <1>8, SendMsgFollows, ClientRelayFollows DEF ClientLoop
<1>9. ASSUME NEW c \in Clients, accept(c) \/ relay_to_pi(c) PROVE \A d \in Clients : Follows(d)
  BY <1>2, <1>9, AcceptFollows, RelayFollows
<1>10. ASSUME NEW c \in Clients, NEW z \in Sizes, send_cmd(c, z)
       PROVE  \A d \in Clients : Follows(d)
  BY <1>2, <1>10, SendCmdFollows
<1>11. \A d \in Clients : Follows(d)
  BY <1>3, <1>5, <1>6, <1>7, <1>8, <1>9, <1>10 DEF Next
<1> QED
  BY <1>2, <1>11 DEF ArriveInv, Follows

LEMMA NextArriveInv == ArriveInv /\ [Next]_vars => ArriveInv'
BY NextArrive

(* In every run, whatever the number of clients, of messages, of times a    *)
(* client connects and of lost connections, and whatever the bytes of data  *)
(* that are taken for addresses say: what is put together in the server's   *)
(* table is a message of one packet, whole, each once and in the order in   *)
(* which they were sent, or there is a packet in it that is no piece of any *)
(* message.                                                                 *)
THEOREM ShortArrive == Spec => []OnlyShortArrive
<1>1. ArriveInv => OnlyShortArrive
  <2> SUFFICES ASSUME ArriveInv, NEW c \in Clients
               PROVE  /\ \A q \in ToSet(queue[c]) :
                           \/ Mixed(q)
                           \/ \E m \in DOMAIN hist.sent[c] :
                                hist.sent[c][m] = 1 /\ q = <<[msg |-> m, k |-> 1]>>
                      /\ \A i, j \in DOMAIN queue[c] :
                           i < j /\ ~ Mixed(queue[c][i]) /\ ~ Mixed(queue[c][j])
                             => queue[c][i][1].msg < queue[c][j][1].msg
    BY DEF OnlyShortArrive
  <2>1. /\ queue[c] \in Seq(Seq(Piece)) /\ hist.sent[c] \in Seq(Nat) /\ QueueOK(c)
    BY Part DEF ArriveInv, Arrives
  <2>2. DOMAIN queue[c] = 1 .. Len(queue[c]) /\ DOMAIN hist.sent[c] = 1 .. Len(hist.sent[c])
    BY <2>1
  <2>3. \A i \in 1 .. Len(queue[c]) : i \in Plain(queue[c]) <=> ~ Mixed(queue[c][i])
    BY DEF Plain
  <2>4. ASSUME NEW q \in ToSet(queue[c]), ~ Mixed(q)
        PROVE  \E m \in DOMAIN hist.sent[c] : hist.sent[c][m] = 1 /\ q = <<[msg |-> m, k |-> 1]>>
    <3>1. PICK i \in 1 .. Len(queue[c]) : q = queue[c][i]
      BY <2>2 DEF ToSet
    <3>2. IsShort(q, hist.sent[c])
      BY <2>1, <2>3, <2>4, <3>1 DEF QueueOK
    <3> QED
      BY <2>2, <3>2 DEF IsShort
  <2>5. \A i, j \in DOMAIN queue[c] :
          i < j /\ ~ Mixed(queue[c][i]) /\ ~ Mixed(queue[c][j])
            => queue[c][i][1].msg < queue[c][j][1].msg
    BY <2>1, <2>2, <2>3 DEF QueueOK
  <2> QED
    BY <2>4, <2>5
<1> QED
  BY <1>1, InitArrive, NextArriveInv, PTL DEF Spec

------------------------------------------------------------------------------
(* What a message too long costs.                                           *)
Shorts(c) == {m \in 1 .. Len(hist.sent[c]) : hist.sent[c][m] = 1}
Longs(c)  == {m \in 1 .. Len(hist.sent[c]) : hist.sent[c][m] # 1}

(* The messages that are not on the way any more.                           *)
Over(S, c) == S \ OnWay(c)

(* Every message of one packet has arrived, is owed or was lost, and is     *)
(* paid for by a longer one, by packets lost or by strays.                  *)
CountOK(c) ==
  Count(c) + Cardinality(Over(Longs(c), c)) + 2 * hist.lost[c] + hist.strays[c]
    >= Cardinality(Over(Shorts(c), c)) + Owed(c)

CountInv == ArriveInv /\ \A c \in Clients : CountOK(c)

LEMMA Finite ==
  ASSUME RelayTypes, NEW c \in Clients
  PROVE  /\ IsFiniteSet(Shorts(c)) /\ IsFiniteSet(Longs(c))
         /\ IsFiniteSet(Over(Shorts(c), c)) /\ IsFiniteSet(Over(Longs(c), c))
         /\ Cardinality(Over(Shorts(c), c)) \in Nat /\ Cardinality(Over(Longs(c), c)) \in Nat
         /\ Count(c) \in Nat /\ hist.lost[c] \in Nat /\ hist.strays[c] \in Nat
         /\ Owed(c) \in {0, 1}
<1>1. IsFiniteSet(1 .. Len(hist.sent[c])) /\ IsFiniteSet(1 .. Len(queue[c]))
  BY Part, UpTo
<1>2. IsFiniteSet(Shorts(c)) /\ IsFiniteSet(Longs(c))
  <2>1. /\ Shorts(c) \in SUBSET (1 .. Len(hist.sent[c]))
        /\ Longs(c) \in SUBSET (1 .. Len(hist.sent[c]))
    BY DEF Shorts, Longs
  <2> QED
    BY <1>1, <2>1, FS_Subset
<1>3. IsFiniteSet(Over(Shorts(c), c)) /\ IsFiniteSet(Over(Longs(c), c))
  BY <1>2, FS_Difference DEF Over
<1>4. Count(c) \in Nat
  <2>1. Plain(queue[c]) \in SUBSET (1 .. Len(queue[c]))
    BY DEF Plain
  <2> QED
    BY <1>1, <2>1, FS_Subset, FS_CardinalityType DEF Count
<1>5. hist.lost[c] \in Nat /\ hist.strays[c] \in Nat /\ Owed(c) \in {0, 1}
  BY Part DEF Owed
<1> QED
  BY <1>2, <1>3, <1>4, <1>5, FS_CardinalityType

LEMMA InitCount == Init => CountInv
<1> SUFFICES ASSUME Init, NEW c \in Clients PROVE CountOK(c)
  BY InitArrive DEF CountInv
<1>1. /\ hist.sent[c] = <<>> /\ hist.lost[c] = 0 /\ hist.strays[c] = 0 /\ queue[c] = <<>>
      /\ up[c] = <<>> /\ ~ entry[c].has_cmd
  BY NoMsgFacts DEF Init
<1>2. 1 .. Len(<<>>) = {} /\ Len(<<>>) = 0
  OBVIOUS
<1>3. Shorts(c) = {} /\ Longs(c) = {} /\ Plain(queue[c]) = {}
  BY <1>1, <1>2 DEF Shorts, Longs, Plain
<1>4. /\ Cardinality(Over(Shorts(c), c)) = 0 /\ Cardinality(Over(Longs(c), c)) = 0
      /\ Count(c) = 0
  BY <1>3, FS_EmptySet DEF Over, Count
<1>5. ~ OutOfStep(c) /\ Owed(c) = 0
  BY <1>1 DEF OutOfStep, Headless, Owed
<1> QED
  BY <1>1, <1>4, <1>5 DEF CountOK

(* One more message, of whatever size.                                      *)
LEMMA SendCount ==
  ASSUME CountInv, NEW c \in Clients, Sends(c)
  PROVE  CountOK(c)'
<1> DEFINE n == hist.sent[c]
<1>1. /\ RelayTypes /\ n \in Seq(Nat) /\ Len(n) \in Nat /\ CountOK(c)
      /\ OnWay(c) \subseteq 1 .. Len(n)
  BY PartArrives DEF CountInv
<1>2. PICK z \in Nat : hist'.sent[c] = Append(n, z)
  BY DEF Sends
<1>3. /\ OnWay(c)' = OnWay(c) \cup {Len(n) + 1} /\ queue'[c] = queue[c]
      /\ hist'.lost[c] = hist.lost[c] /\ hist'.strays[c] = hist.strays[c]
      /\ Owed(c)' = Owed(c)
  BY DEF Sends
<1>4. /\ Len(Append(n, z)) = Len(n) + 1 /\ \A i \in 1 .. Len(n) : Append(n, z)[i] = n[i]
  BY <1>1, <1>2, Came
<1> HIDE DEF n
<1>5. \A m : m \in 1 .. Len(n) + 1 /\ m # Len(n) + 1 <=> m \in 1 .. Len(n)
  BY <1>1
<1>6. Over(Shorts(c), c)' = Over(Shorts(c), c)
  BY <1>2, <1>3, <1>4, <1>5 DEF Over, Shorts, n
<1>7. Over(Longs(c), c)' = Over(Longs(c), c)
  BY <1>2, <1>3, <1>4, <1>5 DEF Over, Longs, n
<1>8. Count(c)' = Count(c)
  BY <1>3 DEF Count
<1> QED
  BY <1>1, <1>3, <1>6, <1>7, <1>8 DEF CountOK

LEMMA EndPays ==
  ASSUME NEW q \in Nat, NEW l \in Nat, NEW h \in Nat, NEW s \in Nat, NEW a \in Nat,
         NEW b \in {0, 1}, NEW o \in {0, 1}, NEW p \in {0, 1}, NEW r \in Nat,
         q + l + 2 * h + s >= a + o,
         \/ o = 0 /\ p = 0 /\ b = 1 /\ r = q + 1
         \/ o = 0 /\ b = 0 /\ r = q
         \/ o = 1 /\ p = 0 /\ r = q
  PROVE  r + (l + (1 - b)) + 2 * h + s >= (a + b) + p
OBVIOUS

(* The data of message m is read.                                           *)
LEMMA EndCount ==
  ASSUME CountInv, NEW c \in Clients, NEW m, Ends(c, m)
  PROVE  CountOK(c)'
<1> DEFINE A == Over(Shorts(c), c)
           D == Over(Shorts(c), c)'
           L == Over(Longs(c), c)
           M == Over(Longs(c), c)'
           one == hist.sent[c][m] = 1
           b == IF one THEN 1 ELSE 0
<1>1. ArriveInv /\ RelayTypes /\ CountOK(c)
  BY DEF CountInv, ArriveInv
<1>2. m \in 1 .. Len(hist.sent[c]) /\ OnWay(c)' = OnWay(c) \ {m} /\ m \in OnWay(c) /\ hist' = hist
  BY <1>1, PartArrives DEF Ends
<1>3. Shorts(c)' = Shorts(c) /\ Longs(c)' = Longs(c)
  BY <1>2 DEF Shorts, Longs
<1>4. /\ D = IF one THEN A \cup {m} ELSE A
      /\ M = IF one THEN L ELSE L \cup {m}
      /\ m \notin A /\ m \notin L
  BY <1>2, <1>3 DEF Over, Shorts, Longs
<1>5. /\ IsFiniteSet(A) /\ IsFiniteSet(L) /\ Cardinality(A) \in Nat /\ Cardinality(L) \in Nat
      /\ Count(c) \in Nat /\ hist.lost[c] \in Nat /\ hist.strays[c] \in Nat /\ Owed(c) \in {0, 1}
  BY <1>1, Finite
<1>6. Count(c)' \in Nat /\ Owed(c)' \in {0, 1}
  <2>1. Count(c)' = Count(c) + 1 \/ Count(c)' = Count(c)
    BY DEF Ends
  <2> QED
    BY <1>5, <2>1 DEF Owed
<1>7. Count(c) + Cardinality(L) + 2 * hist.lost[c] + hist.strays[c] >= Cardinality(A) + Owed(c)
  BY <1>1 DEF CountOK
<1>8. \/ Owed(c) = 0 /\ Owed(c)' = 0 /\ b = 1 /\ Count(c)' = Count(c) + 1
      \/ Owed(c) = 0 /\ b = 0 /\ Count(c)' = Count(c)
      \/ Owed(c) = 1 /\ Owed(c)' = 0 /\ Count(c)' = Count(c)
  BY DEF Ends
<1>9. ASSUME Count(c)' + Cardinality(M) + 2 * hist.lost[c] + hist.strays[c]
               >= Cardinality(D) + Owed(c)'
      PROVE  CountOK(c)'
  BY <1>2, <1>9 DEF CountOK
<1>10. b \in {0, 1} /\ (b = 1 <=> one)
  OBVIOUS
<1> HIDE DEF A, D, L, M, one, b
<1>11. Cardinality(D) = Cardinality(A) + b /\ Cardinality(M) = Cardinality(L) + (1 - b)
  <2>1. Cardinality(A \cup {m}) = Cardinality(A) + 1 /\ Cardinality(L \cup {m}) = Cardinality(L) + 1
    BY <1>4, <1>5, FS_AddElement
  <2> QED
    BY <1>4, <1>5, <1>10, <2>1
<1>12. Count(c)' + (Cardinality(L) + (1 - b)) + 2 * hist.lost[c] + hist.strays[c]
         >= (Cardinality(A) + b) + Owed(c)'
  BY <1>5, <1>6, <1>7, <1>8, <1>10, EndPays
<1> QED
  BY <1>9, <1>11, <1>12

LEMMA LossPays ==
  ASSUME NEW q \in Nat, NEW m \in Nat, NEW l \in Nat, NEW h \in Nat, NEW k \in Nat, NEW a \in Nat,
         NEW b \in Nat, NEW d \in Nat, NEW s \in Nat, NEW t \in Nat,
         NEW o \in {0, 1}, NEW p \in {0, 1},
         q + l + 2 * h + s >= a + o, l <= m, d <= a + b, b <= k, s <= t, p <= o + k + (t - s)
  PROVE  q + m + 2 * (h + k) + t >= d + p
OBVIOUS

(* With k packets go at most k messages, and one more may be owed, for them *)
(* or for a stray.                                                          *)
LEMMA LossCount ==
  ASSUME CountInv, RelayTypes', NEW c \in Clients, NEW k \in Nat, NEW B, Loses(c, B, k)
  PROVE  CountOK(c)'
<1> DEFINE A == Over(Shorts(c), c)
           D == Over(Shorts(c), c)'
           L == Over(Longs(c), c)
           M == Over(Longs(c), c)'
<1>1. ArriveInv /\ RelayTypes /\ CountOK(c)
  BY DEF CountInv, ArriveInv
<1>2. /\ hist'.sent[c] = hist.sent[c] /\ Count(c)' = Count(c)
      /\ OnWay(c)' = OnWay(c) \ B /\ IsFiniteSet(B) /\ Cardinality(B) <= k
      /\ hist'.lost[c] = hist.lost[c] + k /\ hist'.strays[c] >= hist.strays[c]
      /\ Owed(c)' <= Owed(c) + k + (hist'.strays[c] - hist.strays[c])
  BY DEF Loses
<1>3. Shorts(c)' = Shorts(c) /\ Longs(c)' = Longs(c)
  BY <1>2 DEF Shorts, Longs
<1>4. D \in SUBSET (A \cup B) /\ L \in SUBSET M
  BY <1>2, <1>3 DEF Over
<1>5. /\ IsFiniteSet(A) /\ IsFiniteSet(L) /\ Cardinality(A) \in Nat /\ Cardinality(L) \in Nat
      /\ Count(c) \in Nat /\ hist.lost[c] \in Nat /\ hist.strays[c] \in Nat /\ Owed(c) \in {0, 1}
      /\ IsFiniteSet(Shorts(c)) /\ IsFiniteSet(Longs(c))
  BY <1>1, Finite
<1>6. /\ IsFiniteSet(D) /\ IsFiniteSet(M) /\ Cardinality(D) \in Nat /\ Cardinality(M) \in Nat
      /\ Cardinality(B) \in Nat
  <2>1. D = Shorts(c) \ OnWay(c)' /\ M = Longs(c) \ OnWay(c)'
    BY <1>3 DEF Over
  <2> HIDE DEF A, D, L, M
  <2>2. IsFiniteSet(D) /\ IsFiniteSet(M)
    BY <1>5, <2>1, FS_Difference
  <2> QED
    BY <1>2, <2>2, FS_CardinalityType
<1>7. Owed(c)' \in {0, 1} /\ hist'.strays[c] \in Nat
  BY Part DEF Owed, RelayTypes, HistType
<1>8. Count(c) + Cardinality(L) + 2 * hist.lost[c] + hist.strays[c] >= Cardinality(A) + Owed(c)
  BY <1>1 DEF CountOK
<1>9. ASSUME Count(c) + Cardinality(M) + 2 * (hist.lost[c] + k) + hist'.strays[c]
               >= Cardinality(D) + Owed(c)'
      PROVE  CountOK(c)'
  BY <1>2, <1>9 DEF CountOK
<1> HIDE DEF A, D, L, M
<1>10. Cardinality(L) <= Cardinality(M)
  BY <1>4, <1>6, FS_Subset
<1>11. Cardinality(D) <= Cardinality(A) + Cardinality(B)
  <2>1. /\ IsFiniteSet(A \cup B)
        /\ Cardinality(A \cup B) = Cardinality(A) + Cardinality(B) - Cardinality(A \cap B)
    BY <1>2, <1>5, FS_Union
  <2>2. Cardinality(A \cap B) \in Nat
    <3>1. (A \cap B) \in SUBSET A
      OBVIOUS
    <3>2. IsFiniteSet(A \cap B)
      BY <1>5, <3>1, FS_Subset
    <3> QED
      BY <3>2, FS_CardinalityType
  <2>3. Cardinality(D) <= Cardinality(A \cup B)
    BY <1>4, <2>1, FS_Subset
  <2> QED
    BY <1>5, <1>6, <2>1, <2>2, <2>3
<1>12. Count(c) + Cardinality(M) + 2 * (hist.lost[c] + k) + hist'.strays[c]
         >= Cardinality(D) + Owed(c)'
  <2>1. hist.strays[c] <= hist'.strays[c]
    BY <1>2, <1>5, <1>7
  <2>2. Cardinality(B) <= k /\ Owed(c)' <= Owed(c) + k + (hist'.strays[c] - hist.strays[c])
    BY <1>2
  <2> QED
    BY <1>5, <1>6, <1>7, <1>8, <1>10, <1>11, <2>1, <2>2, LossPays
<1> QED
  BY <1>9, <1>12

LEMMA NextCount == CountInv /\ [Next]_vars => CountInv'
<1> SUFFICES ASSUME CountInv, [Next]_vars PROVE CountInv'
  OBVIOUS
<1>1. ArriveInv' /\ \A c \in Clients : Effect(c)
  BY NextArrive DEF CountInv, Follows
<1>2. RelayTypes'
  BY <1>1 DEF ArriveInv
<1>3. ASSUME NEW c \in Clients PROVE CountOK(c)'
  <2>1. CASE Sends(c)
    BY <2>1, SendCount
  <2>2. CASE \E m \in Nat : Ends(c, m)
    BY <2>2, EndCount
  <2>3. CASE \E k \in Nat, B \in SUBSET Nat : Loses(c, B, k)
    BY <1>2, <2>3, LossCount
  <2> QED
    BY <1>1, <2>1, <2>2, <2>3 DEF Effect
<1> QED
  BY <1>1, <1>3 DEF CountInv

(* In every run and for every number of messages: when nothing of a client  *)
(* is on its way, each of its messages that is missing though it was short  *)
(* enough is paid for by one that was too long, by a packet dropped with a  *)
(* connection (two for a packet: the message it was of, and the one its     *)
(* absence puts the table out of step with), or by a packet in its name     *)
(* that is no piece of any message.                                         *)
THEOREM LongCosts == Spec => []LongCost
<1>1. CountInv => LongCost
  <2> SUFFICES ASSUME CountInv, NEW c \in Clients, Settled(c)
               PROVE  Cardinality({i \in DOMAIN queue[c] : ~ Mixed(queue[c][i])})
                        >= Short(c) - Long(c) - 2 * hist.lost[c] - hist.strays[c]
    BY DEF LongCost
  <2>1. /\ RelayTypes /\ CountOK(c) /\ hist.sent[c] \in Seq(Nat) /\ Len(hist.sent[c]) \in Nat
        /\ queue[c] \in Seq(Seq(Piece)) /\ waiting[c] \in Seq(Packets)
    BY Part DEF CountInv, ArriveInv
  <2>2. OnWay(c) = {}
    <3>1. /\ job[c] = 0 /\ up[c] = <<>> /\ \A i \in 1 .. Len(waiting[c]) : waiting[c][i] = <<>>
      BY <2>1 DEF Settled
    <3>2. AllOn(up[c], waiting[c]) = {}
      BY <3>1, EmptyLine DEF AllOn
    <3> QED
      BY <3>1, <3>2 DEF OnWay, ToSend
  <2>3. Over(Shorts(c), c) = Shorts(c) /\ Over(Longs(c), c) = Longs(c)
    BY <2>2 DEF Over
  <2>4. Cardinality({i \in DOMAIN queue[c] : ~ Mixed(queue[c][i])}) = Count(c)
    <3>1. DOMAIN queue[c] = 1 .. Len(queue[c])
      BY <2>1
    <3> QED
      BY <3>1 DEF Count, Plain
  <2>5. Short(c) = Cardinality(Shorts(c))
    <3>1. DOMAIN hist.sent[c] = 1 .. Len(hist.sent[c])
      BY <2>1
    <3> QED
      BY <3>1 DEF Short, Shorts
  <2>6. Cardinality(Longs(c)) = Len(hist.sent[c]) - Cardinality(Shorts(c))
    <3>1. /\ IsFiniteSet(1 .. Len(hist.sent[c]))
          /\ Cardinality(1 .. Len(hist.sent[c])) = Len(hist.sent[c])
      BY <2>1, UpTo
    <3> DEFINE I == 1 .. Len(hist.sent[c])
               S == Shorts(c)
    <3>2. Longs(c) = I \ S /\ I \cap S = S
      BY DEF Longs, Shorts
    <3> HIDE DEF I, S
    <3>3. Cardinality(I \ S) = Cardinality(I) - Cardinality(I \cap S)
      BY <3>1, FS_Difference DEF I
    <3> QED
      BY <3>1, <3>2, <3>3 DEF I, S
  <2>7. /\ Cardinality(Shorts(c)) \in Nat /\ Cardinality(Longs(c)) \in Nat /\ Count(c) \in Nat
        /\ hist.lost[c] \in Nat /\ hist.strays[c] \in Nat /\ Owed(c) \in {0, 1}
    BY <2>1, <2>3, Finite
  <2>8. Long(c) = Cardinality(Longs(c))
    BY <2>5, <2>6 DEF Long
  <2>9. Count(c) + Long(c) + 2 * hist.lost[c] + hist.strays[c] >= Short(c) + Owed(c)
    BY <2>1, <2>3, <2>5, <2>8 DEF CountOK
  <2>10. Short(c) \in Nat /\ Long(c) \in Nat
    BY <2>5, <2>7, <2>8
  <2>11. \A q, l, h, s, a \in Nat, o \in {0, 1} :
           q + l + 2 * h + s >= a + o => q >= a - l - 2 * h - s
    OBVIOUS
  <2> HIDE DEF Owed, Count
  <2> QED
    BY <2>4, <2>7, <2>9, <2>10, <2>11
<1> QED
  BY <1>1, InitCount, NextCount, PTL DEF Spec
=============================================================================
