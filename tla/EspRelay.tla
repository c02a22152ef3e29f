------------------------------ MODULE EspRelay ------------------------------
(***************************************************************************)
(* Messages from Pi to Pi over the ESPs: send_msg, relay_to_pi and         *)
(* client_wifi_cnct of client_esp_new.ino, built with SERVER 0 for the     *)
(* clients and 1 for the server, between send_cmd on a client's Pi and the *)
(* handler on the server's (project/sw-uart/fds.c).                        *)
(*                                                                         *)
(* The sketch has one "current client" for everything.  On a client it is  *)
(* the connection to the server; relay_to_pi replaces it by a connection   *)
(* out of wifiArr, which a client never fills.  On the server it is        *)
(* whichever client was accepted, relayed or written to last.              *)
(*                                                                         *)
(* The serial lines lose nothing here (see EspControl and FileTable), and  *)
(* TCP delivers what was written on a connection that is not replaced, to  *)
(* a server that accepts it after the client has closed it, too.           *)
(***************************************************************************)
EXTENDS Integers, Sequences, FiniteSetsExt, SequencesExt

CONSTANTS
  Clients,      (* the numbers of the clients                               *)
  Others,       (* what else a byte of data may say of itself when it is    *)
                (* taken for the byte of addresses                          *)
  NoClient,
  Sizes,        (* packets of data in a message                             *)
  MaxMsgs,      (* bound: messages of all clients together                  *)
  MaxDown,      (* bound: messages of the server                            *)
  MaxConnects   (* bound: times that clients are told to connect, together  *)

ASSUME EspRelayAssumption ==
  /\ NoClient \notin Clients
  /\ Sizes \subseteq Nat \ {0} /\ {MaxMsgs, MaxDown, MaxConnects} \subseteq Nat

VARIABLES
  job,          (* packets in the command the ESP of c is going to run, or 0*)
  ip,           (* client of c: serverIP is known                           *)
  conn,         (* client of c: its connection is none, waiting for the     *)
                (* server to accept it, or accepted                         *)
  waiting,      (* connections of c not accepted yet, oldest first: the     *)
                (* packets on each                                          *)
  wifiArr,      (* clients with a connection in wifiArr                     *)
  gone,         (* those whose connection there a restart has left behind   *)
  up,           (* packets of c the server can read                         *)
  down,         (* clients with something from the server to read           *)
  server,       (* [hung, client]: the server's ESP                         *)
  entry,        (* cur_msg of fileTable[c] on the server's Pi: [has_cmd,    *)
                (* totPckts, data], data the pieces stored                  *)
  queue,        (* msg_q of fileTable[c], oldest first: the pieces          *)
  hist          (* history: [sent, lost, strays, cncts, downs]: sizes of    *)
                (* c's messages, packets of c dropped with a connection or  *)
                (* a restart, packets with the address c that are no piece  *)
                (* of a message and have come to the server's Pi, commands  *)
                (* to c to connect, the server's messages                   *)

vars == <<job, ip, conn, waiting, wifiArr, gone, up, down, server, entry, queue, hist>>
clientVars == <<job, ip, conn, waiting>>
piVars == <<entry, queue>>

------------------------------------------------------------------------------
Packet(isCmd, from, m, k) == [isCmd |-> isCmd, from |-> from, msg |-> m, k |-> k]

(* Mutant: only the command is written. *)
Wire_Cmd(c, m, n, x) == <<Packet(TRUE, c, m, n)>>

(* send_msg writes the command and the first packet as they are.  Of packet *)
(* i it writes the bytes (i+1)*k, so that what follows has the flags of the *)
(* first and, as addresses, the byte x[i] of the first's data: any client,  *)
(* or none.  k is 0 for such a packet, it is no piece of the message.       *)
Wire(c, m, n, x) ==
  <<Packet(TRUE, c, m, n), Packet(FALSE, c, m, 1)>>
    \o [i \in 1 .. n - 1 |-> Packet(FALSE, x[i], m, 0)]

(* A client's Pi has sent a command and its data.                           *)
send_cmd(c, n) ==
  /\ job[c] = 0 /\ MapThenSumSet(LAMBDA d : Len(hist.sent[d]), Clients) < MaxMsgs
  /\ job' = [job EXCEPT ![c] = n]
  /\ hist' = [hist EXCEPT !.sent[c] = Append(@, n)]
  /\ UNCHANGED <<ip, conn, waiting, wifiArr, gone, up, down, server, piVars>>

(* client.connect(): an earlier connection is closed, and if the server can *)
(* be reached there is a new one.                                           *)
ConnectTo(c, reached) ==
  /\ conn' = [conn EXCEPT ![c] = IF reached THEN "waiting" ELSE "none"]
  /\ waiting' = IF reached THEN [waiting EXCEPT ![c] = Append(@, <<>>)] ELSE waiting
  /\ down' = down \ {c}

(* ESP_WIFI_CONNECT, also of a client that is connected.  Without a network *)
(* nothing happens but the answer to the Pi.                                *)
client_wifi_cnct(c) ==
  /\ job[c] = 0 /\ MapThenSumSet(LAMBDA d : hist.cncts[d], Clients) < MaxConnects
  /\ ip' = [ip EXCEPT ![c] = TRUE]
  /\ \E reached \in BOOLEAN : ConnectTo(c, reached)
  /\ hist' = [hist EXCEPT !.cncts[c] = @ + 1]
  /\ UNCHANGED <<job, wifiArr, gone, up, server, piVars>>

(* while(!client.connected()) client.connect(serverIP,1001), on a client:   *)
(* the try that succeeds.  Without a serverIP none does.                    *)
connect(c) ==
  /\ job[c] # 0 /\ conn[c] = "none" /\ ip[c]
  /\ ConnectTo(c, TRUE)
  /\ UNCHANGED <<job, ip, wifiArr, gone, up, server, piVars, hist>>

(* The packets go to the connection made last.                              *)
send_msg(c) ==
  /\ job[c] # 0 /\ conn[c] # "none"
  /\ \E x \in [1 .. job[c] - 1 -> Clients \cup Others] :
       LET w == Wire(c, Len(hist.sent[c]), job[c], x)
       IN  IF conn[c] = "waiting"
             THEN waiting' = [waiting EXCEPT ![c][Len(waiting[c])] = @ \o w] /\ UNCHANGED up
             ELSE up' = [up EXCEPT ![c] = @ \o w] /\ UNCHANGED waiting
  /\ job' = [job EXCEPT ![c] = 0]
  /\ UNCHANGED <<ip, conn, wifiArr, gone, down, server, piVars, hist>>

(* relay_to_pi on a client: client = wifiArr[from], with the count of the   *)
(* rounds, 0 to 255, for an index.  An empty entry drops the connection and *)
(* what there was to read.  Behind the 16 entries may be the connection     *)
(* itself, or what is no connection at all, with which the ESP crashes and  *)
(* starts again; the server may take the old connection for one that is up. *)
ClientRelay(c) ==
  /\ c \in down
  /\ down' = down \ {c}
  /\ \/ conn' = [conn EXCEPT ![c] = "none"] /\ UNCHANGED <<job, ip, gone, hist>>
     \/ UNCHANGED <<job, ip, conn, gone, hist>>
     \/ /\ job' = [job EXCEPT ![c] = 0]
        /\ ip' = [ip EXCEPT ![c] = FALSE]
        /\ conn' = [conn EXCEPT ![c] = "none"]
        /\ gone' = gone \cup {c}
        /\ hist' = [hist EXCEPT !.lost[c] = IF job[c] = 0 THEN @ ELSE @ + job[c] + 1]
  /\ UNCHANGED <<waiting, wifiArr, up, server, piVars>>

------------------------------------------------------------------------------
(* The server's ESP.                                                        *)

(* Mutant: the new client is only put in the list. *)
accept_List(c) ==
  /\ ~ server.hung /\ waiting[c] # <<>>
  /\ wifiArr' = wifiArr \cup {c}
  /\ gone' = gone \ {c}
  /\ up' = [up EXCEPT ![c] = Head(waiting[c])]
  /\ waiting' = [waiting EXCEPT ![c] = Tail(@)]
  /\ conn' = [conn EXCEPT ![c] =
                 IF @ = "waiting" /\ Len(waiting[c]) = 1 THEN "accepted" ELSE @]
  /\ hist' = [hist EXCEPT !.lost[c] = @ + Len(up[c])]
  /\ UNCHANGED <<job, ip, down, server, piVars>>

(* The connection accepted before, with what was not read of it, is gone.   *)
accept(c) ==
  /\ ~ server.hung /\ waiting[c] # <<>>
  /\ wifiArr' = wifiArr \cup {c}
  /\ gone' = gone \ {c}
  /\ server' = [server EXCEPT !.client = c]
  /\ up' = [up EXCEPT ![c] = Head(waiting[c])]
  /\ waiting' = [waiting EXCEPT ![c] = Tail(@)]
  /\ conn' = [conn EXCEPT ![c] =
                 IF @ = "waiting" /\ Len(waiting[c]) = 1 THEN "accepted" ELSE @]
  /\ hist' = [hist EXCEPT !.lost[c] = @ + Len(up[c])]
  /\ UNCHANGED <<job, ip, down, piVars>>

NoMsg == [has_cmd |-> FALSE, totPckts |-> 0, data |-> <<>>]

(* Mutant: a second command replaces the first. *)
recieveMsgHandler_Replace(p) ==
  LET e == entry[p.from]
      d == Append(e.data, [msg |-> p.msg, k |-> p.k])
  IN  IF p.from \notin Clients THEN UNCHANGED piVars
      ELSE IF p.isCmd THEN
        /\ entry' = [entry EXCEPT ![p.from] =
                       [has_cmd |-> TRUE, totPckts |-> p.k, data |-> e.data]]
        /\ UNCHANGED queue
      ELSE IF e.has_cmd /\ Len(d) = e.totPckts THEN
        /\ entry' = [entry EXCEPT ![p.from] = NoMsg]
        /\ queue' = [queue EXCEPT ![p.from] = Append(@, d)]
      ELSE /\ entry' = [entry EXCEPT ![p.from].data = IF e.has_cmd THEN d ELSE @]
           /\ UNCHANGED queue

(* What the handler does with a packet, see FileTable.                      *)
recieveMsgHandler(p) ==
  LET e == entry[p.from]
      d == Append(e.data, [msg |-> p.msg, k |-> p.k])
  IN  IF p.from \notin Clients THEN UNCHANGED piVars
      ELSE IF p.isCmd THEN
        /\ entry' = [entry EXCEPT ![p.from] =
                       IF e.has_cmd THEN NoMsg
                       ELSE [has_cmd |-> TRUE, totPckts |-> p.k, data |-> <<>>]]
        /\ UNCHANGED queue
      ELSE IF e.has_cmd /\ Len(d) = e.totPckts THEN
        /\ entry' = [entry EXCEPT ![p.from] = NoMsg]
        /\ queue' = [queue EXCEPT ![p.from] = Append(@, d)]
      ELSE /\ entry' = [entry EXCEPT ![p.from].data = IF e.has_cmd THEN d ELSE @]
           /\ UNCHANGED queue

StrayFor(p, c) == IF p.k = 0 /\ p.from = c THEN 1 ELSE 0

(* Mutant: more than one packet has to be there. *)
relay_to_pi_More(c) ==
  /\ ~ server.hung /\ c \in wifiArr /\ Len(up[c]) > 1
  /\ server' = [server EXCEPT !.client = c]
  /\ recieveMsgHandler(Head(up[c]))
  /\ up' = [up EXCEPT ![c] = Tail(@)]
  /\ hist' = [hist EXCEPT !.strays = [d \in Clients |-> @[d] + StrayFor(Head(up[c]), d)]]
  /\ UNCHANGED <<clientVars, wifiArr, gone, down>>

relay_to_pi(c) ==
  /\ ~ server.hung /\ c \in wifiArr /\ up[c] # <<>>
  /\ server' = [server EXCEPT !.client = c]
  /\ recieveMsgHandler(Head(up[c]))
  /\ up' = [up EXCEPT ![c] = Tail(@)]
  /\ hist' = [hist EXCEPT !.strays = [d \in Clients |-> @[d] + StrayFor(Head(up[c]), d)]]
  /\ UNCHANGED <<clientVars, wifiArr, gone, down>>

(* client.connected(): the connection is up, or there is more to read.      *)
Connected(c) == c # NoClient /\ (conn[c] = "accepted" \/ up[c] # <<>>)

(* The server's Pi sends to c.  Without a current client the ESP would      *)
(* connect to address 0, and tries for ever.                                *)
ServerSend(c) ==
  /\ ~ server.hung /\ hist.downs < MaxDown
  /\ hist' = [hist EXCEPT !.downs = @ + 1]
  /\ \/ /\ Connected(server.client) \/ server.client \in gone
        /\ server' = [server EXCEPT !.client = IF c \in wifiArr THEN c ELSE NoClient]
        /\ down' = IF c \in wifiArr /\ conn[c] = "accepted" THEN down \cup {c} ELSE down
     \/ /\ ~ Connected(server.client)
        /\ server' = [server EXCEPT !.hung = TRUE]
        /\ UNCHANGED down
  /\ UNCHANGED <<clientVars, wifiArr, gone, up, piVars>>

------------------------------------------------------------------------------
Init ==
  /\ job = [c \in Clients |-> 0]
  /\ ip = [c \in Clients |-> FALSE]
  /\ conn = [c \in Clients |-> "none"]
  /\ waiting = [c \in Clients |-> <<>>]
  /\ wifiArr = {} /\ gone = {} /\ down = {}
  /\ up = [c \in Clients |-> <<>>]
  /\ server = [hung |-> FALSE, client |-> NoClient]
  /\ entry = [c \in Clients |-> NoMsg]
  /\ queue = [c \in Clients |-> <<>>]
  /\ hist = [sent |-> [c \in Clients |-> <<>>], lost |-> [c \in Clients |-> 0],
             strays |-> [c \in Clients |-> 0], cncts |-> [c \in Clients |-> 0], downs |-> 0]

(* The loop of a client's sketch, where its Pi has not asked to connect.    *)
ClientLoop(c) == connect(c) \/ send_msg(c) \/ ClientRelay(c)

Next ==
  \E c \in Clients :
    \/ ClientLoop(c) \/ client_wifi_cnct(c) \/ accept(c) \/ relay_to_pi(c) \/ ServerSend(c)
    \/ \E n \in Sizes : send_cmd(c, n)

Spec == Init /\ [][Next]_vars

(* The sketches run: a client's loop, and the server's, which in each round *)
(* asks for a new client and goes through wifiArr.  Nothing is assumed of   *)
(* the programs on the Pis.                                                 *)
FairSpec ==
  /\ Spec
  /\ \A c \in Clients : WF_vars(ClientLoop(c)) /\ WF_vars(accept(c)) /\ WF_vars(relay_to_pi(c))

------------------------------------------------------------------------------
Short(c) == Cardinality({m \in DOMAIN hist.sent[c] : hist.sent[c][m] = 1})
Long(c)  == Len(hist.sent[c]) - Short(c)

(* With a later packet of some message in it, which is no piece of it.      *)
Mixed(q) == \E i \in DOMAIN q : q[i].k = 0

(* What the handler puts together are whole messages of one packet, each at *)
(* most once and in the order they were sent, or it has a packet in it that *)
(* is no piece of any message: no message of more packets arrives, and two  *)
(* connections of one client mix no two messages.                           *)
OnlyShortArrive ==
  \A c \in Clients :
    /\ \A q \in ToSet(queue[c]) :
         \/ Mixed(q)
         \/ \E m \in DOMAIN hist.sent[c] : hist.sent[c][m] = 1 /\ q = <<[msg |-> m, k |-> 1]>>
    /\ \A i, j \in DOMAIN queue[c] :
         i < j /\ ~ Mixed(queue[c][i]) /\ ~ Mixed(queue[c][j])
           => queue[c][i][1].msg < queue[c][j][1].msg

(* Nothing of c is on its way.                                              *)
Settled(c) == job[c] = 0 /\ (\A i \in DOMAIN waiting[c] : waiting[c][i] = <<>>) /\ up[c] = <<>>

(* A message too long costs one that is not, the next; a packet lost with a *)
(* connection costs two at most, and a later packet that names c one.       *)
LongCost ==
  \A c \in Clients :
    Settled(c) => Cardinality({i \in DOMAIN queue[c] : ~ Mixed(queue[c][i])})
                    >= Short(c) - Long(c) - 2 * hist.lost[c] - hist.strays[c]

(* Nothing is lost of a client that connects once and that the server never *)
(* writes to, and nothing stays on the way but in a server that hangs or an *)
(* ESP that does not know its server.                                       *)
GetsThrough ==
  /\ [](hist.downs = 0 => \A c \in Clients : hist.cncts[c] < 2 => hist.lost[c] = 0)
  /\ \A c \in Clients : ~ Settled(c) ~> (Settled(c) \/ server.hung \/ (job[c] # 0 /\ ~ ip[c]))

(* The server's ESP only hangs with a client gone, or if none has come yet; *)
(* a client leaves because the server has written to it, or to one that     *)
(* had not come, or because its Pi connects it again.                       *)
HangsAfterOwnMessage ==
  server.hung => \/ hist.downs > 1 \/ wifiArr = {}
                 \/ server.client # NoClient /\ hist.cncts[server.client] > 1
==============================================================================
