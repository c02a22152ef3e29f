----------------------------- MODULE EspControl -----------------------------
(***************************************************************************)
(* A Pi and its own ESP while the Pi's program initialises the network and *)
(* asks who is connected: system_init, client_init, server_init and        *)
(* get_connected (project/sw-uart/pi-esp.c) against the loop of            *)
(* client_esp_new.ino.  The ESP answers by overwriting one status byte of  *)
(* the file table, or with a message for entry 1; the program looks at     *)
(* copies of entries.                                                      *)
(*                                                                         *)
(* The line to the ESP is modelled by halves of packets of 32 bytes, so    *)
(* that draining it can hit the middle of a packet.  Everything the ESP    *)
(* reads of a command is in the first half; the second is zero.            *)
(***************************************************************************)
EXTENDS Integers, Sequences

CONSTANTS
  Id,           (* the last four bits of this ESP's address                 *)
  ServerId,     (* those of the server's                                    *)
  NONE,         (* 15: no status                                            *)
  ESP_FAIL,     (* 0                                                        *)
  Attempts,     (* how often client_init tries to connect: 5                *)
  Halves        (* half packets the ESP's serial buffer holds: 4            *)

(* The numbers are no status of their own (an address that ends in 0 or in  *)
(* 15 would be).                                                            *)
ASSUME EspControlAssumption ==
  /\ {Id, ServerId} \cap {NONE, ESP_FAIL} = {} /\ NONE # ESP_FAIL
  /\ Attempts \in Nat \ {0} /\ Halves \in Nat

VARIABLES
  pi,           (* [role, pc, half, try, localFD, serverFD]; half: the      *)
                (* first half of a packet has been sent                     *)
  status,       (* fileTable[MAXFILES].status                               *)
  lists,        (* messages on the queue of entry 1                         *)
  serial,       (* half packets waiting in the ESP                          *)
  esp           (* [pc, cmnd, pending, answer, serverIP, tcp]               *)

vars == <<pi, status, lists, serial, esp>>

------------------------------------------------------------------------------
(* The Pi.                                                                  *)

(* What is sent where; the arguments of the second are in the wrong order,  *)
(* so that the command is 0xf.                                              *)
Cmd == [connect |-> "WIFI_CONNECT", ask |-> "0xf",
        init |-> "SERVER_INIT", list |-> "GET_CONNECTED_LIST"]

After == [connect |-> "poll", ask |-> "copy", init |-> "await", list |-> "list_await"]

PiTo(pc) == pi' = [pi EXCEPT !.pc = pc]

(* Mutant: the serial buffer has no end. *)
Transmit_NoEnd(part) ==
  serial' = IF esp.pc = "off" THEN serial
            ELSE Append(serial, [cmd |-> Cmd[pi.pc], part |-> part])

(* A half arrives unless the ESP is off or has no room, and is damaged if   *)
(* the ESP is talking: neither side can send and receive at once.           *)
Transmit(part) ==
  serial' = IF esp.pc = "off" \/ Len(serial) = Halves THEN serial
            ELSE Append(serial, [cmd  |-> Cmd[pi.pc],
                                 part |-> IF esp.pc = "reply" THEN "junk" ELSE part])

send_cmd ==
  /\ pi.pc \in DOMAIN Cmd
  /\ IF pi.half
       THEN Transmit("tail") /\ pi' = [pi EXCEPT !.half = FALSE, !.pc = After[pi.pc]]
       ELSE Transmit("head") /\ pi' = [pi EXCEPT !.half = TRUE]
  /\ UNCHANGED <<status, lists, esp>>

(* The next attempt of client_init, if there is one.                        *)
Retry ==
  IF pi.try < Attempts THEN pi' = [pi EXCEPT !.pc = "connect", !.try = @ + 1]
  ELSE PiTo("fail")

(* Mutant: get_status clears the table. *)
Connected_Cleared ==
  /\ pi.pc = "poll" /\ status # NONE
  /\ status' = NONE
  /\ IF status = ESP_FAIL THEN Retry ELSE pi' = [pi EXCEPT !.pc = "ask", !.localFD = status]
  /\ UNCHANGED <<lists, serial, esp>>

(* connect_to_wifi sees a status; get_status clears the copy of it.         *)
Connected ==
  /\ pi.pc = "poll" /\ status # NONE
  /\ IF status = ESP_FAIL THEN Retry ELSE pi' = [pi EXCEPT !.pc = "ask", !.localFD = status]
  /\ UNCHANGED <<status, lists, serial, esp>>

(* 1000 looks at the table, which take no time to speak of.                 *)
PollsOver ==
  /\ pi.pc = "poll" /\ status = NONE
  /\ Retry
  /\ UNCHANGED <<status, lists, serial, esp>>

(* client_init waits on the copy it has made: without a status in it there  *)
(* is no next step.                                                         *)
CopyAndWait ==
  /\ pi.pc = "copy"
  /\ CASE status = NONE     -> PiTo("spin")
       [] status = ESP_FAIL -> PiTo("fail")
       [] OTHER             -> pi' = [pi EXCEPT !.pc = "ok", !.serverFD = status]
  /\ UNCHANGED <<status, lists, serial, esp>>

server_init ==
  /\ pi.pc = "await" /\ status # NONE
  /\ IF status = ESP_FAIL THEN PiTo("fail")
     ELSE pi' = [pi EXCEPT !.pc = "list", !.localFD = status, !.serverFD = status]
  /\ UNCHANGED <<status, lists, serial, esp>>

(* Mutant: off by one. *)
get_connected_More ==
  /\ pi.pc = "list_await" /\ lists > 1
  /\ PiTo("ok")
  /\ UNCHANGED <<status, lists, serial, esp>>

get_connected ==
  /\ pi.pc = "list_await" /\ lists > 0
  /\ PiTo("ok")
  /\ UNCHANGED <<status, lists, serial, esp>>

------------------------------------------------------------------------------
(* The ESP.                                                                 *)

PowerUp ==
  /\ esp.pc = "off"
  /\ esp' = [esp EXCEPT !.pc = "loop"]
  /\ UNCHANGED <<pi, status, lists, serial>>

Clean == esp' = [esp EXCEPT !.pc = "loop", !.cmnd = "none", !.pending = FALSE] /\ serial' = <<>>

(* parseNreadPckt takes what comes for a packet.  Zeroes are refused, and   *)
(* so is a second command; anything may come out of a damaged head: an      *)
(* error, a command that waits for data, or the command it was.             *)
Parse ==
  /\ esp.pc = "loop" /\ Len(serial) >= 2
  /\ LET h    == serial[1]
         rest == SubSeq(serial, 3, Len(serial))
     IN  \/ h.part # "head" /\ Clean
         \/ h.part # "tail" /\ esp.pending /\ Clean
         \/ h.part # "tail" /\ ~ esp.pending /\ serial' = rest
              /\ esp' = [esp EXCEPT !.pc = "run", !.cmnd = h.cmd]
         \/ h.part = "junk" /\ ~ esp.pending /\ serial' = rest
              /\ esp' = [esp EXCEPT !.pending = TRUE]
  /\ UNCHANGED <<pi, status, lists>>

Outcome(v, server, tcp) == [answer |-> v, serverIP |-> server, tcp |-> tcp]

(* Mutant: the client is told its gateway's number. *)
Outcomes_Gateway ==
  CASE esp.cmnd = "WIFI_CONNECT" -> {Outcome(ESP_FAIL, esp.serverIP, FALSE),
                                     Outcome(ESP_FAIL, ServerId, FALSE),
                                     Outcome(ServerId, ServerId, TRUE)}
    [] OTHER -> {Outcome(ServerId, esp.serverIP, esp.tcp)}

(* What a command may come to.  client_wifi_cnct fails for want of a        *)
(* network, after ten seconds, or of a server; get_server_ip is never       *)
(* asked.                                                                   *)
Outcomes ==
  CASE esp.cmnd = "WIFI_CONNECT" -> {Outcome(ESP_FAIL, esp.serverIP, FALSE),
                                     Outcome(ESP_FAIL, ServerId, FALSE),
                                     Outcome(Id, ServerId, TRUE)}
    [] esp.cmnd = "GET_SERV_IP"  -> {Outcome(esp.serverIP, esp.serverIP, esp.tcp)}
    [] OTHER                     -> {Outcome(ServerId, esp.serverIP, esp.tcp)}

runCmnd ==
  /\ esp.pc = "run"
  /\ IF esp.cmnd = "0xf" THEN Clean
     ELSE /\ \E o \in Outcomes :
               esp' = [esp EXCEPT !.pc = "reply", !.answer = o.answer,
                                  !.serverIP = o.serverIP, !.tcp = o.tcp]
          /\ UNCHANGED serial
  /\ UNCHANGED <<pi, status, lists>>

(* Mutant: what a FAIL left behind is not reported. *)
Reply_NoFail ==
  /\ esp.pc = "reply"
  /\ status' = IF esp.answer \in {NONE, ESP_FAIL} THEN status ELSE esp.answer
  /\ lists' = IF esp.cmnd = "GET_CONNECTED_LIST" THEN lists + 1 ELSE lists
  /\ Clean
  /\ UNCHANGED pi

(* write_msg_pi, or the message of get_connected_list, has been sent; the   *)
(* Pi's handler takes it, and the ESP drains its line at once.              *)
Reply ==
  /\ esp.pc = "reply"
  /\ IF esp.cmnd = "GET_CONNECTED_LIST"
       THEN lists' = lists + 1 /\ UNCHANGED status
       ELSE status' = esp.answer /\ UNCHANGED lists
  /\ Clean
  /\ UNCHANGED pi

------------------------------------------------------------------------------
Init ==
  /\ pi \in [role : {"client"}, pc : {"connect"}, half : {FALSE}, try : {1},
             localFD : {0}, serverFD : {0}]
            \cup [role : {"server"}, pc : {"init"}, half : {FALSE}, try : {1},
                  localFD : {0}, serverFD : {0}]
  /\ status = NONE
  /\ lists = 0
  /\ serial = <<>>
  /\ esp \in [pc : {"off", "loop"}, cmnd : {"none"}, pending : {FALSE}, answer : {NONE},
              serverIP : {0}, tcp : {FALSE}]

PiStep ==
  \/ send_cmd \/ Connected \/ PollsOver \/ CopyAndWait
  \/ server_init \/ get_connected

EspStep == Parse \/ runCmnd \/ Reply

Next == PiStep \/ EspStep \/ PowerUp

Spec == Init /\ [][Next]_vars

(* Both programs run; nobody has to switch the ESP on.                      *)
FairSpec == Spec /\ WF_vars(PiStep) /\ WF_vars(EspStep)

------------------------------------------------------------------------------
Statuses == {NONE, ESP_FAIL, Id, ServerId}

(* The type invariant.                                                      *)
TypeOK ==
  /\ pi \in [role : {"client", "server"},
             pc : DOMAIN Cmd \cup {"poll", "copy", "spin", "await", "list_await", "ok", "fail"},
             half : BOOLEAN, try : 1 .. Attempts, localFD : Statuses, serverFD : Statuses]
  /\ status \in Statuses /\ lists \in {0, 1}
  /\ Len(serial) <= Halves
  /\ esp \in [pc : {"off", "loop", "run", "reply"},
              cmnd : {"none"} \cup {Cmd[c] : c \in DOMAIN Cmd}, pending : BOOLEAN,
              answer : Statuses, serverIP : {0, ServerId}, tcp : BOOLEAN]

(* A client that has initialised knows its own number, but not the one of   *)
(* the server, which serverFD is meant for (pi-esp.c:45, 63): the status it *)
(* takes for the second answer is always the first, which get_status has    *)
(* left in the table, or the answer to a repeated command.                  *)
OwnNumberTwice ==
  pi.role = "client" /\ pi.pc = "ok" => pi.localFD = Id /\ pi.serverFD = Id

(* A client's initialisation ends: the wait on a copy, which no interrupt   *)
(* can end, finds a status, although commands are lost, repeated and        *)
(* answered late.                                                           *)
ClientInitEnds == pi.role = "client" ~> pi.pc \in {"ok", "fail"}

(* The waits of a server without a timeout end if its ESP was on when it    *)
(* began.                                                                   *)
ServerInitEnds ==
  pi.pc = "init" /\ ~ pi.half /\ esp.pc # "off" ~> pi.pc = "ok"

(* If a repeated command has cost an initialised client its connection, the *)
(* table says so: a program that looks at the status again can know.        *)
LossShows ==
  pi.role = "client" /\ pi.pc = "ok" /\ ~ esp.tcp
    => status = ESP_FAIL \/ (esp.pc = "reply" /\ esp.answer = ESP_FAIL)
==============================================================================
