-------------------------- MODULE EspControl_proofs --------------------------
(***************************************************************************)
(* Proofs about EspControl, for every address, number of attempts and size *)
(* of the ESP's serial buffer.                                             *)
(***************************************************************************)
EXTENDS EspControl, TLAPS

ClientCmds == {"WIFI_CONNECT", "0xf"}

HalfType == [cmd : ClientCmds, part : {"head", "tail", "junk"}]

PiType == [role : {"client"}, pc : {"connect", "ask", "poll", "copy", "ok", "fail"},
           half : BOOLEAN, try : Nat, localFD : {0, Id}, serverFD : {0, Id}]

EspType == [pc : {"off", "loop", "run", "reply"}, cmnd : {"none"} \cup ClientCmds,
            pending : BOOLEAN, answer : {NONE, ESP_FAIL, Id},
            serverIP : {0, ServerId}, tcp : BOOLEAN]

(* The types of a client and its ESP that the arguments below need.         *)
ClientType ==
  /\ pi \in PiType
  /\ status \in {NONE, ESP_FAIL, Id}
  /\ serial \in Seq(HalfType)
  /\ esp \in EspType

(* What the Pi has concluded from the status it has seen, which never goes  *)
(* back to NONE.                                                            *)
Concluded ==
  /\ pi.pc \in {"ask", "copy", "ok"} => status # NONE /\ pi.localFD = Id
  /\ pi.pc = "ok" => pi.serverFD = Id

(* What the ESP is about to answer, or has answered last, fits what has     *)
(* become of its connection.                                                *)
Answered ==
  /\ esp.pc = "run" => esp.cmnd # "none"
  /\ esp.pc = "reply" => /\ esp.cmnd = "WIFI_CONNECT"
                         /\ esp.answer # NONE
                         /\ esp.answer = Id => esp.tcp
  /\ status = Id => esp.tcp \/ (esp.pc = "reply" /\ esp.answer = ESP_FAIL)

ClientOK == ClientType /\ Concluded /\ Answered

ClientInv == "role" \in DOMAIN pi /\ (pi.role = "client" => ClientOK)

LEMMA EmptyLine == <<>> \in Seq(HalfType)
OBVIOUS

LEMMA InitClient == Init => ClientInv
<1> SUFFICES ASSUME Init PROVE ClientInv
  OBVIOUS
<1>1. "role" \in DOMAIN pi
  BY DEF Init
<1>2. ASSUME pi.role = "client" PROVE ClientOK
  <2>1. pi = [role |-> "client", pc |-> "connect", half |-> FALSE, try |-> 1,
              localFD |-> 0, serverFD |-> 0]
    BY <1>2 DEF Init
  <2>2. pi \in PiType /\ pi.pc = "connect"
    BY <2>1 DEF PiType
  <2>3. /\ esp \in EspType /\ esp.pc \in {"off", "loop"}
        /\ status = NONE /\ serial \in Seq(HalfType)
    <3>1. serial \in Seq(HalfType) /\ status = NONE
      BY EmptyLine DEF Init
    <3>2. PICK x \in {"off", "loop"} :
            esp = [pc |-> x, cmnd |-> "none", pending |-> FALSE, answer |-> NONE,
                   serverIP |-> 0, tcp |-> FALSE]
      BY DEF Init
    <3>3. esp \in EspType /\ esp.pc \in {"off", "loop"}
      BY <3>2 DEF EspType
    <3> QED
      BY <3>1, <3>3
  <2>4. ClientType
    BY <2>2, <2>3 DEF ClientType
  <2>5. Concluded /\ Answered
    BY <2>2, <2>3, EspControlAssumption DEF Concluded, Answered
  <2> QED
    BY <2>4, <2>5 DEF ClientOK
<1> QED
  BY <1>1, <1>2 DEF ClientInv

(* The role is never assigned.                                              *)
LEMMA RoleKept ==
  ASSUME [Next]_vars, "role" \in DOMAIN pi
  PROVE  "role" \in DOMAIN pi' /\ pi'.role = pi.role
BY DEF Next, PiStep, EspStep, PowerUp, vars, send_cmd, Connected, PollsOver, CopyAndWait,
       server_init, get_connected, PiTo, Retry, Parse, runCmnd, Reply

(* A half packet that arrives is one of a client's command.                 *)
LEMMA TransmitType ==
  ASSUME ClientType, NEW part \in {"head", "tail"}, pi.pc \in {"connect", "ask"},
         Transmit(part)
  PROVE  serial' \in Seq(HalfType)
<1>1. Cmd[pi.pc] \in ClientCmds
  BY DEF Cmd, ClientCmds
<1>2. \A x \in {"head", "tail", "junk"} : [cmd |-> Cmd[pi.pc], part |-> x] \in HalfType
  BY <1>1 DEF HalfType
<1>3. serial \in Seq(HalfType)
  BY DEF ClientType
<1> QED
  BY <1>2, <1>3 DEF Transmit

(* The Pi's steps.                                                          *)
LEMMA PiKeeps ==
  ASSUME ClientOK, PiStep
  PROVE  ClientOK'
<1> USE DEF ClientOK
<1>0. pi \in PiType
  BY DEF ClientType
<1>1. CASE send_cmd
  <2>1. pi.pc \in {"connect", "ask"}
    BY <1>0, <1>1 DEF send_cmd, Cmd, PiType
  <2>2. serial' \in Seq(HalfType)
    BY <1>1, <2>1, TransmitType DEF send_cmd
  <2>3. \/ pi' = [pi EXCEPT !.half = TRUE]
        \/ pi.pc = "connect" /\ pi' = [pi EXCEPT !.half = FALSE, !.pc = "poll"]
        \/ pi.pc = "ask" /\ pi' = [pi EXCEPT !.half = FALSE, !.pc = "copy"]
    <3>1. \/ pi' = [pi EXCEPT !.half = TRUE]
          \/ pi' = [pi EXCEPT !.half = FALSE, !.pc = After[pi.pc]]
      BY <1>1 DEF send_cmd
    <3>2. After["connect"] = "poll" /\ After["ask"] = "copy"
      BY DEF After
    <3> QED
      BY <2>1, <3>1, <3>2
  <2>4. /\ pi' \in PiType
        /\ pi'.localFD = pi.localFD
        /\ pi'.pc \in {"ask", "copy"} => pi.pc = "ask"
        /\ pi'.pc # "ok"
    BY <1>0, <2>1, <2>3 DEF PiType
  <2>5. UNCHANGED <<status, esp>>
    BY <1>1 DEF send_cmd
  <2>6. ClientType'
    BY <2>2, <2>4, <2>5 DEF ClientType
  <2>7. Concluded' /\ Answered'
    BY <2>4, <2>5 DEF Concluded, Answered
  <2> QED
    BY <2>6, <2>7
<1>2. ASSUME Retry, UNCHANGED <<status, serial, esp>> PROVE ClientOK'
  <2>1. pi' \in PiType /\ pi'.pc \in {"connect", "fail"}
    <3>1. CASE pi.try < Attempts
      <4>1. pi' = [pi EXCEPT !.pc = "connect", !.try = @ + 1] /\ pi.try + 1 \in Nat
        BY <1>0, <1>2, <3>1 DEF Retry, PiType
      <4> QED
        BY <1>0, <4>1 DEF PiType
    <3>2. CASE ~ (pi.try < Attempts)
      <4>1. pi' = [pi EXCEPT !.pc = "fail"]
        BY <1>2, <3>2 DEF Retry, PiTo
      <4> QED
        BY <1>0, <4>1 DEF PiType
    <3> QED
      BY <3>1, <3>2
  <2>2. ClientType'
    BY <1>2, <2>1 DEF ClientType
  <2>3. Concluded' /\ Answered'
    BY <1>2, <2>1 DEF Concluded, Answered
  <2> QED
    BY <2>2, <2>3
<1>3. CASE Connected
  <2>1. \/ Retry
        \/ status = Id /\ status # NONE /\ pi' = [pi EXCEPT !.pc = "ask", !.localFD = Id]
    BY <1>3 DEF Connected, ClientType
  <2>2. UNCHANGED <<status, serial, esp>>
    BY <1>3 DEF Connected
  <2>3. ASSUME status # NONE, pi' = [pi EXCEPT !.pc = "ask", !.localFD = Id]
        PROVE  ClientOK'
    <3>1. pi' \in PiType /\ pi'.pc = "ask" /\ pi'.localFD = Id
      BY <1>0, <2>3 DEF PiType
    <3>2. ClientType'
      BY <2>2, <3>1 DEF ClientType
    <3>3. Concluded' /\ Answered'
      BY <2>2, <2>3, <3>1 DEF Concluded, Answered
    <3> QED
      BY <3>2, <3>3
  <2> QED
    BY <1>2, <2>1, <2>2, <2>3
<1>4. CASE PollsOver
  BY <1>2, <1>4 DEF PollsOver
<1>5. CASE CopyAndWait
  <2>1. status # NONE /\ pi.pc = "copy" /\ pi.localFD = Id
    BY <1>5 DEF CopyAndWait, Concluded
  <2>2. \/ pi' = [pi EXCEPT !.pc = "fail"]
        \/ status = Id /\ pi' = [pi EXCEPT !.pc = "ok", !.serverFD = Id]
    BY <1>5, <2>1 DEF CopyAndWait, PiTo, ClientType
  <2>3. UNCHANGED <<status, serial, esp>>
    BY <1>5 DEF CopyAndWait
  <2>4. /\ pi' \in PiType /\ pi'.localFD = Id /\ pi'.pc \in {"fail", "ok"}
        /\ pi'.pc = "ok" => pi'.serverFD = Id
    BY <1>0, <2>1, <2>2 DEF PiType
  <2>5. ClientType'
    BY <2>3, <2>4 DEF ClientType
  <2>6. Concluded' /\ Answered'
    BY <2>1, <2>3, <2>4 DEF Concluded, Answered
  <2> QED
    BY <2>5, <2>6
<1>6. CASE server_init \/ get_connected
  BY <1>0, <1>6 DEF server_init, get_connected, PiType
<1> QED
  BY <1>1, <1>3, <1>4, <1>5, <1>6 DEF PiStep

(* What is left of the line when two halves have been read.                 *)
LEMMA Rest ==
  ASSUME NEW S, NEW s \in Seq(S), Len(s) >= 2
  PROVE  s[1] \in S /\ SubSeq(s, 3, Len(s)) \in Seq(S)
OBVIOUS

(* The ESP's steps.                                                         *)
LEMMA EspKeeps ==
  ASSUME ClientOK, EspStep \/ PowerUp
  PROVE  ClientOK'
<1> USE DEF ClientOK
<1>0. esp \in EspType /\ serial \in Seq(HalfType)
  BY DEF ClientType
<1>1. ASSUME UNCHANGED <<pi, status>>, esp.pc # "reply", serial' \in Seq(HalfType),
             esp' \in EspType, esp'.tcp = esp.tcp, esp'.pc # "reply",
             esp'.pc = "run" => esp'.cmnd # "none"
      PROVE  ClientOK'
  <2>1. ClientType'
    BY <1>1 DEF ClientType
  <2>2. Concluded' /\ Answered'
    BY <1>1 DEF Concluded, Answered
  <2> QED
    BY <2>1, <2>2
<1>2. ASSUME Clean
      PROVE  /\ serial' \in Seq(HalfType) /\ esp' \in EspType
             /\ esp'.tcp = esp.tcp /\ esp'.pc = "loop"
  <2>1. serial' \in Seq(HalfType)
    BY <1>2, EmptyLine DEF Clean
  <2>2. esp' = [esp EXCEPT !.pc = "loop", !.cmnd = "none", !.pending = FALSE]
    BY <1>2 DEF Clean
  <2>3. esp' \in EspType /\ esp'.tcp = esp.tcp /\ esp'.pc = "loop"
    BY <1>0, <2>2 DEF EspType
  <2> QED
    BY <2>1, <2>3
<1>3. CASE Parse
  <2>1. /\ serial[1].cmd \in ClientCmds
        /\ SubSeq(serial, 3, Len(serial)) \in Seq(HalfType)
    <3>1. Len(serial) >= 2
      BY <1>3 DEF Parse
    <3>2. serial[1] \in HalfType /\ SubSeq(serial, 3, Len(serial)) \in Seq(HalfType)
      BY <1>0, <3>1, Rest
    <3> QED
      BY <3>2 DEF HalfType
  <2>2. /\ esp.pc = "loop" /\ UNCHANGED <<pi, status>>
        /\ \/ Clean
           \/ /\ serial' = SubSeq(serial, 3, Len(serial))
              /\ \/ esp' = [esp EXCEPT !.pc = "run", !.cmnd = serial[1].cmd]
                 \/ esp' = [esp EXCEPT !.pending = TRUE]
    BY <1>3 DEF Parse
  <2>3. ASSUME NEW c \in ClientCmds, esp' = [esp EXCEPT !.pc = "run", !.cmnd = c]
        PROVE  esp' \in EspType /\ esp'.tcp = esp.tcp /\ esp'.pc = "run" /\ esp'.cmnd = c
    BY <1>0, <2>3 DEF EspType
  <2>4. ASSUME esp' = [esp EXCEPT !.pending = TRUE]
        PROVE  esp' \in EspType /\ esp'.tcp = esp.tcp /\ esp'.pc = esp.pc
    BY <1>0, <2>4 DEF EspType
  <2>5. "none" \notin ClientCmds
    BY DEF ClientCmds
  <2> QED
    BY <1>1, <1>2, <2>1, <2>2, <2>3, <2>4, <2>5
<1>4. CASE runCmnd
  <2>1. CASE esp.cmnd = "0xf"
    BY <1>1, <1>2, <1>4, <2>1 DEF runCmnd
  <2>2. CASE esp.cmnd # "0xf"
    <3>1. esp.cmnd = "WIFI_CONNECT" /\ esp.pc = "run"
      BY <1>0, <1>4, <2>2 DEF runCmnd, Answered, EspType, ClientCmds
    <3>2. PICK o \in Outcomes : esp' = [esp EXCEPT !.pc = "reply", !.answer = o.answer,
                                                  !.serverIP = o.serverIP, !.tcp = o.tcp]
      BY <1>4, <2>2 DEF runCmnd
    <3>3. o \in {Outcome(ESP_FAIL, esp.serverIP, FALSE), Outcome(ESP_FAIL, ServerId, FALSE),
                 Outcome(Id, ServerId, TRUE)}
      BY <3>1, <3>2 DEF Outcomes
    <3>4. esp.serverIP \in {0, ServerId}
      BY <1>0 DEF EspType
    <3>5. /\ o.serverIP \in {0, ServerId} /\ o.tcp \in BOOLEAN
          /\ o.answer = ESP_FAIL \/ (o.answer = Id /\ o.tcp)
      <4>1. CASE o = Outcome(ESP_FAIL, esp.serverIP, FALSE)
        BY <3>4, <4>1 DEF Outcome
      <4>2. CASE o = Outcome(ESP_FAIL, ServerId, FALSE)
        BY <4>2 DEF Outcome
      <4>3. CASE o = Outcome(Id, ServerId, TRUE)
        BY <4>3 DEF Outcome
      <4> QED
        BY <3>3, <4>1, <4>2, <4>3
    <3>6. esp' \in EspType /\ esp'.pc = "reply" /\ esp'.cmnd = "WIFI_CONNECT"
      BY <1>0, <3>1, <3>2, <3>5 DEF EspType
    <3>7. esp'.answer = o.answer /\ esp'.tcp = o.tcp
      BY <1>0, <3>2 DEF EspType
    <3>8. UNCHANGED <<pi, status, serial>>
      BY <1>4, <2>2 DEF runCmnd
    <3>9. ClientType'
      BY <3>6, <3>8 DEF ClientType
    <3>10. Concluded'
      BY <3>8 DEF Concluded
    <3>11. Answered'
      BY <3>5, <3>6, <3>7, EspControlAssumption DEF Answered
    <3> QED
      BY <3>9, <3>10, <3>11
  <2> QED
    BY <2>1, <2>2
<1>5. CASE Reply
  <2>1. /\ status' = esp.answer /\ esp.answer # NONE
        /\ esp.answer = Id => esp.tcp
        /\ UNCHANGED pi /\ Clean
    BY <1>5 DEF Reply, Answered
  <2>2. status' \in {NONE, ESP_FAIL, Id}
    BY <1>0, <2>1 DEF EspType
  <2>3. ClientType'
    BY <1>2, <2>1, <2>2 DEF ClientType
  <2>4. Concluded'
    BY <2>1 DEF Concluded
  <2>5. Answered'
    BY <1>2, <2>1 DEF Answered
  <2> QED
    BY <2>3, <2>4, <2>5
<1>6. CASE PowerUp
  <2>1. esp' \in EspType /\ esp'.tcp = esp.tcp /\ esp'.pc = "loop" /\ esp.pc = "off"
    BY <1>0, <1>6 DEF PowerUp, EspType
  <2> QED
    BY <1>0, <1>1, <1>6, <2>1 DEF PowerUp
<1> QED
  BY <1>3, <1>4, <1>5, <1>6 DEF EspStep

LEMMA NextClient == ClientInv /\ [Next]_vars => ClientInv'
<1> SUFFICES ASSUME ClientInv, [Next]_vars PROVE ClientInv'
  OBVIOUS
<1>1. "role" \in DOMAIN pi' /\ pi'.role = pi.role
  BY RoleKept DEF ClientInv
<1>2. ASSUME pi.role = "client" PROVE ClientOK'
  <2>1. ClientOK
    BY <1>2 DEF ClientInv
  <2>2. CASE UNCHANGED vars
    BY <2>1, <2>2 DEF vars, ClientOK, ClientType, Concluded, Answered
  <2> QED
    BY <2>1, <2>2, PiKeeps, EspKeeps DEF Next
<1> QED
  BY <1>1, <1>2 DEF ClientInv

LEMMA AlwaysClient == Spec => []ClientInv
BY InitClient, NextClient, PTL DEF Spec

(* An initialised client knows its own number, and always takes it for the  *)
(* server's (client_init, get_status).                                      *)
THEOREM OwnNumber == Spec => []OwnNumberTwice
<1>1. ClientInv => OwnNumberTwice
  BY DEF ClientInv, ClientOK, Concluded, OwnNumberTwice
<1> QED
  BY <1>1, AlwaysClient, PTL

(* A connection lost to a repeated command shows in the status byte         *)
(* (client_wifi_cnct).                                                      *)
THEOREM LossIsShown == Spec => []LossShows
<1>1. ClientInv => LossShows
  BY DEF ClientInv, ClientOK, ClientType, Concluded, Answered, LossShows
<1> QED
  BY <1>1, AlwaysClient, PTL

(* client_init's wait on the copy never lacks a status.                     *)
THEOREM NoEndlessWait == Spec => [](pi.role = "client" => pi.pc # "spin")
<1>1. ClientInv => (pi.role = "client" => pi.pc # "spin")
  BY DEF ClientInv, ClientOK, ClientType, PiType
<1> QED
  BY <1>1, AlwaysClient, PTL

------------------------------------------------------------------------------
(* Both roles.                                                              *)
Cmds == {"WIFI_CONNECT", "0xf", "SERVER_INIT", "GET_CONNECTED_LIST"}

AnyHalf == [cmd : Cmds, part : {"head", "tail", "junk"}]

AnyPi == [role : {"client", "server"},
          pc : {"connect", "ask", "init", "list", "poll", "copy", "spin", "await",
                "list_await", "ok", "fail"},
          half : BOOLEAN, try : 1 .. Attempts,
          localFD : Statuses \cup {0}, serverFD : Statuses \cup {0}]

AnyEsp == [pc : {"off", "loop", "run", "reply"}, cmnd : {"none"} \cup Cmds,
           pending : BOOLEAN, answer : Statuses, serverIP : {0, ServerId}, tcp : BOOLEAN]

Typed ==
  /\ pi \in AnyPi /\ status \in Statuses /\ esp \in AnyEsp
  /\ serial \in Seq(AnyHalf) /\ Len(serial) <= Halves

(* A half that comes while the ESP talks is drained with the line when it   *)
(* has finished: no damaged one is ever parsed.                             *)
Undamaged == esp.pc # "reply" => \A i \in 1 .. Len(serial) : serial[i].part # "junk"

IsAsking(h) == h.cmd = "GET_CONNECTED_LIST" /\ h.part = "head"

(* Where the one question for the list of the connected clients is.         *)
Heads   == {i \in 1 .. Len(serial) : IsAsking(serial[i])}
Running == esp.pc \in {"run", "reply"} /\ esp.cmnd = "GET_CONNECTED_LIST"
Unasked == \/ pi.role = "client" \/ pi.pc \in {"init", "await"}
           \/ pi.pc = "list" /\ ~ pi.half

AskedOnce ==
  /\ lists \in {0, 1}
  /\ Unasked => Heads = {} /\ ~ Running /\ lists = 0
  /\ \A i, j \in Heads : i = j
  /\ Running => Heads = {} /\ lists = 0
  /\ Heads # {} => lists = 0

RolesInv == ClientInv /\ Typed /\ Undamaged /\ AskedOnce

LEMMA CmdFacts ==
  /\ DOMAIN Cmd = {"connect", "ask", "init", "list"} /\ \A c \in DOMAIN Cmd : Cmd[c] \in Cmds
  /\ {Cmd[c] : c \in DOMAIN Cmd} = Cmds
  /\ Cmd["connect"] = "WIFI_CONNECT" /\ Cmd["ask"] = "0xf" /\ Cmd["init"] = "SERVER_INIT"
  /\ Cmd["list"] = "GET_CONNECTED_LIST"
  /\ After["connect"] = "poll" /\ After["ask"] = "copy" /\ After["init"] = "await"
  /\ After["list"] = "list_await"
BY DEF Cmd, Cmds, After

LEMMA InitRoles == Init => RolesInv
<1> SUFFICES ASSUME Init PROVE RolesInv
  OBVIOUS
<1>1. 1 \in 1 .. Attempts /\ 0 <= Halves
  BY EspControlAssumption
<1>2. pi \in AnyPi /\ pi.pc \in {"connect", "init"} /\ ~ pi.half
  BY <1>1 DEF Init, AnyPi
<1>3. status \in Statuses /\ lists = 0 /\ serial = <<>>
  BY DEF Init, Statuses
<1>4. esp \in AnyEsp /\ esp.pc \in {"off", "loop"}
  BY DEF Init, AnyEsp, Statuses
<1>5. <<>> \in Seq(AnyHalf) /\ Len(<<>>) = 0 /\ 1 .. Len(<<>>) = {}
  OBVIOUS
<1>6. Typed /\ Undamaged
  BY <1>1, <1>2, <1>3, <1>4, <1>5 DEF Typed, Undamaged
<1>7. AskedOnce
  BY <1>3, <1>4, <1>5 DEF AskedOnce, Heads, Running
<1> QED
  BY <1>6, <1>7, InitClient DEF RolesInv

(* What a half that is sent adds to the line.                               *)
LEMMA SendRoles ==
  ASSUME RolesInv, send_cmd
  PROVE  RolesInv'
<1>1. /\ pi \in AnyPi /\ esp \in AnyEsp /\ serial \in Seq(AnyHalf) /\ Len(serial) <= Halves
      /\ status \in Statuses /\ Undamaged /\ AskedOnce /\ Len(serial) \in Nat
      /\ ClientInv
  BY DEF RolesInv, Typed
<1>2. pi.pc \in {"connect", "ask", "init", "list"} /\ UNCHANGED <<status, lists, esp>>
  BY CmdFacts DEF send_cmd
<1>3. PICK part \in {"head", "tail"} :
        /\ Transmit(part)
        /\ \/ part = "tail" /\ pi.half /\ pi' = [pi EXCEPT !.half = FALSE, !.pc = After[pi.pc]]
           \/ part = "head" /\ ~ pi.half /\ pi' = [pi EXCEPT !.half = TRUE]
  BY DEF send_cmd
<1>4. /\ pi' \in AnyPi /\ pi'.role = pi.role
      /\ \/ part = "tail" /\ pi.half /\ pi'.pc = After[pi.pc]
         \/ part = "head" /\ ~ pi.half /\ pi'.pc = pi.pc /\ pi'.half
  <2>1. After[pi.pc] \in {"poll", "copy", "await", "list_await"}
    BY <1>2, CmdFacts
  <2>2. CASE part = "tail" /\ pi.half /\ pi' = [pi EXCEPT !.half = FALSE, !.pc = After[pi.pc]]
    BY <1>1, <2>1, <2>2 DEF AnyPi
  <2>3. CASE part = "head" /\ ~ pi.half /\ pi' = [pi EXCEPT !.half = TRUE]
    BY <1>1, <2>3 DEF AnyPi
  <2> QED
    BY <1>3, <2>2, <2>3
<1> DEFINE h == [cmd |-> Cmd[pi.pc], part |-> IF esp.pc = "reply" THEN "junk" ELSE part]
<1>5. h \in AnyHalf /\ (IsAsking(h) => pi.pc = "list" /\ part = "head")
  BY <1>2, CmdFacts DEF AnyHalf, IsAsking
<1>6. h.part = "junk" => esp.pc = "reply"
  OBVIOUS
<1>7. \/ serial' = serial
      \/ Len(serial) # Halves /\ serial' = Append(serial, h)
  BY <1>3 DEF Transmit
<1> HIDE DEF h
<1>8. /\ serial' \in Seq(AnyHalf) /\ Len(serial') <= Halves
      /\ Undamaged'
      /\ Heads' = Heads \/ (IsAsking(h) /\ Heads' = Heads \cup {Len(serial) + 1})
  <2>1. CASE serial' = serial
    BY <1>1, <1>2, <2>1 DEF Undamaged, Heads
  <2>2. CASE Len(serial) # Halves /\ serial' = Append(serial, h)
    <3>1. /\ serial' \in Seq(AnyHalf) /\ Len(serial') = Len(serial) + 1
          /\ \A i \in 1 .. Len(serial) : serial'[i] = serial[i]
          /\ serial'[Len(serial) + 1] = h
      BY <1>1, <1>5, <2>2
    <3>2. Len(serial') <= Halves
      BY <1>1, <2>2, <3>1, EspControlAssumption
    <3>3. \A i : i \in 1 .. Len(serial') <=> i \in 1 .. Len(serial) \/ i = Len(serial) + 1
      BY <1>1, <3>1
    <3>4. Undamaged'
      BY <1>1, <1>2, <1>6, <3>1, <3>3 DEF Undamaged
    <3>5. Heads' = IF IsAsking(h) THEN Heads \cup {Len(serial) + 1} ELSE Heads
      BY <3>1, <3>3 DEF Heads
    <3> QED
      BY <3>1, <3>2, <3>4, <3>5
  <2> QED
    BY <1>7, <2>1, <2>2
<1>9. ClientInv'
  BY <1>1, NextClient DEF Next, PiStep
<1>10. pi.role = "client" => pi.pc # "list"
  BY <1>1 DEF ClientInv, ClientOK, ClientType, PiType
<1>11. IsAsking(h) => Unasked /\ ~ Unasked'
  BY <1>4, <1>5, <1>10 DEF Unasked
<1>12. Unasked' => Unasked
  BY <1>2, <1>4, CmdFacts DEF Unasked
<1>13. (Running' <=> Running) /\ lists' = lists
  BY <1>2 DEF Running
<1>14. AskedOnce'
  <2>1. CASE Heads' = Heads
    BY <1>1, <1>12, <1>13, <2>1 DEF AskedOnce
  <2>2. CASE IsAsking(h) /\ Heads' = Heads \cup {Len(serial) + 1}
    <3>1. Heads = {} /\ ~ Running /\ lists = 0
      BY <1>1, <1>11, <2>2 DEF AskedOnce
    <3> QED
      BY <1>11, <1>13, <2>2, <3>1 DEF AskedOnce
  <2> QED
    BY <1>8, <2>1, <2>2
<1> QED
  BY <1>1, <1>2, <1>4, <1>8, <1>9, <1>14 DEF RolesInv, Typed

(* The other steps of the Pi.                                               *)
LEMMA LookRoles ==
  ASSUME RolesInv,
         Connected \/ PollsOver \/ CopyAndWait \/ server_init \/ get_connected
  PROVE  RolesInv'
<1>1. pi \in AnyPi /\ status \in Statuses /\ Undamaged /\ AskedOnce /\ ClientInv /\ Typed
  BY DEF RolesInv, Typed
<1>2. UNCHANGED <<status, lists, serial, esp>>
  BY DEF Connected, PollsOver, CopyAndWait, server_init, get_connected
<1>3. pi' \in AnyPi /\ (Unasked' => Unasked)
  <2>1. ASSUME NEW c \in {"connect", "ask", "spin", "fail", "ok"}, pi'.pc = c, pi' \in AnyPi,
               pi'.role = pi.role
        PROVE  <1>3
    BY <2>1 DEF Unasked
  <2>2. ASSUME NEW c \in {"connect", "ask", "spin", "fail", "ok"}, PiTo(c)
        PROVE  <1>3
    BY <1>1, <2>2, <2>1 DEF PiTo, AnyPi
  <2>3. ASSUME Retry PROVE <1>3
    <3>1. CASE pi.try < Attempts
      <4>1. pi.try + 1 \in 1 .. Attempts
        BY <1>1, <3>1, EspControlAssumption DEF AnyPi
      <4>2. pi' = [pi EXCEPT !.pc = "connect", !.try = pi.try + 1]
        BY <2>3, <3>1 DEF Retry
      <4> QED
        BY <1>1, <2>1, <4>1, <4>2 DEF AnyPi
    <3>2. CASE ~ (pi.try < Attempts)
      BY <2>2, <2>3, <3>2 DEF Retry
    <3> QED
      BY <3>1, <3>2
  <2>4. CASE Connected
    <3>1. Retry \/ pi' = [pi EXCEPT !.pc = "ask", !.localFD = status]
      BY <2>4 DEF Connected
    <3>2. ASSUME pi' = [pi EXCEPT !.pc = "ask", !.localFD = status] PROVE <1>3
      BY <1>1, <2>1, <3>2 DEF AnyPi
    <3> QED
      BY <2>3, <3>1, <3>2
  <2>5. CASE PollsOver
    BY <2>3, <2>5 DEF PollsOver
  <2>6. CASE CopyAndWait
    <3>1. PiTo("spin") \/ PiTo("fail") \/ pi' = [pi EXCEPT !.pc = "ok", !.serverFD = status]
      BY <2>6 DEF CopyAndWait
    <3>2. ASSUME pi' = [pi EXCEPT !.pc = "ok", !.serverFD = status] PROVE <1>3
      BY <1>1, <2>1, <3>2 DEF AnyPi
    <3> QED
      BY <2>2, <3>1, <3>2
  <2>7. CASE server_init
    <3>1. \/ PiTo("fail")
          \/ pi' = [pi EXCEPT !.pc = "list", !.localFD = status, !.serverFD = status]
      BY <2>7 DEF server_init
    <3>2. ASSUME pi' = [pi EXCEPT !.pc = "list", !.localFD = status, !.serverFD = status]
          PROVE <1>3
      <4>1. Unasked
        BY <2>7 DEF server_init, Unasked
      <4>2. pi' \in AnyPi
        BY <1>1, <3>2 DEF AnyPi
      <4> QED
        BY <4>1, <4>2
    <3> QED
      BY <2>2, <3>1, <3>2
  <2>8. CASE get_connected
    BY <2>2, <2>8 DEF get_connected
  <2> QED
    BY <2>4, <2>5, <2>6, <2>7, <2>8
<1>4. Typed' /\ Undamaged'
  BY <1>1, <1>2, <1>3 DEF Typed, Undamaged
<1>5. AskedOnce'
  <2>1. Heads' = Heads /\ (Running' <=> Running) /\ lists' = lists
    BY <1>2 DEF Heads, Running
  <2> QED
    BY <1>1, <1>3, <2>1 DEF AskedOnce
<1>6. ClientInv'
  BY <1>1, NextClient DEF Next, PiStep
<1> QED
  BY <1>4, <1>5, <1>6 DEF RolesInv

(* The first two halves leave the line.                                     *)
LEMMA RestHeads ==
  ASSUME NEW s \in Seq(AnyHalf), Len(s) >= 2
  PROVE  LET t == SubSeq(s, 3, Len(s))
         IN  /\ t \in Seq(AnyHalf) /\ Len(t) = Len(s) - 2
             /\ \A i \in 1 .. Len(t) : t[i] = s[i + 2] /\ i + 2 \in 1 .. Len(s)
             /\ s[1] \in AnyHalf /\ 1 \in 1 .. Len(s)
<1> DEFINE t == SubSeq(s, 3, Len(s))
<1>1. Len(s) \in Nat /\ Len(s) - 2 \in Nat /\ (Len(s) = 2 \/ Len(s) >= 3)
  <2>1. \A n \in Nat : n >= 2 => n - 2 \in Nat /\ (n = 2 \/ n >= 3)
    OBVIOUS
  <2>2. Len(s) \in Nat
    OBVIOUS
  <2> QED
    BY <2>1, <2>2
<1>2. t \in Seq(AnyHalf) /\ s[1] \in AnyHalf
  BY Rest
<1>3. Len(t) = Len(s) - 2
  <2>1. CASE Len(s) = 2
    BY <2>1
  <2>2. CASE Len(s) >= 3
    BY <2>2
  <2> QED
    BY <1>1, <2>1, <2>2
<1>4. \A i \in 1 .. Len(s) - 2 : t[i] = s[i + 2]
  OBVIOUS
<1> HIDE DEF t
<1>5. 1 \in 1 .. Len(s) /\ \A i \in 1 .. Len(s) - 2 : i + 2 \in 1 .. Len(s)
  BY <1>1
<1> QED
  BY <1>2, <1>3, <1>4, <1>5 DEF t

(* Nothing is asked of what an ESP that has answered drains.                *)
LEMMA CleanRoles ==
  ASSUME RolesInv, Clean, pi' = pi, status' \in Statuses, lists' \in {0, 1},
         Unasked => lists' = 0, ClientInv'
  PROVE  RolesInv'
<1>1. pi \in AnyPi /\ esp \in AnyEsp /\ 0 <= Halves
  BY EspControlAssumption DEF RolesInv, Typed
<1>2. /\ esp' \in AnyEsp /\ esp'.pc = "loop"
      /\ serial' = <<>> /\ serial' \in Seq(AnyHalf) /\ Len(serial') = 0 /\ 1 .. Len(serial') = {}
  <2>1. <<>> \in Seq(AnyHalf) /\ Len(<<>>) = 0 /\ 1 .. Len(<<>>) = {}
    OBVIOUS
  <2>2. esp' = [esp EXCEPT !.pc = "loop", !.cmnd = "none", !.pending = FALSE]
    BY DEF Clean
  <2>3. esp' \in AnyEsp /\ esp'.pc = "loop"
    BY <1>1, <2>2 DEF AnyEsp
  <2> QED
    BY <2>1, <2>3 DEF Clean
<1>3. Typed' /\ Undamaged'
  BY <1>1, <1>2 DEF Typed, Undamaged
<1>4. Heads' = {} /\ ~ Running' /\ (Unasked' <=> Unasked)
  BY <1>2 DEF Heads, Running, Unasked
<1>5. AskedOnce'
  BY <1>4 DEF AskedOnce
<1> QED
  BY <1>3, <1>5 DEF RolesInv

LEMMA EspRoles ==
  ASSUME RolesInv, EspStep \/ PowerUp
  PROVE  RolesInv'
<1>1. /\ pi \in AnyPi /\ esp \in AnyEsp /\ serial \in Seq(AnyHalf) /\ Len(serial) <= Halves
      /\ status \in Statuses /\ Undamaged /\ AskedOnce /\ lists \in {0, 1}
      /\ Unasked => lists = 0
  BY DEF RolesInv, Typed, AskedOnce
<1>2. ClientInv'
  BY NextClient DEF RolesInv, Next
<1>3. pi' = pi
  BY DEF EspStep, PowerUp, Parse, runCmnd, Reply
<1>4. ASSUME Clean, UNCHANGED <<status, lists>> PROVE RolesInv'
  BY <1>1, <1>2, <1>3, <1>4, CleanRoles
<1>5. CASE Parse
  <2> DEFINE h == serial[1]
             t == SubSeq(serial, 3, Len(serial))
  <2>1. esp.pc = "loop" /\ Len(serial) >= 2 /\ UNCHANGED <<pi, status, lists>>
    BY <1>5 DEF Parse
  <2>2. /\ t \in Seq(AnyHalf) /\ Len(t) = Len(serial) - 2
        /\ \A i \in 1 .. Len(t) : t[i] = serial[i + 2] /\ i + 2 \in 1 .. Len(serial)
        /\ h \in AnyHalf /\ 1 \in 1 .. Len(serial)
    BY <1>1, <2>1, RestHeads
  <2>3. h.part # "junk" /\ h.part \in {"head", "tail", "junk"} /\ h.cmd \in Cmds
    BY <1>1, <2>1, <2>2 DEF Undamaged, AnyHalf
  <2>4. \/ Clean
        \/ /\ h.part = "head" /\ serial' = t
           /\ esp' = [esp EXCEPT !.pc = "run", !.cmnd = h.cmd]
    BY <1>5, <2>3 DEF Parse
  <2> HIDE DEF t
  <2>5. ASSUME h.part = "head", serial' = t, esp' = [esp EXCEPT !.pc = "run", !.cmnd = h.cmd]
        PROVE  RolesInv'
    <3>1. esp' \in AnyEsp /\ esp'.pc = "run" /\ esp'.cmnd = h.cmd
      BY <1>1, <2>3, <2>5 DEF AnyEsp
    <3>2. Len(serial') <= Halves
      BY <1>1, <2>1, <2>2, <2>5, EspControlAssumption
    <3>3. Typed' /\ Undamaged'
      BY <1>1, <2>1, <2>2, <2>5, <3>1, <3>2 DEF Typed, Undamaged
    <3>4. \A i \in Heads' : i + 2 \in Heads /\ i + 2 # 1 /\ i \in Int
      BY <2>2, <2>5 DEF Heads
    <3>5. Running' => 1 \in Heads
      BY <2>2, <2>5, <3>1 DEF Running, Heads, IsAsking
    <3>6. (Unasked' <=> Unasked) /\ lists' = lists
      BY <2>1 DEF Unasked
    <3>7. ~ Running
      BY <2>1 DEF Running
    <3>8. \A i, j \in Heads' : i = j
      <4> SUFFICES ASSUME NEW i \in Heads', NEW j \in Heads' PROVE i = j
        OBVIOUS
      <4>1. i + 2 = j + 2
        BY <1>1, <3>4 DEF AskedOnce
      <4> QED
        BY <3>4, <4>1
    <3>9. Running' => Heads' = {}
      BY <1>1, <3>4, <3>5 DEF AskedOnce
    <3>10. Heads' # {} \/ Running' => Heads # {}
      BY <3>4, <3>5
    <3>11. AskedOnce'
      BY <1>1, <3>6, <3>8, <3>9, <3>10 DEF AskedOnce
    <3> QED
      BY <1>2, <3>3, <3>11 DEF RolesInv
  <2> QED
    BY <1>4, <2>1, <2>4, <2>5
<1>6. CASE runCmnd
  <2>1. CASE esp.cmnd = "0xf"
    BY <1>4, <1>6, <2>1 DEF runCmnd
  <2>2. CASE esp.cmnd # "0xf"
    <3>1. /\ esp.pc = "run" /\ UNCHANGED <<pi, status, lists, serial>>
          /\ \E o \in Outcomes :
               esp' = [esp EXCEPT !.pc = "reply", !.answer = o.answer,
                                  !.serverIP = o.serverIP, !.tcp = o.tcp]
      BY <1>6, <2>2 DEF runCmnd
    <3>2. PICK o \in Outcomes :
               esp' = [esp EXCEPT !.pc = "reply", !.answer = o.answer,
                                  !.serverIP = o.serverIP, !.tcp = o.tcp]
      BY <3>1
    <3>3. o.answer \in Statuses /\ o.serverIP \in {0, ServerId} /\ o.tcp \in BOOLEAN
      <4>1. /\ esp.serverIP \in {0, ServerId} /\ esp.tcp \in BOOLEAN
            /\ esp.cmnd \in {"none"} \cup Cmds
        BY <1>1 DEF AnyEsp
      <4>2. esp.cmnd # "GET_SERV_IP"
        BY <4>1 DEF Cmds
      <4>3. \/ o = Outcome(ESP_FAIL, esp.serverIP, FALSE) \/ o = Outcome(ESP_FAIL, ServerId, FALSE)
            \/ o = Outcome(Id, ServerId, TRUE) \/ o = Outcome(ServerId, esp.serverIP, esp.tcp)
        BY <3>2, <4>2 DEF Outcomes
      <4>4. ESP_FAIL \in Statuses /\ Id \in Statuses /\ ServerId \in Statuses
        BY DEF Statuses
      <4>5. ASSUME NEW a \in Statuses, NEW v \in {0, ServerId}, NEW b \in BOOLEAN,
                   o = Outcome(a, v, b)
            PROVE  <3>3
        BY <4>5 DEF Outcome
      <4>6. FALSE \in BOOLEAN /\ TRUE \in BOOLEAN /\ ServerId \in {0, ServerId}
        OBVIOUS
      <4> QED
        BY <4>1, <4>3, <4>4, <4>5, <4>6
    <3>4. esp' \in AnyEsp /\ esp'.pc = "reply" /\ esp'.cmnd = esp.cmnd
      BY <1>1, <3>2, <3>3 DEF AnyEsp
    <3>5. Typed' /\ Undamaged'
      BY <1>1, <3>1, <3>4 DEF Typed, Undamaged
    <3>6. (Running' <=> Running) /\ Heads' = Heads /\ (Unasked' <=> Unasked) /\ lists' = lists
      BY <3>1, <3>4 DEF Running, Heads, Unasked
    <3>7. AskedOnce'
      BY <1>1, <3>6 DEF AskedOnce
    <3> QED
      BY <1>2, <3>5, <3>7 DEF RolesInv
  <2> QED
    BY <2>1, <2>2
<1>7. CASE Reply
  <2>1. Clean /\ esp.pc = "reply"
    BY <1>7 DEF Reply
  <2>2. CASE esp.cmnd = "GET_CONNECTED_LIST"
    <3>1. lists' = lists + 1 /\ status' = status /\ Running
      BY <1>7, <2>1, <2>2 DEF Reply, Running
    <3>2. lists = 0 /\ ~ Unasked
      BY <1>1, <3>1 DEF AskedOnce
    <3>3. lists' \in {0, 1} /\ status' \in Statuses
      BY <1>1, <3>1, <3>2
    <3> QED
      BY <1>2, <1>3, <2>1, <3>2, <3>3, CleanRoles
  <2>3. CASE esp.cmnd # "GET_CONNECTED_LIST"
    <3>1. status' = esp.answer /\ lists' = lists
      BY <1>7, <2>3 DEF Reply
    <3>2. status' \in Statuses
      BY <1>1, <3>1 DEF AnyEsp
    <3> QED
      BY <1>1, <1>2, <1>3, <2>1, <3>1, <3>2, CleanRoles
  <2> QED
    BY <2>2, <2>3
<1>8. CASE PowerUp
  <2>1. UNCHANGED <<pi, status, lists, serial>> /\ esp.pc = "off" /\ esp' = [esp EXCEPT !.pc = "loop"]
    BY <1>8 DEF PowerUp
  <2>2. esp' \in AnyEsp /\ esp'.pc = "loop"
    BY <1>1, <2>1 DEF AnyEsp
  <2>3. Typed' /\ Undamaged'
    BY <1>1, <2>1, <2>2 DEF Typed, Undamaged
  <2>4. ~ Running' /\ Heads' = Heads /\ (Unasked' <=> Unasked) /\ lists' = lists
    BY <2>1, <2>2 DEF Running, Heads, Unasked
  <2>5. AskedOnce'
    BY <1>1, <2>4 DEF AskedOnce
  <2> QED
    BY <1>2, <2>3, <2>5 DEF RolesInv
<1> QED
  BY <1>5, <1>6, <1>7, <1>8 DEF EspStep

LEMMA NextRoles == RolesInv /\ [Next]_vars => RolesInv'
<1> SUFFICES ASSUME RolesInv, [Next]_vars PROVE RolesInv'
  OBVIOUS
<1>1. CASE UNCHANGED vars
  <2>1. UNCHANGED <<pi, status, lists, serial, esp>>
    BY <1>1 DEF vars
  <2>2. ClientInv'
    BY <1>1, NextClient DEF RolesInv
  <2>3. Typed' /\ Undamaged' /\ AskedOnce'
    BY <2>1 DEF RolesInv, Typed, Undamaged, AskedOnce, Heads, Running, Unasked
  <2> QED
    BY <2>2, <2>3 DEF RolesInv
<1>2. CASE PiStep
  BY <1>2, SendRoles, LookRoles DEF PiStep
<1>3. CASE EspStep \/ PowerUp
  BY <1>3, EspRoles
<1> QED
  BY <1>1, <1>2, <1>3 DEF Next

LEMMA AlwaysRoles == Spec => []RolesInv
BY InitRoles, NextRoles, PTL DEF Spec

(* The types, for both roles (FAIL is 0 in the code, and so are the numbers *)
(* a program begins with).  What is not a matter of types in it: a server's *)
(* question for the list of the connected is answered at most once, and the *)
(* line to the ESP never holds more than its buffer.                        *)
THEOREM ControlTyped ==
  ASSUME ESP_FAIL = 0
  PROVE  Spec => []TypeOK
<1>1. RolesInv => TypeOK
  <2>1. 0 \in Statuses
    BY DEF Statuses
  <2>2. Statuses \cup {0} = Statuses
    BY <2>1
  <2> QED
    BY <2>2, CmdFacts DEF RolesInv, Typed, AskedOnce, TypeOK, AnyPi, AnyEsp
<1> QED
  BY <1>1, AlwaysRoles, PTL

(* No half that was damaged because it came while the ESP was talking is    *)
(* ever parsed: the ESP drains its line when it has finished (Clean).       *)
THEOREM DamageDrained == Spec => []Undamaged
<1>1. RolesInv => Undamaged
  BY DEF RolesInv
<1> QED
  BY <1>1, AlwaysRoles, PTL
=============================================================================
