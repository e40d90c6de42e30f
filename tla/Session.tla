------------------------------ MODULE Session ------------------------------
(***************************************************************************)
(* The session with the platform: the tasks of the tcp, data, register,     *)
(* heartbeat and update services that share device_state, the queues        *)
(* between them, their timers, and a platform that may be slow, silent or   *)
(* gone.  A step of a task ends where another task can see or change what   *)
(* it uses: device_state, a queue, heartbeat_counter.                      *)
(*                                                                         *)
(* Packets are reduced to what is looked at: a login with its sequence      *)
(* number, a heartbeat, their acknowledgements.  Message buffers do not run *)
(* out here; queues overflow as they do in MsgDeal.                        *)
(***************************************************************************)
EXTENDS Integers, Sequences, SequencesExt

CONSTANTS RegCap, AckCap, TcpCap, HbCap, DataCap, \* sizes of the OS_Qs
          WireCap,      \* packets the platform has not looked at
          MaxLosses     \* faults of the network, late answers, commands

ASSUME SessionAssumption ==
  /\ {RegCap, AckCap, TcpCap, HbCap, DataCap, WireCap} \subseteq Nat \ {0}
  /\ MaxLosses \in Nat

VARIABLES dev,      \* device_state
          tpc, conn, tcpq,         \* tcp service, tcpconn, its queue
          wire,     \* packets sent on the connection and not yet answered
          dpc, dataq,              \* data service, its queue
          rpc, tries, mySeq, regq, ackq, tmr, \* register service, register_tmr
          hpc, tmp, counter, hbq, hbtmr,      \* heartbeat service, heartbeat_tmr
          upd,      \* MSG_ID_UPGRADE_INDs not finished with by the update service
          daInit,   \* DA_Init_flag
          accepted, \* the platform answered login mySeq (history)
          losses    \* bound on what happens from outside

netVars == <<conn, wire, losses>>
tcpVars == <<tpc, conn, wire>>
regVars == <<rpc, tries, mySeq>>
hbVars  == <<hpc, tmp, hbtmr>>
vars == <<dev, tpc, conn, tcpq, wire, dpc, dataq, rpc, tries, mySeq, regq, ackq, tmr,
          hpc, tmp, counter, hbq, hbtmr, upd, daInit, accepted, losses>>

Login(n)  == [kind |-> "LOGIN", sn |-> n]
LogAck(n) == [kind |-> "LOGIN_ACK", sn |-> n]
Heart     == [kind |-> "HEART", sn |-> 0]
HeartAck  == [kind |-> "HEART_ACK", sn |-> 0]
Logout(n) == [kind |-> "LOGOUT", sn |-> n]
Upgrade   == [kind |-> "UPGRADE", sn |-> 0]
LocalUpgrade == [kind |-> "LOCAL", sn |-> 0]    \* the same over UDP or the serial line
Other     == [kind |-> "OTHER", sn |-> 0]       \* answers to the platform
Reset     == [kind |-> "RESET", sn |-> 0]       \* MSG_ID_UPGRADE_RESET
CloseReq  == [kind |-> "CLOSE", sn |-> 0]       \* MSG_ID_TCP_CLOSE

\* seq_ID counts to 65536: a number comes back long after the packets that had
\* it are gone.  Here a number is free when no packet has it.
Sns     == 0 .. TcpCap + WireCap + DataCap + AckCap + 1
Packets == {Heart, Other} \cup {Login(n) : n \in Sns} \cup {Logout(n) : n \in Sns}
Orders  == {Reset, CloseReq}

TypeOK ==
  /\ dev \in {"NOT_RDY", "STAND_BY", "WORK", "UPGRADE"}
  /\ tpc \in {"connect", "standby", "login", "loop", "last"}
  /\ conn \in {"none", "up", "down"} /\ (conn = "none" <=> tpc \in {"connect", "last"})
  /\ tcpq \in BoundedSeq(Packets \cup Orders, TcpCap)
  /\ wire \in BoundedSeq(Packets, WireCap) /\ (conn # "up" => wire = <<>>)
  /\ dpc \in {"idle", "erase"}
  /\ dataq \in BoundedSeq({HeartAck, Upgrade, LocalUpgrade} \cup {LogAck(n) : n \in Sns}, DataCap)
  /\ rpc \in {"idle", "send", "wait", "work", "start", "fail", "reset"}
  /\ tries \in 0 .. 3 /\ mySeq \in Sns /\ accepted \in BOOLEAN
  /\ regq \in BoundedSeq({"LOG_IN", "LOG_OUT"}, RegCap)
  /\ ackq \in BoundedSeq(Sns, AckCap)
  /\ tmr \in BOOLEAN /\ hbtmr \in BOOLEAN /\ upd \in 0 .. MaxLosses /\ daInit \in BOOLEAN
  /\ hpc \in {"idle", "load", "store", "test", "standby", "login"}
  /\ tmp \in 0 .. 3 /\ counter \in 0 .. 3
  /\ hbq \in BoundedSeq({"START", "TIMEOUT"}, HbCap)
  /\ losses \in 0 .. MaxLosses

Init ==
  /\ dev = "NOT_RDY" /\ tpc = "connect" /\ conn = "none" /\ tcpq = <<>> /\ wire = <<>>
  /\ dpc = "idle" /\ dataq = <<>>
  /\ rpc = "idle" /\ tries = 0 /\ mySeq = 0 /\ regq = <<>> /\ ackq = <<>> /\ tmr = FALSE
  /\ hpc = "idle" /\ tmp = 0 /\ counter = 0 /\ hbq = <<>> /\ hbtmr = FALSE
  /\ upd = 0 /\ daInit = FALSE /\ accepted = FALSE /\ losses = 0

\* MsgDeal_Send, whose failure every caller only logs
Sent(q, cap, m) == IF Len(q) < cap THEN Append(q, m) ELSE q

Lose == losses < MaxLosses /\ losses' = losses + 1

-----------------------------------------------------------------------------
(* tcp service                                                             *)

ConnectFails ==
  /\ tpc = "connect" /\ Lose
  /\ dev' = "NOT_RDY"
  /\ UNCHANGED <<tcpVars, tcpq, dpc, dataq, regVars, regq, ackq, tmr, hbVars, counter, hbq,
                 upd, daInit, accepted>>

Connect ==
  /\ tpc = "connect"
  /\ tpc' = "standby" /\ conn' = "up"
  /\ UNCHANGED <<dev, wire, losses, tcpq, dpc, dataq, regVars, regq, ackq, tmr, hbVars,
                 counter, hbq, upd, daInit, accepted>>

NotifyStandBy ==
  /\ tpc = "standby"
  /\ tpc' = "login" /\ dev' = "STAND_BY"
  /\ UNCHANGED <<netVars, tcpq, dpc, dataq, regVars, regq, ackq, tmr, hbVars, counter, hbq,
                 upd, daInit, accepted>>

NotifyLogIn ==
  /\ tpc = "login"
  /\ tpc' = "loop" /\ regq' = Sent(regq, RegCap, "LOG_IN")
  /\ UNCHANGED <<dev, netVars, tcpq, dpc, dataq, regVars, ackq, tmr, hbVars, counter, hbq,
                 upd, daInit, accepted>>

\* close_tcp_conn
Close == conn' = "none" /\ wire' = <<>> /\ dev' = "NOT_RDY"

\* netconn_recv reports the end of the connection; one more message is
\* waited for and written to a connection that is gone.
RecvError ==
  /\ tpc = "loop" /\ conn = "down"
  /\ Close /\ tpc' = "last"
  /\ UNCHANGED <<losses, tcpq, dpc, dataq, regVars, regq, ackq, tmr, hbVars, counter, hbq,
                 upd, daInit, accepted>>

LastMessage ==
  /\ tpc = "last"
  /\ tpc' = "connect"
  /\ \/ tcpq = <<>> /\ UNCHANGED <<dev, tcpq>>
     \/ tcpq # <<>> /\ Head(tcpq) # Reset /\ tcpq' = Tail(tcpq) /\ dev' = "NOT_RDY"
  /\ UNCHANGED <<netVars, dpc, dataq, regVars, regq, ackq, tmr, hbVars, counter, hbq,
                 upd, daInit, accepted>>

Write ==
  /\ tpc = "loop" /\ conn = "up" /\ Len(wire) < WireCap
  /\ tcpq # <<>> /\ Head(tcpq) \notin Orders
  /\ tcpq' = Tail(tcpq) /\ wire' = Append(wire, Head(tcpq))
  /\ UNCHANGED <<dev, tpc, conn, losses, dpc, dataq, regVars, regq, ackq, tmr, hbVars,
                 counter, hbq, upd, daInit, accepted>>

WriteError ==
  /\ tpc = "loop" /\ conn = "down"
  /\ tcpq # <<>> /\ Head(tcpq) \notin Orders
  /\ tcpq' = Tail(tcpq) /\ Close /\ tpc' = "connect"
  /\ UNCHANGED <<losses, dpc, dataq, regVars, regq, ackq, tmr, hbVars, counter, hbq,
                 upd, daInit, accepted>>

CloseRequested ==
  /\ tpc = "loop" /\ tcpq # <<>> /\ Head(tcpq) = CloseReq
  /\ tcpq' = Tail(tcpq) /\ Close /\ tpc' = "connect"
  /\ UNCHANGED <<losses, dpc, dataq, regVars, regq, ackq, tmr, hbVars, counter, hbq,
                 upd, daInit, accepted>>

\* MSG_ID_UPGRADE_RESET: the processor starts again; the history goes on.
SystemReset ==
  /\ tpc \in {"loop", "last"} /\ tcpq # <<>> /\ Head(tcpq) = Reset
  /\ dev' = "NOT_RDY" /\ tpc' = "connect" /\ conn' = "none" /\ tcpq' = <<>> /\ wire' = <<>>
  /\ dpc' = "idle" /\ dataq' = <<>>
  /\ rpc' = "idle" /\ tries' = 0 /\ mySeq' = 0 /\ regq' = <<>> /\ ackq' = <<>> /\ tmr' = FALSE
  /\ hpc' = "idle" /\ tmp' = 0 /\ counter' = 0 /\ hbq' = <<>> /\ hbtmr' = FALSE
  /\ upd' = 0 /\ daInit' = FALSE /\ accepted' = FALSE
  /\ UNCHANGED losses

\* tcp_stream_handler: the packet goes to the update service during an
\* upgrade and to the data service otherwise.
Receive(reply) ==
  dataq' = IF dev = "UPGRADE" THEN dataq ELSE Sent(dataq, DataCap, reply)

PlatformAnswers ==
  /\ tpc = "loop" /\ wire # <<>>
  /\ wire' = Tail(wire)
  /\ CASE Head(wire) = Heart -> Receive(HeartAck)
       [] Head(wire) = Other -> UNCHANGED dataq
       [] OTHER              -> Receive(LogAck(Head(wire).sn))
  /\ accepted' = (accepted \/ Head(wire) = Login(mySeq))
  /\ UNCHANGED <<dev, tpc, conn, losses, tcpq, dpc, regVars, regq, ackq, tmr, hbVars,
                 counter, hbq, upd, daInit>>

PlatformSilent ==
  /\ wire # <<>> /\ Lose
  /\ wire' = Tail(wire)
  /\ UNCHANGED <<dev, tpc, conn, tcpq, dpc, dataq, regVars, regq, ackq, tmr, hbVars,
                 counter, hbq, upd, daInit, accepted>>

PlatformUpgrades ==
  /\ tpc = "loop" /\ conn = "up" /\ Lose
  /\ Receive(Upgrade)
  /\ UNCHANGED <<dev, tcpVars, tcpq, dpc, regVars, regq, ackq, tmr, hbVars, counter, hbq,
                 upd, daInit, accepted>>

\* udp_recive, and the serial line: to the data service in every state
LocalUpgrades ==
  /\ Lose
  /\ dataq' = Sent(dataq, DataCap, LocalUpgrade)
  /\ UNCHANGED <<dev, tcpVars, tcpq, dpc, regVars, regq, ackq, tmr, hbVars, counter, hbq,
                 upd, daInit, accepted>>

ConnectionLost ==
  /\ conn = "up" /\ Lose
  /\ conn' = "down" /\ wire' = <<>>
  /\ UNCHANGED <<dev, tpc, tcpq, dpc, dataq, regVars, regq, ackq, tmr, hbVars, counter, hbq,
                 upd, daInit, accepted>>

-----------------------------------------------------------------------------
(* data service: MsgHandle                                                 *)

DataRest == UNCHANGED <<tcpVars, regVars, regq, tmr, hbVars, hbq, daInit, accepted>>

LogInAck ==
  /\ dpc = "idle" /\ dataq # <<>> /\ Head(dataq).kind = "LOGIN_ACK"
  /\ dataq' = Tail(dataq)
  /\ ackq' = Sent(ackq, AckCap, Head(dataq).sn)
  /\ UNCHANGED <<dev, tcpq, dpc, counter, upd, losses>> /\ DataRest

HeartbeatAck ==
  /\ dpc = "idle" /\ dataq # <<>> /\ Head(dataq) = HeartAck
  /\ dataq' = Tail(dataq) /\ counter' = 0
  /\ UNCHANGED <<dev, tcpq, dpc, ackq, upd, losses>> /\ DataRest

\* The platform's requests are served in DEVICE_STATE_WORK only, local ones in
\* every state; sFlash_Erase takes seconds, and dev is not read again after it.
UpgradeRequest ==
  /\ dpc = "idle" /\ dataq # <<>> /\ Head(dataq) \in {Upgrade, LocalUpgrade}
  /\ dataq' = Tail(dataq)
  /\ CASE Head(dataq) = LocalUpgrade -> dpc' = "erase" /\ UNCHANGED tcpq
       [] dev = "WORK"  -> dpc' = "erase" /\ tcpq' = Sent(tcpq, TcpCap, Other)
       [] OTHER         -> UNCHANGED <<dpc, tcpq>>
  /\ UNCHANGED <<dev, counter, ackq, upd, losses>> /\ DataRest

\* MSG_ID_UPGRADE_IND: that it could not be sent is only logged.
Erased ==
  /\ dpc = "erase"
  /\ dpc' = "idle" /\ dev' = "UPGRADE"
  /\ \/ upd' = upd + 1 /\ UNCHANGED losses
     \/ Lose /\ UNCHANGED upd
  /\ UNCHANGED <<tcpq, dataq, counter, ackq>> /\ DataRest

EraseFails ==
  /\ dpc = "erase"
  /\ dpc' = "idle"
  /\ UNCHANGED <<dev, tcpq, dataq, counter, ackq, upd, losses>> /\ DataRest

-----------------------------------------------------------------------------
(* register service and register_tmr                                       *)

RegRest == UNCHANGED <<netVars, tpc, dpc, dataq, hbVars, counter, upd, daInit>>

\* get_seqID
Carried(q) == {p.sn : p \in ToSet(q)}
NewSeq == Min(Sns \ (Carried(tcpq) \cup Carried(wire) \cup Carried(dataq)
                      \cup ToSet(ackq) \cup {mySeq}))

\* my_seq_id is not looked at again before it is set.
Forget == mySeq' = 0 /\ accepted' = FALSE

\* msg_id_dev_login_ind, up to the check of DA_Init_flag
LogInInd ==
  /\ rpc = "idle" /\ regq # <<>> /\ Head(regq) = "LOG_IN"
  /\ regq' = Tail(regq) /\ ackq' = <<>>
  /\ rpc' = IF daInit THEN "send" ELSE "fail"
  /\ UNCHANGED <<dev, tcpq, tries, mySeq, tmr, hbq, accepted>> /\ RegRest

SendLogIn ==
  /\ rpc = "send"
  /\ mySeq' = NewSeq
  /\ accepted' = FALSE
  /\ tcpq' = Sent(tcpq, TcpCap, Login(mySeq'))
  /\ rpc' = "wait" /\ tries' = 3
  /\ UNCHANGED <<dev, regq, ackq, tmr, hbq>> /\ RegRest

\* Fault: waits once more.
NextTryLate == tries' = tries - 1 /\ rpc' = IF tries = 0 THEN "fail" ELSE "wait"

NextTry == tries' = tries - 1 /\ rpc' = IF tries = 1 THEN "fail" ELSE "wait"

\* Fault: any acknowledgement of a login will do.
AckUnchecked ==
  /\ rpc = "wait" /\ ackq # <<>>
  /\ ackq' = Tail(ackq)
  /\ rpc' = "work" /\ tries' = 0
  /\ UNCHANGED <<dev, tcpq, mySeq, regq, tmr, hbq, accepted>> /\ RegRest

\* MsgAckHandle
Ack ==
  /\ rpc = "wait" /\ ackq # <<>>
  /\ ackq' = Tail(ackq)
  /\ IF Head(ackq) = mySeq THEN rpc' = "work" /\ tries' = 0 ELSE NextTry
  /\ UNCHANGED <<dev, tcpq, mySeq, regq, tmr, hbq, accepted>> /\ RegRest

\* The answer to the login that is waited for may still come.
AckUnderWay ==
  \/ Contains(tcpq, Login(mySeq)) \/ Contains(wire, Login(mySeq))
  \/ Contains(dataq, LogAck(mySeq))

\* Fault: waits without a timeout.
AckWaitedFor == rpc = "wait" /\ ackq = <<>> /\ UNCHANGED vars

\* No answer within a second: there will be none, or it is late.
AckTimeout ==
  /\ rpc = "wait" /\ ackq = <<>>
  /\ NextTry
  /\ IF AckUnderWay THEN Lose ELSE UNCHANGED losses
  /\ UNCHANGED <<dev, tpc, conn, wire, tcpq, dpc, dataq, mySeq, regq, ackq, tmr, hbVars,
                 counter, hbq, upd, daInit, accepted>>

\* Fault: gives up after three tries.
LogInGivenUp ==
  /\ rpc = "fail"
  /\ rpc' = "idle" /\ Forget
  /\ UNCHANGED <<dev, tcpq, tries, regq, ackq, tmr, hbq>> /\ RegRest

LogInFailed ==
  /\ rpc = "fail"
  /\ rpc' = "idle" /\ tmr' = TRUE /\ Forget
  /\ UNCHANGED <<dev, tcpq, tries, regq, ackq, hbq>> /\ RegRest

LogInDone ==
  /\ rpc = "work"
  /\ rpc' = "start" /\ dev' = "WORK" /\ Forget
  /\ UNCHANGED <<tcpq, tries, regq, ackq, tmr, hbq>> /\ RegRest

StartHeartbeat ==
  /\ rpc = "start"
  /\ rpc' = "idle" /\ hbq' = Sent(hbq, HbCap, "START")
  /\ UNCHANGED <<dev, tcpq, tries, mySeq, regq, ackq, tmr, accepted>> /\ RegRest

LogOutInd ==
  /\ rpc = "idle" /\ regq # <<>> /\ Head(regq) = "LOG_OUT"
  /\ regq' = Tail(regq)
  /\ tcpq' = Sent(tcpq, TcpCap, Logout(NewSeq))
  /\ rpc' = "reset"
  /\ UNCHANGED <<dev, tries, mySeq, ackq, tmr, hbq, accepted>> /\ RegRest

SendReset ==
  /\ rpc = "reset"
  /\ rpc' = "idle" /\ tcpq' = Sent(tcpq, TcpCap, Reset)
  /\ UNCHANGED <<dev, tries, mySeq, regq, ackq, tmr, hbq, accepted>> /\ RegRest

\* "reboot" of the shell
RebootCommand ==
  /\ Lose
  /\ regq' = Sent(regq, RegCap, "LOG_OUT")
  /\ UNCHANGED <<dev, tcpVars, tcpq, dpc, dataq, regVars, ackq, tmr, hbVars, counter, hbq,
                 upd, daInit, accepted>>

RegisterTmr ==
  /\ tmr
  /\ tmr' = FALSE /\ regq' = Sent(regq, RegCap, "LOG_IN")
  /\ UNCHANGED <<dev, tcpq, regVars, ackq, hbq, accepted>> /\ RegRest

-----------------------------------------------------------------------------
(* heartbeat service and heartbeat_tmr                                     *)

HbRest == UNCHANGED <<tpc, conn, wire, dpc, dataq, regVars, ackq, tmr, upd, daInit, accepted>>

HeartUnderWay == \/ hbq # <<>> \/ hpc # "idle" \/ Contains(tcpq, Heart)
                 \/ Contains(wire, Heart) \/ Contains(dataq, HeartAck)

\* report_interval is 30 s: the answer to the last heartbeat is there, or late.
HeartbeatTmr ==
  /\ hbtmr
  /\ hbq' = Sent(hbq, HbCap, "TIMEOUT")
  /\ IF HeartUnderWay THEN Lose ELSE UNCHANGED losses
  /\ UNCHANGED <<dev, tcpq, regq, hbVars, counter>> /\ HbRest

\* Fault: the timer is not started.
StartNoTmr ==
  /\ hpc = "idle" /\ hbq # <<>> /\ Head(hbq) = "START"
  /\ hbq' = Tail(hbq)
  /\ counter' = 0
  /\ UNCHANGED <<dev, tcpq, regq, hpc, tmp, hbtmr, losses>> /\ HbRest

Start ==
  /\ hpc = "idle" /\ hbq # <<>> /\ Head(hbq) = "START"
  /\ hbq' = Tail(hbq)
  /\ counter' = 0 /\ hbtmr' = TRUE
  /\ UNCHANGED <<dev, tcpq, regq, hpc, tmp, losses>> /\ HbRest

Beat ==
  /\ hpc = "idle" /\ hbq # <<>> /\ Head(hbq) = "TIMEOUT"
  /\ hbq' = Tail(hbq)
  /\ IF dev = "WORK"
     THEN /\ tcpq' = IF daInit THEN Sent(tcpq, TcpCap, Heart) ELSE tcpq
          /\ hpc' = "load"
     ELSE UNCHANGED <<tcpq, hpc>>
  /\ UNCHANGED <<dev, regq, tmp, counter, hbtmr, losses>> /\ HbRest

\* heartbeat_counter++ is a load and a store; past 2 its value is all one
\* (it returns to 0 long before 256).
Load ==
  /\ hpc = "load"
  /\ tmp' = counter /\ hpc' = "store"
  /\ UNCHANGED <<dev, tcpq, regq, hbq, counter, hbtmr, losses>> /\ HbRest

Store ==
  /\ hpc = "store"
  /\ counter' = (IF tmp > 2 THEN 3 ELSE tmp + 1) /\ tmp' = 0 /\ hpc' = "test"
  /\ UNCHANGED <<dev, tcpq, regq, hbq, hbtmr, losses>> /\ HbRest

Test ==
  /\ hpc = "test"
  /\ hpc' = IF counter > 2 THEN "standby" ELSE "idle"
  /\ UNCHANGED <<dev, tcpq, regq, hbq, tmp, counter, hbtmr, losses>> /\ HbRest

HeartLost ==
  /\ hpc = "standby"
  /\ dev' = "STAND_BY" /\ hpc' = "login"
  /\ UNCHANGED <<tcpq, regq, hbq, tmp, counter, hbtmr, losses>> /\ HbRest

LogInAgain ==
  /\ hpc = "login"
  /\ hpc' = "idle" /\ regq' = Sent(regq, RegCap, "LOG_IN")
  /\ UNCHANGED <<dev, tcpq, hbq, tmp, counter, hbtmr, losses>> /\ HbRest

-----------------------------------------------------------------------------
(* update service (the end of upgrade_handler), DA service                 *)

UpdRest == UNCHANGED <<netVars, tpc, dpc, dataq, regVars, ackq, tmr, hbVars, counter,
                       hbq, accepted>>

UpgradeAborted ==
  /\ upd > 0
  /\ tcpq' \in {tcpq, Sent(tcpq, TcpCap, Other)}
  /\ upd' = upd - 1 /\ dev' = "WORK"
  /\ UNCHANGED <<regq, daInit>> /\ UpdRest

UpgradeReceived ==
  /\ upd > 0
  /\ upd' = upd - 1 /\ regq' = Sent(regq, RegCap, "LOG_OUT")
  /\ tcpq' = Sent(tcpq, TcpCap, Other)
  /\ UNCHANGED <<dev, daInit>> /\ UpdRest

\* net service: MSG_ID_NET_REMOTE_IP_CHANGE
RemoteIpChanged ==
  /\ Lose
  /\ tcpq' = Sent(tcpq, TcpCap, CloseReq)
  /\ UNCHANGED <<dev, tcpVars, dpc, dataq, regVars, regq, ackq, tmr, hbVars, counter, hbq,
                 upd, daInit, accepted>>

SensorsReady ==
  /\ ~daInit /\ daInit' = TRUE
  /\ UNCHANGED <<dev, tcpq, regq, upd>> /\ UpdRest

-----------------------------------------------------------------------------
Tcp       == \/ Connect \/ NotifyStandBy \/ NotifyLogIn \/ RecvError \/ LastMessage \/ Write
             \/ WriteError \/ CloseRequested \/ SystemReset
Data      == LogInAck \/ HeartbeatAck \/ UpgradeRequest \/ Erased \/ EraseFails
Register  == \/ LogInInd \/ SendLogIn \/ Ack \/ LogInFailed \/ LogInDone \/ StartHeartbeat
             \/ LogOutInd \/ SendReset
Heartbeat == Start \/ Beat \/ Load \/ Store \/ Test \/ HeartLost \/ LogInAgain
Update    == UpgradeAborted \/ UpgradeReceived
Network   == \/ ConnectFails \/ PlatformSilent \/ PlatformUpgrades \/ LocalUpgrades
             \/ ConnectionLost \/ RebootCommand \/ RemoteIpChanged

Next == \/ Tcp \/ Data \/ Register \/ Heartbeat \/ Update \/ Network
        \/ PlatformAnswers \/ AckTimeout \/ RegisterTmr \/ HeartbeatTmr \/ SensorsReady

Spec == Init /\ [][Next]_vars

\* Every task runs when it can, timers expire, and the platform answers what
\* it does not lose.
FairSpec ==
  /\ Spec
  /\ WF_vars(Tcp) /\ WF_vars(Data) /\ WF_vars(Register) /\ WF_vars(Heartbeat)
  /\ WF_vars(Update) /\ WF_vars(PlatformAnswers) /\ WF_vars(AckTimeout)
  /\ WF_vars(RegisterTmr) /\ WF_vars(SensorsReady)

-----------------------------------------------------------------------------
\* Somebody is about to log in, or to start all over.
LogInPending ==
  \/ tpc # "loop" \/ conn = "down" \/ tmr
  \/ rpc # "idle" \/ regq # <<>> \/ hpc \in {"standby", "login"}
  \/ Contains(tcpq, Reset)

\* The device never rests on an open connection without being logged in: as
\* long as it is in stand-by a login is queued, under way, or on the timer.
NeverForgotten == dev \in {"NOT_RDY", "STAND_BY"} => LogInPending

\* The register service takes the device to work only for an answer to the
\* login it sent last, whatever answers to earlier ones arrive meanwhile.
WorkIsAccepted == rpc = "work" => accepted

\* The heartbeat timer runs, or the message that starts it is on its way.
Watched == hbtmr \/ Contains(hbq, "START") \/ rpc = "start"

\* A device at work is watched, or about to be: an upgrade ordered locally before
\* it has ever logged in and then aborted puts it to work with no timer, but its
\* first login, which starts the timer, is still ahead.
WorkIsWatched == dev = "WORK" => Watched \/ LogInPending

\* Once the network behaves, the device works again and again, unless it is
\* left in an upgrade whose reset was lost to a full queue.
EndsInWork == []<>(dev = "WORK") \/ <>[](dev = "UPGRADE")

=============================================================================
