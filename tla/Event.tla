------------------------------- MODULE Event -------------------------------
(***************************************************************************)
(* Alarms and faults: the DA service finds them while it polls the sensors, *)
(* the event service reports them until the platform has acknowledged each, *)
(* and the data service deletes sensors under both.  An alarm is also kept  *)
(* in the stored configuration, to be reported after a power failure.       *)
(*                                                                         *)
(* A sensor's state has its type and two flags: "R" (RESET), "S" (SET) and, *)
(* for the alarm only, "C" (RECOVER).  The debouncing of IsValidStatus, the *)
(* alarm thresholds and the 485 exchange choose when a flag changes, which  *)
(* is left open here.  The configuration is kept in RAM and in the flash; a *)
(* save stores all of it in one step (StableStore), or is refused because   *)
(* another task is in SDS_Poll, which every setter ignores.                 *)
(***************************************************************************)
EXTENDS Integers, Sequences, SequencesExt, FiniteSetsExt

CONSTANTS Sensors,     \* indexes of the sensors, 0 among them
          Water,       \* the only sensor with an alarm
          EqCap,       \* size of event_service_q
          NetCap,      \* reports queued or on the connection
          MaxChanges,  \* alarms and faults found
          MaxLosses,   \* faults of the network, refused saves
          MaxOrders    \* sensor commands of the platform, power failures

ASSUME EventAssumption ==
  /\ IsFiniteSet(Sensors) /\ Sensors \subseteq Nat /\ {0, Water} \subseteq Sensors
  /\ Water # 0
  /\ {EqCap, NetCap} \subseteq Nat \ {0}
  /\ {MaxChanges, MaxLosses, MaxOrders} \subseteq Nat

VARIABLES da,         \* Sensor_State, of the DA service
          pc, todo,   \* where the DA service is; the sensors of its config left to poll
          en, sys,    \* enFlag of sysconfig.Sensor, sysconfig.Sensor_State
          stored,     \* the two in the flash
          refused,    \* the last save was refused
          dpc,        \* data service
          eq, tmr,    \* event_service_q, event_tmr is running
          conf,       \* EventConf
          epc, at, tries, mySeq, ackq, \* event service, event_service_ack_q
          net, acks,  \* reports and acknowledgements under way
          work,       \* device_state is DEVICE_STATE_WORK
          told,       \* what the platform has accepted
          changes, losses, orders,     \* bounds
          overflow, deleted, restarted, \* what has happened (history)
          stale,      \* a restart has loaded what was older than the last save
          wiped       \* sensors whose saved state a factory reset zeroed

daVars  == <<da, pc, todo>>
rowVars == <<stored, refused>>
sysVars == <<en, sys, rowVars>>
evVars  == <<conf, epc, at, tries, mySeq, ackq>>
netVars == <<net, acks, work, told>>
history == <<deleted, restarted, stale, wiped>>
vars == <<da, pc, todo, en, sys, stored, refused, dpc, eq, tmr, conf, epc, at, tries, mySeq, ackq, net, acks,
          work, told, changes, losses, orders, overflow, deleted, restarted, stale, wiped>>

State(t, event, error) == [type |-> t, event |-> event, error |-> error]
Zero   == State(0, "R", "R")
States == [type : Sensors, event : {"R", "S", "C"}, error : {"R", "S"}]

Row(e, s) == [en |-> e, sys |-> s]
Rows      == [en : SUBSET Sensors, sys : [Sensors -> States]]

\* The flags, numbered in the order in which a round of reports looks at them
Slots         == {2 * s : s \in Sensors} \cup {2 * s + 1 : s \in Sensors}
SlotSensor(n) == n \div 2
SlotKind(n)   == IF n % 2 = 0 THEN "error" ELSE "event"

\* param.pid of a report
Pid(kind, st) ==
  IF kind = "error" THEN (IF st.error = "S" THEN "0F" ELSE "10")
  ELSE CASE st.event = "S" -> "0D" [] st.event = "C" -> "0E" [] OTHER -> "00"

\* seq_ID counts to 65536: a number comes back long after what had it is gone.
\* What is under way before a report was left there by waits that were given up,
\* each of them a loss.
SeqNos == 0 .. MaxLosses + 1
Fresh  == Min(SeqNos \ ({mySeq} \cup {net[i].sn : i \in DOMAIN net}
                          \cup {acks[i].sn : i \in DOMAIN acks}
                          \cup {ackq[i].sn : i \in DOMAIN ackq}))

Mail   == [id : {"ALARM", "FAULT", "STOP", "TIMEOUT"}, st : States]
Acks   == [sn : SeqNos, pid : {"0D", "0E", "0F", "10"}]

TypeOK ==
  /\ da \in [Sensors -> States] /\ sys \in [Sensors -> States]
  /\ pc \in {"idle", "save", "locked", "alarm", "polled", "fault"}
  /\ todo \subseteq Sensors /\ (pc # "idle" => todo # {}) /\ en \subseteq Sensors
  /\ dpc \in {"idle", "clear", "stop"}
  /\ Len(eq) <= EqCap /\ Range(eq) \subseteq Mail /\ tmr \in BOOLEAN
  /\ conf \in [Sensors -> [event : BOOLEAN, error : BOOLEAN, st : States]]
  /\ epc \in {"idle", "scan", "sent", "wait"} /\ (at = 0 \/ {at, at - 1} \cap Slots # {})
  /\ tries \in 0 .. 2 /\ mySeq \in SeqNos
  /\ Len(ackq) <= 5 /\ Range(ackq) \subseteq Acks /\ Range(acks) \subseteq Acks
  /\ Len(net) <= NetCap
  /\ Range(net) \subseteq [sn : SeqNos, kind : {"error", "event"}, st : States]
  /\ work \in BOOLEAN /\ told \in [Sensors -> States]
  /\ changes \in 0 .. MaxChanges /\ losses \in 0 .. MaxLosses /\ orders \in 0 .. MaxOrders
  /\ {overflow, deleted, restarted, stale, refused} \subseteq BOOLEAN
  /\ stored \in Rows /\ wiped \subseteq Sensors

\* EventConf before event_data_init
Quiet == [event |-> FALSE, error |-> FALSE, st |-> Zero]

Init ==
  /\ da = [s \in Sensors |-> State(s, "R", "R")] /\ pc = "idle" /\ todo = {}
  /\ en = Sensors /\ sys = [s \in Sensors |-> Zero] /\ dpc = "idle"
  /\ stored = Row(en, sys) /\ refused = FALSE /\ stale = FALSE /\ wiped = {}
  /\ eq = <<>> /\ tmr = TRUE /\ conf = [s \in Sensors |-> Quiet]
  /\ epc = "idle" /\ at = 0 /\ tries = 0 /\ mySeq = 0 /\ ackq = <<>>
  /\ net = <<>> /\ acks = <<>> /\ work = FALSE
  /\ told = [s \in Sensors |-> State(s, "R", "R")]
  /\ changes = 0 /\ losses = 0 /\ orders = 0
  /\ overflow = FALSE /\ deleted = FALSE /\ restarted = FALSE

Lose   == losses < MaxLosses /\ losses' = losses + 1
Order  == orders < MaxOrders /\ orders' = orders + 1
Change == changes < MaxChanges /\ changes' = changes + 1

\* MsgDeal_Send to the event service: every caller only logs that it failed
SendEvent(id, st) ==
  IF Len(eq) < EqCap
  THEN eq' = Append(eq, [id |-> id, st |-> st]) /\ UNCHANGED overflow
  ELSE UNCHANGED eq /\ overflow' = TRUE

\* SDS_Save and SDS_Poll of the row in RAM, now or e and s.  While another task
\* saves the row both are refused: what it was given before is stored or not.
Save(e, s) ==
  \/ stored' = Row(e, s) /\ refused' = FALSE /\ UNCHANGED losses
  \/ stored' \in {stored, Row(en, sys)} /\ refused' = TRUE /\ Lose

\* The data service, of a higher priority, is stopped inside set_sensor only
\* when the DA service has DAlock.
Preempted == dpc = "clear" /\ pc # "locked"

-----------------------------------------------------------------------------
(* DA service                                                              *)

Sensor == Min(todo)     \* the sensor being polled

\* LSpeed_485poll works on the configuration as it was at the start.  The
\* bound: there is no poll when there is nothing left to be found.
StartPoll ==
  /\ ~Preempted /\ pc = "idle" /\ todo = {}
  /\ changes < MaxChanges /\ en # {} /\ todo' = en
  /\ UNCHANGED <<da, pc, sysVars, dpc, eq, tmr, evVars, netVars, changes, losses, orders,
                 overflow, history>>

\* DA_set_alarm, up to the pending of DAlock
FindAlarm ==
  /\ ~Preempted /\ pc = "idle" /\ todo # {} /\ Sensor = Water
  /\ Change
  /\ \E event \in {"S", "C"} \ {da[Sensor].event} : da' = [da EXCEPT ![Sensor].event = event]
  /\ pc' = "save"
  /\ UNCHANGED <<todo, sysVars, dpc, eq, tmr, evVars, netVars, losses, orders, overflow,
                 history>>

LockState ==
  /\ ~Preempted /\ pc = "save"
  /\ pc' = "locked"
  /\ UNCHANGED <<da, todo, sysVars, dpc, eq, tmr, evVars, netVars, changes, losses, orders,
                 overflow, history>>

\* The rest of set_sys_sensor_State, with SDS_Poll
SaveAlarm ==
  /\ pc = "locked"
  /\ sys' = [sys EXCEPT ![Sensor] = [da[Sensor] EXCEPT !.error = "R"]]
  /\ Save(en, sys')
  /\ pc' = "alarm" /\ wiped' = wiped \ {Sensor}
  /\ UNCHANGED <<da, todo, en, dpc, eq, tmr, evVars, netVars, changes, orders,
                 overflow, deleted, restarted, stale>>

SendAlarm ==
  /\ ~Preempted /\ pc = "alarm"
  /\ SendEvent("ALARM", da[Sensor])
  /\ pc' = "polled"
  /\ UNCHANGED <<da, todo, sysVars, dpc, tmr, evVars, netVars, changes, losses, orders,
                 history>>

\* set_fault; a sensor that answered with an alarm cannot have a new fault
FindFault ==
  /\ ~Preempted /\ pc \in {"idle", "polled"} /\ todo # {}
  /\ Change
  /\ \E error \in {"R", "S"} \ {da[Sensor].error} :
       /\ pc = "polled" => error = "R"
       /\ da' = [da EXCEPT ![Sensor].error = error]
  /\ pc' = "fault"
  /\ UNCHANGED <<todo, sysVars, dpc, eq, tmr, evVars, netVars, losses, orders, overflow,
                 history>>

SendFault ==
  /\ ~Preempted /\ pc = "fault"
  /\ SendEvent("FAULT", da[Sensor])
  /\ pc' = "idle" /\ todo' = todo \ {Sensor}
  /\ UNCHANGED <<da, sysVars, dpc, tmr, evVars, netVars, changes, losses, orders, history>>

\* Fault: the poll of the sensor does not end.
NoFaultStays ==
  /\ ~Preempted /\ pc \in {"idle", "polled"} /\ todo # {}
  /\ todo' = todo \ {Sensor}
  /\ UNCHANGED <<da, pc, sysVars, dpc, eq, tmr, evVars, netVars, changes, losses, orders,
                 overflow, history>>

NoFault ==
  /\ ~Preempted /\ pc \in {"idle", "polled"} /\ todo # {}
  /\ pc' = "idle" /\ todo' = todo \ {Sensor}
  /\ UNCHANGED <<da, sysVars, dpc, eq, tmr, evVars, netVars, changes, losses, orders,
                 overflow, history>>

DaService == StartPoll \/ FindAlarm \/ LockState \/ SaveAlarm \/ SendAlarm
               \/ FindFault \/ SendFault \/ NoFault

-----------------------------------------------------------------------------
(* data service: set_sensor_address_cb, factory_reset_cb                   *)

SetSensors ==
  /\ dpc = "idle" /\ Order
  /\ \E s \in Sensors : en' = en \cup {s} /\ Save(en \cup {s}, sys)
  /\ dpc' = "stop"
  /\ UNCHANGED <<daVars, sys, eq, tmr, evVars, netVars, changes, overflow, history>>

\* OPCODE_DEL of one sensor: the saved state stays, the one of the DA service is
\* zeroed, its type too.
DeleteSensor(s) ==
  /\ dpc = "idle" /\ pc # "locked" /\ Order
  /\ en' = en \ {s} /\ Save(en \ {s}, sys) /\ da' = [da EXCEPT ![s] = Zero]
  /\ dpc' = "stop" /\ deleted' = TRUE
  /\ UNCHANGED <<pc, todo, sys, eq, tmr, evVars, netVars, changes, overflow,
                 restarted, stale, wiped>>

NoStates == [s \in Sensors |-> Zero]

\* OPCODE_DELALL, up to the first pending of DAlock
DeleteAll ==
  /\ dpc = "idle" /\ Order
  /\ en' = {} /\ sys' = NoStates
  /\ dpc' = "clear" /\ deleted' = TRUE
  /\ UNCHANGED <<daVars, rowVars, eq, tmr, evVars, netVars, changes, losses, overflow,
                 restarted, stale, wiped>>

ClearStates ==
  /\ dpc = "clear" /\ pc # "locked"
  /\ da' = sys /\ Save(en, sys)
  /\ dpc' = "stop" /\ wiped' = {}
  /\ UNCHANGED <<pc, todo, en, sys, eq, tmr, evVars, netVars, changes, orders,
                 overflow, deleted, restarted, stale>>

\* factory_resrt, of the data service or the shell, which waits for Datalock:
\* neither the DA service nor the event service learns of it.
FactoryReset ==
  /\ dpc # "clear" /\ Order
  /\ en' = {} /\ sys' = NoStates /\ Save({}, NoStates)
  /\ deleted' = TRUE /\ wiped' = Sensors
  /\ UNCHANGED <<daVars, dpc, eq, tmr, evVars, netVars, changes, overflow, restarted,
                 stale>>

\* Another setter of the row, one that changes neither, saves all of it.
SaveOther ==
  /\ dpc # "clear" /\ refused
  /\ stored' = Row(en, sys) /\ refused' = FALSE
  /\ UNCHANGED <<daVars, en, sys, dpc, eq, tmr, evVars, netVars, changes, losses, orders,
                 overflow, history>>

SendStop ==
  /\ dpc = "stop" /\ SendEvent("STOP", Zero)
  /\ dpc' = "idle"
  /\ UNCHANGED <<daVars, sysVars, tmr, evVars, netVars, changes, losses, orders, history>>

\* event_ack_cb
DeliverAck ==
  /\ dpc = "idle" /\ acks # <<>>
  /\ acks' = Tail(acks)
  /\ ackq' = IF Len(ackq) < 5 THEN Append(ackq, Head(acks)) ELSE ackq
  /\ UNCHANGED <<daVars, sysVars, dpc, eq, tmr, conf, epc, at, tries, mySeq, net, work, told,
                 changes, losses, orders, overflow, history>>

DataService == SetSensors \/ (\E s \in Sensors : DeleteSensor(s)) \/ DeleteAll
                 \/ ClearStates \/ FactoryReset \/ SaveOther \/ SendStop \/ DeliverAck

-----------------------------------------------------------------------------
(* event service                                                           *)

\* event_alarm and event_fault: the message names its own sensor
Flagged(m) ==
  [conf EXCEPT ![m.st.type].st = m.st,
               ![m.st.type].event = (m.id = "ALARM") \/ @,
               ![m.st.type].error = (m.id = "FAULT") \/ @]

\* event_stop
Stopped == [s \in Sensors |-> IF s \in en THEN conf[s]
                              ELSE [conf[s] EXCEPT !.event = FALSE, !.error = FALSE]]

\* Fault: only a round of reports starts the timer again.
HandleEventOnce ==
  /\ ~Preempted /\ epc = "idle" /\ eq # <<>>
  /\ eq' = Tail(eq)
  /\ LET m == Head(eq) IN
       CASE m.id = "STOP"    -> conf' = Stopped /\ UNCHANGED <<epc, at, tmr>>
         [] m.id = "TIMEOUT" -> /\ IF work THEN epc' = "scan" /\ at' = 0
                                        ELSE UNCHANGED <<epc, at>>
                             /\ UNCHANGED <<conf, tmr>>
         [] OTHER            -> conf' = Flagged(m) /\ UNCHANGED <<epc, at, tmr>>
  /\ UNCHANGED <<daVars, sysVars, dpc, tries, mySeq, ackq, netVars, changes, losses, orders,
                 overflow, history>>

HandleEvent ==
  /\ ~Preempted /\ epc = "idle" /\ eq # <<>>
  /\ eq' = Tail(eq)
  /\ LET m == Head(eq) IN
       CASE m.id = "STOP"    -> conf' = Stopped /\ UNCHANGED <<epc, at, tmr>>
         [] m.id = "TIMEOUT" -> /\ IF work THEN epc' = "scan" /\ at' = 0 /\ UNCHANGED tmr
                                           ELSE tmr' = TRUE /\ UNCHANGED <<epc, at>>
                                /\ UNCHANGED conf
         [] OTHER            -> conf' = Flagged(m) /\ UNCHANGED <<epc, at, tmr>>
  /\ UNCHANGED <<daVars, sysVars, dpc, tries, mySeq, ackq, netVars, changes, losses, orders,
                 overflow, history>>

\* send_error_data or send_event_data of the next flag that is set
SendReport ==
  LET due == {n \in Slots : n >= at /\ conf[SlotSensor(n)][SlotKind(n)]} IN
  /\ ~Preempted /\ epc = "scan"
  /\ IF due = {}
     THEN epc' = "idle" /\ tmr' = TRUE /\ at' = 0 /\ UNCHANGED <<mySeq, net>>
     ELSE LET slot   == Min(due)
              report == [sn |-> Fresh, kind |-> SlotKind(slot),
                         st |-> conf[SlotSensor(slot)].st] IN
          /\ epc' = "sent" /\ at' = slot /\ mySeq' = Fresh
          /\ net' = IF Len(net) < NetCap THEN Append(net, report) ELSE net
          /\ UNCHANGED tmr
  /\ UNCHANGED <<daVars, sysVars, dpc, eq, conf, tries, ackq, acks, work, told, changes,
                 losses, orders, overflow, history>>

\* MsgDeal_Clr, after the report is on its way
ClearAcks ==
  /\ ~Preempted /\ epc = "sent"
  /\ epc' = "wait" /\ ackq' = <<>>
  /\ UNCHANGED <<daVars, sysVars, dpc, eq, tmr, conf, at, tries, mySeq, netVars, changes,
                 losses, orders, overflow, history>>

\* Fault: my_seq_id is not compared.
AnswersAnySeq(ack, kind, st) == ack.pid = Pid(kind, st)

\* event_ack_process takes an acknowledgement with the number and the pid of
\* the report
Answers(ack, kind, st) == ack.sn = mySeq /\ ack.pid = Pid(kind, st)

\* Fault: the element of the sensor, reset without looking at it.
SavedAtType(s) == s

\* The element of sysconfig.Sensor_State that an acknowledged alarm resets
Saved(s) == 0

EndWait == epc' = "scan" /\ at' = at + 1 /\ tries' = 0

ReceiveAck ==
  LET s == SlotSensor(at)  kind == SlotKind(at) IN
  /\ ~Preempted /\ epc = "wait" /\ ackq # <<>>
  /\ ackq' = Tail(ackq)
  /\ IF Answers(Head(ackq), kind, conf[s].st)
     THEN /\ EndWait
          /\ conf' = [conf EXCEPT ![s][kind] = FALSE]
          /\ IF kind = "event"
             THEN /\ pc # "locked" /\ sys' = [sys EXCEPT ![Saved(s)] = State(s, "R", "R")]
                  /\ Save(en, sys')
             ELSE UNCHANGED <<sys, rowVars, losses>>
     ELSE /\ UNCHANGED <<conf, sys, rowVars, losses>>
          /\ IF tries = 2 THEN EndWait ELSE tries' = tries + 1 /\ UNCHANGED <<epc, at>>
  /\ UNCHANGED <<daVars, en, dpc, eq, tmr, mySeq, netVars, changes, orders, overflow,
                 history>>

\* The rest of the three waits pass with no message: nothing is under way, or
\* what is under way comes late.
GiveUp ==
  /\ ~Preempted /\ epc = "wait" /\ ackq = <<>>
  /\ EndWait
  /\ IF net = <<>> /\ acks = <<>> THEN UNCHANGED losses ELSE Lose
  /\ UNCHANGED <<daVars, sysVars, dpc, eq, tmr, conf, mySeq, ackq, netVars, changes, orders,
                 overflow, history>>

EventService == HandleEvent \/ SendReport \/ ClearAcks \/ ReceiveAck \/ GiveUp

\* event_tmr_callback, of a timer that is one-shot
Expire ==
  /\ tmr /\ tmr' = FALSE /\ SendEvent("TIMEOUT", Zero)
  /\ UNCHANGED <<daVars, sysVars, dpc, evVars, netVars, changes, losses, orders, history>>

-----------------------------------------------------------------------------
(* The platform, the connection, the power supply                          *)

\* A report with no known pid is not acknowledged.
Accept ==
  /\ net # <<>> /\ net' = Tail(net)
  /\ LET r == Head(net)  pid == Pid(r.kind, r.st) IN
       IF pid = "00" THEN UNCHANGED <<told, acks>>
       ELSE /\ told' = IF r.kind = "event"
                       THEN [told EXCEPT ![r.st.type].event = r.st.event]
                       ELSE [told EXCEPT ![r.st.type].error = r.st.error]
            /\ acks' = Append(acks, [sn |-> r.sn, pid |-> pid])
  /\ UNCHANGED <<daVars, sysVars, dpc, eq, tmr, evVars, work, changes, losses, orders,
                 overflow, history>>

\* What is on the connection is lost with it, what is still or already in a
\* queue of the device is not.
Disconnect ==
  /\ Lose /\ work' = FALSE
  /\ \E k \in 0 .. Len(net) : net' = SubSeq(net, k + 1, Len(net))
  /\ \E k \in 0 .. Len(acks) : acks' = SubSeq(acks, 1, k)
  /\ UNCHANGED <<daVars, sysVars, dpc, eq, tmr, evVars, told, changes, orders, overflow,
                 history>>

LogIn ==
  /\ ~work /\ work' = TRUE
  /\ UNCHANGED <<daVars, sysVars, dpc, eq, tmr, evVars, net, acks, told, changes, losses,
                 orders, overflow, history>>

\* Sensor_StateInit and event_data_init after a power failure
Restart ==
  LET saved == stored.sys IN
  /\ Order
  /\ en' = stored.en /\ sys' = saved
  /\ da' = [s \in Sensors |-> IF saved[s].event # "R" THEN [saved[s] EXCEPT !.type = s]
                                                      ELSE State(s, "R", "R")]
  /\ conf' = [s \in Sensors |-> IF saved[s].event # "R"
                                THEN [event |-> TRUE, error |-> FALSE, st |-> saved[s]]
                                ELSE Quiet]
  /\ pc' = "idle" /\ todo' = {} /\ dpc' = "idle"
  /\ eq' = <<>> /\ tmr' = TRUE /\ ackq' = <<>> /\ net' = <<>> /\ acks' = <<>>
  /\ epc' = "idle" /\ at' = 0 /\ tries' = 0 /\ mySeq' = 0
  /\ work' = FALSE /\ restarted' = TRUE
  /\ refused' = FALSE /\ wiped' = {} /\ stale' = (stale \/ refused)
  /\ UNCHANGED <<stored, told, changes, losses, overflow, deleted>>

Environment == Accept \/ Disconnect \/ LogIn \/ Restart

Next == DaService \/ DataService \/ EventService \/ Expire \/ Environment

Spec == Init /\ [][Next]_vars

\* Tasks run and timers expire, the platform answers and the session comes back.
FairSpec ==
  /\ Spec
  /\ WF_vars(DaService) /\ WF_vars(EventService \/ Expire)
  /\ WF_vars(ClearStates \/ SendStop \/ DeliverAck) /\ WF_vars(Accept \/ LogIn)

-----------------------------------------------------------------------------
(* Properties                                                              *)

\* An acknowledgement ends the reporting only of what the platform has
\* accepted: a late one, or one for another sensor, ends nothing.
AckIsForState ==
  [][epc = "wait" /\ epc' = "scan" => \A s \in Sensors :
       LET st == conf[s].st IN
       /\ conf[s].event /\ ~conf'[s].event => told[st.type].event = st.event
       /\ conf[s].error /\ ~conf'[s].error => told[st.type].error = st.error]_vars

\* An alarm the platform has not accepted is in the stored configuration, so
\* that a power failure does not lose it.  If the last save was refused it is in
\* RAM, for the next save of whatever task to store.  Otherwise it is on its way
\* there, or a factory reset has taken it from there, as deleting all sensors is
\* about to take it from the DA service too.
UntoldIsStored ==
  \A s \in Sensors :
    da[s].event \notin {"R", told[s].event} =>
      \/ stored.sys[s].event = da[s].event
      \/ refused /\ sys[s].event = da[s].event
      \/ pc \in {"save", "locked"} \/ dpc = "clear" \/ s \in wiped

\* What the DA service found last is what the platform knows in the end, if no
\* message to the event service was lost to a full queue, no sensor was deleted
\* and no save was refused before a restart; faults are not stored, so a restart
\* ends the promise for them.
PlatformKnows ==
  <>[](overflow \/ deleted \/ stale \/ \A s \in Sensors :
         /\ told[s].event = da[s].event
         /\ restarted \/ told[s].error = da[s].error)

\* data_service.h: the elements of Sensor_State are, in order, the states of
\* the four sensors.  An acknowledged alarm puts the water sensor's into
\* element 0, and leaves the alarm in element 2.
StateOfSensor == \A s \in Sensors : sys[s].type \in {0, s}
=============================================================================
