---------------------------- MODULE EventProofs ----------------------------
(* Proofs about Event, for every set of sensors, every length of the queues *)
(* and every number of losses and commands: an alarm outlives a power       *)
(* failure, every report has a number of its own, and an acknowledgement    *)
(* ends the reporting only of what the platform has accepted.              *)
EXTENDS Event, FiniteSetTheorems, WellFoundedInduction, TLAPS

-----------------------------------------------------------------------------
(* Alarms are stored                                                       *)

\* A record with the fields of a sensor's state; what is in them does not matter.
IsState(x) == x = State(x.type, x.event, x.error)

AreStates(f) == f = [s \in Sensors |-> f[s]] /\ \A s \in Sensors : IsState(f[s])

StatesOK == /\ AreStates(da) /\ AreStates(sys) /\ AreStates(stored.sys)
            /\ stored = Row(stored.en, stored.sys)

\* Between FindAlarm and SendAlarm it is the water sensor that is polled.
PollInv == pc \in {"save", "locked", "alarm"} => Sensor = Water

\* Other sensors have no alarm, neither found nor saved nor stored.
OthersInv == \A s \in Sensors \ {Water} :
               da[s].event = "R" /\ sys[s].event = "R" /\ stored.sys[s].event = "R"

\* What is in RAM is stored, if the last save was not refused.
SavedInv == refused \/ dpc = "clear" \/ stored.sys = sys

\* The alarm that was found is in RAM, or one of two tasks is about to put it
\* there, or a factory reset has taken it from there.
WaterInv ==
  da[Water].event # "R" =>
    \/ sys[Water].event = da[Water].event
    \/ pc \in {"save", "locked"} \/ dpc = "clear" \/ Water \in wiped

IInv == StatesOK /\ PollInv /\ OthersInv /\ SavedInv /\ WaterInv

\* A new board has found and stored nothing.
LEMMA InitIInv == Init => IInv
  BY EventAssumption DEF Init, IInv, StatesOK, AreStates, PollInv, OthersInv, SavedInv, WaterInv,
                         IsState, State, Zero, Row

\* Steps that change neither the states nor where the two tasks are.
LEMMA KeepIInv ==
  ASSUME IInv, UNCHANGED <<da, sys, pc, todo, dpc, rowVars, wiped>>
  PROVE  IInv'
  BY DEF IInv, StatesOK, AreStates, PollInv, OthersInv, SavedInv, WaterInv, Sensor, rowVars

\* A save stores what is in RAM, or else what was stored or in RAM before.
LEMMA SaveStored ==
  ASSUME IInv, NEW e, Save(e, sys'), AreStates(sys'),
         \A s \in Sensors \ {Water} : sys'[s].event = "R"
  PROVE  /\ stored' = Row(stored'.en, stored'.sys) /\ AreStates(stored'.sys)
         /\ \A s \in Sensors \ {Water} : stored'.sys[s].event = "R"
         /\ refused' \/ stored'.sys = sys'
  <1>1. \/ stored' = Row(e, sys')
        \/ stored' \in {stored, Row(en, sys)} /\ refused' = TRUE
    BY DEF Save
  <1> QED BY <1>1 DEF Row, IInv, StatesOK, AreStates, OthersInv

\* An alarm is found for the water sensor, and then not yet stored.
LEMMA FindAlarmIInv == IInv /\ FindAlarm => IInv'
  <1> SUFFICES ASSUME IInv, FindAlarm PROVE IInv'
    OBVIOUS
  <1>1. /\ Sensor = Water /\ Sensor' = Sensor /\ pc' = "save"
        /\ UNCHANGED <<sys, dpc, stored, refused>>
    BY DEF FindAlarm, Sensor, sysVars, rowVars
  <1>2. PICK event \in {"S", "C"} : da' = [da EXCEPT ![Water].event = event]
    BY <1>1 DEF FindAlarm
  <1>3. StatesOK' /\ OthersInv'
    BY <1>1, <1>2, EventAssumption DEF IInv, StatesOK, AreStates, OthersInv, IsState, State
  <1> QED BY <1>1, <1>3 DEF IInv, PollInv, SavedInv, WaterInv

\* What is saved is the alarm as it is when DAlock is held.
LEMMA SaveAlarmIInv == IInv /\ SaveAlarm => IInv'
  <1> SUFFICES ASSUME IInv, SaveAlarm PROVE IInv'
    OBVIOUS
  <1>1. Sensor = Water /\ Sensor' = Sensor /\ pc' = "alarm" /\ UNCHANGED da
    BY DEF IInv, PollInv, SaveAlarm, Sensor
  <1>2. sys' = [sys EXCEPT ![Water] = [da[Water] EXCEPT !.error = "R"]] /\ Save(en, sys')
    BY <1>1 DEF SaveAlarm
  <1>3. IsState([da[Water] EXCEPT !.error = "R"])
    BY EventAssumption DEF IInv, StatesOK, AreStates, IsState, State
  <1>4. AreStates(sys') /\ \A s \in Sensors \ {Water} : sys'[s].event = "R"
    BY <1>1, <1>2, <1>3 DEF IInv, StatesOK, AreStates, OthersInv
  <1>5. sys'[Water].event = da'[Water].event
    BY <1>1, <1>2, EventAssumption DEF IInv, StatesOK, AreStates, IsState, State
  <1>6. StatesOK' /\ OthersInv' /\ SavedInv'
    BY <1>1, <1>2, <1>4, SaveStored DEF IInv, StatesOK, AreStates, OthersInv, SavedInv
  <1> QED BY <1>1, <1>5, <1>6 DEF IInv, PollInv, WaterInv

\* A fault changes no alarm.
LEMMA FindFaultIInv == IInv /\ FindFault => IInv'
  <1> SUFFICES ASSUME IInv, FindFault PROVE IInv'
    OBVIOUS
  <1>1. pc' = "fault" /\ pc \notin {"save", "locked"} /\ UNCHANGED <<sys, dpc, stored, refused, wiped>>
    BY DEF FindFault, sysVars, rowVars, history
  <1>2. PICK error \in {"R", "S"} : da' = [da EXCEPT ![Sensor].error = error]
    BY DEF FindFault
  <1>3. da' = [s \in Sensors |-> da'[s]]
        /\ \A s \in Sensors : IsState(da'[s]) /\ da'[s].event = da[s].event
    <2>1. da' = [s \in Sensors |-> da'[s]]
      BY <1>2 DEF IInv, StatesOK, AreStates
    <2>2. \A s \in Sensors : da'[s] = IF s = Sensor THEN [da[s] EXCEPT !.error = error] ELSE da[s]
      BY <1>2 DEF IInv, StatesOK, AreStates
    <2>3. \A s \in Sensors : da[s] = [type |-> da[s].type, event |-> da[s].event,
                                     error |-> da[s].error]
      BY DEF IInv, StatesOK, AreStates, IsState, State
    <2>4. ASSUME NEW s \in Sensors PROVE IsState(da'[s]) /\ da'[s].event = da[s].event
      <3>1. CASE s = Sensor
        <4>1. da'[s] = [type |-> da[s].type, event |-> da[s].event, error |-> error]
          BY <3>1, <2>2, <2>3
        <4> QED BY <4>1 DEF IsState, State
      <3>2. CASE s # Sensor
        BY <3>2, <2>2 DEF IInv, StatesOK, AreStates
      <3> QED BY <3>1, <3>2
    <2> QED BY <2>1, <2>4
  <1> QED BY <1>1, <1>3, EventAssumption DEF IInv, StatesOK, AreStates, PollInv, OthersInv, SavedInv, WaterInv

\* The rest of the DA service's steps leave the states alone, and "save" and
\* "locked" only for one another.
LEMMA PollIInv ==
  ASSUME IInv, StartPoll \/ LockState \/ SendAlarm \/ SendFault \/ NoFault
  PROVE  IInv'
  <1>1. UNCHANGED <<da, sys, dpc, stored, refused, wiped>>
    BY DEF StartPoll, LockState, SendAlarm, SendFault, NoFault, sysVars, rowVars, history
  <1>2. pc \in {"save", "locked"} => pc' = "locked"
    BY DEF StartPoll, LockState, SendAlarm, SendFault, NoFault
  <1>3. pc' = "locked" => pc = "save" /\ UNCHANGED todo
    BY DEF StartPoll, LockState, SendAlarm, SendFault, NoFault
  <1>4. pc' \in {"save", "locked", "alarm"} => pc' = "locked"
    BY DEF StartPoll, LockState, SendAlarm, SendFault, NoFault
  <1> QED BY <1>1, <1>2, <1>3, <1>4 DEF IInv, StatesOK, AreStates, PollInv, OthersInv, SavedInv, WaterInv,
                                              Sensor

\* What the data service zeroes has no alarm, what it copies is what is saved.
LEMMA SetSensorIInv ==
  ASSUME IInv, SetSensors \/ (\E s \in Sensors : DeleteSensor(s)) \/ DeleteAll \/ ClearStates
                 \/ FactoryReset \/ SaveOther \/ SendStop
  PROVE  IInv'
  <1>1. UNCHANGED <<pc, todo>>
    BY DEF SetSensors, DeleteSensor, DeleteAll, ClearStates, FactoryReset, SaveOther, SendStop,
           daVars
  <1>2. IsState(Zero) /\ Zero.event = "R"
    BY DEF Zero, IsState, State
  <1>3. AreStates(sys) /\ \A s \in Sensors \ {Water} : sys[s].event = "R"
    BY DEF IInv, StatesOK, OthersInv
  <1>4. AreStates(NoStates) /\ \A s \in Sensors : NoStates[s].event = "R"
    BY <1>2 DEF NoStates, AreStates
  <1>5. CASE SendStop
    <2>1. UNCHANGED <<da, sys, stored, refused, wiped>> /\ dpc # "clear"
      BY <1>5 DEF SendStop, daVars, sysVars, rowVars, history
    <2> QED BY <1>1, <2>1
            DEF IInv, StatesOK, AreStates, PollInv, OthersInv, SavedInv, WaterInv, Sensor
  <1>6. CASE SetSensors \/ SaveOther
    <2>1. UNCHANGED <<da, sys, wiped>> /\ dpc # "clear" /\ \E e : Save(e, sys')
      <3>1. CASE SetSensors
        BY <1>6, <3>1 DEF SetSensors, daVars, history
      <3>2. CASE SaveOther
        <4>1. Row(en, sys') = Row(en, sys)
          BY <3>2 DEF SaveOther
        <4> QED BY <3>2, <4>1 DEF SaveOther, daVars, history, Save
      <3> QED BY <1>6, <3>1, <3>2
    <2>2. AreStates(sys') /\ \A s \in Sensors \ {Water} : sys'[s].event = "R"
      BY <1>3, <2>1
    <2>3. StatesOK' /\ OthersInv' /\ SavedInv'
      BY <2>1, <2>2, SaveStored DEF IInv, StatesOK, AreStates, OthersInv, SavedInv
    <2> QED BY <1>1, <2>1, <2>3 DEF IInv, PollInv, WaterInv, Sensor
  <1>7. CASE \E s \in Sensors : DeleteSensor(s)
    <2>1. PICK s \in Sensors : /\ da' = [da EXCEPT ![s] = Zero] /\ dpc # "clear"
                               /\ UNCHANGED <<sys, wiped>> /\ Save(en \ {s}, sys)
      BY <1>7 DEF DeleteSensor
    <2>2. AreStates(sys') /\ (\A x \in Sensors \ {Water} : sys'[x].event = "R")
          /\ Save(en \ {s}, sys')
      BY <1>3, <2>1
    <2>3. StatesOK' /\ OthersInv' /\ SavedInv'
      <3>1. AreStates(da') /\ \A x \in Sensors \ {Water} : da'[x].event = "R"
        BY <1>2, <2>1 DEF IInv, StatesOK, AreStates, OthersInv
      <3> QED BY <2>2, <3>1, SaveStored DEF StatesOK, OthersInv, SavedInv
    <2> QED BY <1>1, <1>2, <2>1, <2>3, EventAssumption
            DEF IInv, StatesOK, AreStates, PollInv, WaterInv, Sensor
  <1>8. CASE DeleteAll
    <2>1. sys' = NoStates /\ dpc' = "clear" /\ UNCHANGED <<da, stored>>
      BY <1>8 DEF DeleteAll, daVars, rowVars
    <2> QED BY <1>1, <1>4, <2>1
            DEF IInv, StatesOK, PollInv, OthersInv, SavedInv, WaterInv, Sensor
  <1>9. CASE ClearStates
    <2>1. da' = sys /\ sys' = sys /\ Save(en, sys')
      BY <1>9 DEF ClearStates, sysVars
    <2>2. AreStates(sys') /\ \A x \in Sensors \ {Water} : sys'[x].event = "R"
      BY <1>3, <2>1
    <2>3. StatesOK' /\ OthersInv' /\ SavedInv'
      BY <1>3, <2>1, <2>2, SaveStored DEF StatesOK, OthersInv, SavedInv
    <2> QED BY <1>1, <2>1, <2>3 DEF IInv, PollInv, WaterInv, Sensor
  <1>10. CASE FactoryReset
    <2>1. /\ sys' = NoStates /\ Save({}, sys') /\ wiped' = Sensors /\ UNCHANGED da
      BY <1>10 DEF FactoryReset, daVars
    <2>2. AreStates(sys') /\ \A x \in Sensors \ {Water} : sys'[x].event = "R"
      BY <1>4, <2>1
    <2>3. StatesOK' /\ OthersInv' /\ SavedInv'
      BY <2>1, <2>2, SaveStored DEF IInv, StatesOK, AreStates, OthersInv, SavedInv
    <2> QED BY <1>1, <2>1, <2>3, EventAssumption DEF IInv, PollInv, WaterInv, Sensor
  <1> QED BY <1>5, <1>6, <1>7, <1>8, <1>9, <1>10

\* An acknowledgement resets element 0, which is not the water sensor's.
LEMMA ReceiveAckIInv == IInv /\ ReceiveAck => IInv'
  <1> SUFFICES ASSUME IInv, ReceiveAck PROVE IInv'
    OBVIOUS
  <1>1. UNCHANGED <<da, pc, todo, dpc, wiped>>
    BY DEF ReceiveAck, daVars, history
  <1>2. \/ UNCHANGED <<sys, rowVars>>
        \/ \E t : sys' = [sys EXCEPT ![0] = State(t, "R", "R")] /\ Save(en, sys')
    BY DEF ReceiveAck, Saved
  <1>3. CASE UNCHANGED <<sys, rowVars>>
    BY <1>1, <1>3, KeepIInv
  <1>4. CASE \E t : sys' = [sys EXCEPT ![0] = State(t, "R", "R")] /\ Save(en, sys')
    <2>1. PICK t : sys' = [sys EXCEPT ![0] = State(t, "R", "R")]
      BY <1>4
    <2>2. /\ sys' = [s \in Sensors |-> sys'[s]]
          /\ sys'[Water] = sys[Water] /\ sys'[0] = State(t, "R", "R")
          /\ \A s \in Sensors : s # 0 => sys'[s] = sys[s]
      BY <2>1, EventAssumption DEF IInv, StatesOK, AreStates
    <2>3. IsState(State(t, "R", "R")) /\ State(t, "R", "R").event = "R"
      BY DEF IsState, State
    <2>4. AreStates(sys') /\ \A s \in Sensors \ {Water} : sys'[s].event = "R"
      BY <2>2, <2>3 DEF IInv, StatesOK, AreStates, OthersInv
    <2>5. StatesOK' /\ OthersInv' /\ SavedInv'
      BY <1>1, <1>4, <2>4, SaveStored DEF IInv, StatesOK, AreStates, OthersInv, SavedInv
    <2>6. PollInv' /\ WaterInv'
      BY <1>1, <2>2 DEF IInv, PollInv, WaterInv, Sensor
    <2> QED BY <2>5, <2>6 DEF IInv
  <1> QED BY <1>2, <1>3, <1>4

\* Sensor_StateInit takes over the alarms that are stored, and no others.
LEMMA RestartIInv == IInv /\ Restart => IInv'
  <1> SUFFICES ASSUME IInv, Restart PROVE IInv'
    OBVIOUS
  <1> DEFINE f == stored.sys
  <1>1. /\ da' = [s \in Sensors |-> IF f[s].event # "R" THEN [f[s] EXCEPT !.type = s]
                                                        ELSE State(s, "R", "R")]
        /\ sys' = f /\ pc' = "idle" /\ UNCHANGED stored
    BY DEF Restart
  <1>2. AreStates(f) /\ \A s \in Sensors \ {Water} : f[s].event = "R"
    BY DEF IInv, StatesOK, OthersInv
  <1>3. stored'.sys = f /\ stored' = Row(stored'.en, stored'.sys)
    BY <1>1 DEF IInv, StatesOK
  <1> HIDE DEF f
  <1>4. \A s \in Sensors : IsState(da'[s]) /\ da'[s].event = f[s].event
    BY <1>1, <1>2 DEF AreStates, IsState, State
  <1>5. da' = [s \in Sensors |-> da'[s]]
    BY <1>1
  <1> QED BY <1>1, <1>2, <1>3, <1>4, <1>5, EventAssumption
          DEF IInv, StatesOK, AreStates, PollInv, OthersInv, SavedInv, WaterInv

\* Every step keeps the invariant.
LEMMA StepIInv == IInv /\ [Next]_vars => IInv'
  <1> SUFFICES ASSUME IInv, [Next]_vars PROVE IInv'
    OBVIOUS
  <1>1. CASE StartPoll \/ LockState \/ SendAlarm \/ SendFault \/ NoFault
    BY <1>1, PollIInv
  <1>2. CASE FindAlarm
    BY <1>2, FindAlarmIInv
  <1>3. CASE SaveAlarm
    BY <1>3, SaveAlarmIInv
  <1>4. CASE FindFault
    BY <1>4, FindFaultIInv
  <1>5. CASE SetSensors \/ (\E s \in Sensors : DeleteSensor(s)) \/ DeleteAll \/ ClearStates
               \/ FactoryReset \/ SaveOther \/ SendStop
    BY <1>5, SetSensorIInv
  <1>6. CASE ReceiveAck
    BY <1>6, ReceiveAckIInv
  <1>7. CASE Restart
    BY <1>7, RestartIInv
  <1>8. CASE DeliverAck \/ HandleEvent \/ SendReport \/ ClearAcks \/ GiveUp \/ Expire
               \/ Accept \/ Disconnect \/ LogIn \/ UNCHANGED vars
    <2>1. UNCHANGED <<da, sys, pc, todo, dpc, rowVars, wiped>>
      BY <1>8 DEF DeliverAck, HandleEvent, SendReport, ClearAcks, GiveUp, Expire, Accept,
                  Disconnect, LogIn, vars, daVars, sysVars, rowVars, history
    <2> QED BY <2>1, KeepIInv
  <1> QED BY <1>1, <1>2, <1>3, <1>4, <1>5, <1>6, <1>7, <1>8
          DEF Next, DaService, DataService, EventService, Environment

\* event_service.c, DA_service.c: an alarm the platform has not accepted is in
\* the stored configuration, on its way there or kept in RAM after a refused
\* save, whatever is deleted, acknowledged or lost in between; only a factory
\* reset, which tells neither service, takes it from there.
THEOREM AlarmIsStored == Spec => []UntoldIsStored
  <1>1. IInv => UntoldIsStored
    BY DEF IInv, OthersInv, SavedInv, WaterInv, UntoldIsStored
  <1> QED BY InitIInv, StepIInv, <1>1, PTL DEF Spec

-----------------------------------------------------------------------------
(* Types                                                                   *)

Reports == [sn : SeqNos, kind : {"error", "event"}, st : States]
Configs == [event : BOOLEAN, error : BOOLEAN, st : States]
InWait  == epc \in {"sent", "wait"}

DaTypes ==
  /\ da \in [Sensors -> States] /\ sys \in [Sensors -> States] /\ told \in [Sensors -> States]
  /\ pc \in {"idle", "save", "locked", "alarm", "polled", "fault"}
  /\ todo \subseteq Sensors /\ (pc # "idle" => todo # {}) /\ en \subseteq Sensors
  /\ dpc \in {"idle", "clear", "stop"} /\ stored \in Rows

EvTypes ==
  /\ eq \in Seq(Mail) /\ Len(eq) <= EqCap /\ tmr \in BOOLEAN
  /\ conf \in [Sensors -> Configs]
  /\ epc \in {"idle", "scan", "sent", "wait"}
  /\ (at = 0 \/ {at, at - 1} \cap Slots # {}) /\ (InWait => at \in Slots)
  /\ tries \in 0 .. 2

NetTypes ==
  /\ mySeq \in SeqNos
  /\ net \in Seq(Reports) /\ Len(net) <= NetCap
  /\ acks \in Seq(Acks) /\ ackq \in Seq(Acks) /\ Len(ackq) <= 5

Bounds ==
  /\ work \in BOOLEAN
  /\ changes \in 0 .. MaxChanges /\ losses \in 0 .. MaxLosses /\ orders \in 0 .. MaxOrders
  /\ {overflow, deleted, restarted, stale, refused} \subseteq BOOLEAN /\ wiped \subseteq Sensors

\* What is under way, but for the last report, was left behind by a loss
UnderWay == Len(net) + Len(acks) + Len(ackq) <= losses + (IF InWait THEN 1 ELSE 0)

Types == DaTypes /\ EvTypes /\ NetTypes /\ Bounds /\ UnderWay

LEMMA Params ==
  /\ Sensors \subseteq Nat /\ 0 \in Sensors /\ Water \in Sensors
  /\ EqCap \in Nat \ {0} /\ NetCap \in Nat \ {0} /\ MaxChanges \in Nat /\ MaxLosses \in Nat
  /\ MaxOrders \in Nat /\ 0 \in SeqNos /\ SeqNos \subseteq Nat
BY EventAssumption DEF SeqNos

LEMMA Slotted ==
  /\ Slots \subseteq Nat
  /\ \A n \in Slots : SlotSensor(n) \in Sensors /\ SlotKind(n) \in {"error", "event"}
BY Params DEF Slots, SlotSensor, SlotKind

LEMMA Least ==
  ASSUME NEW S \in SUBSET Nat, S # {}
  PROVE  Min(S) \in S
<1>1. PICK x \in S : \A y \in S : ~(<<y, x>> \in OpToRel(<, Nat))
  BY NatLessThanWellFounded, WFMin
<1>2. \A y \in S : x <= y
  <2> SUFFICES ASSUME NEW y \in S, ~(x <= y) PROVE FALSE
    OBVIOUS
  <2>1. y < x /\ <<y, x>> \in Nat \X Nat
    OBVIOUS
  <2>2. <<y, x>> \in OpToRel(<, Nat)
    BY <2>1, Zenon DEF OpToRel
  <2> QED BY <1>1, <2>2
<1> QED BY <1>2 DEF Min

LEMMA SensorPolled ==
  ASSUME DaTypes, todo # {}
  PROVE  Sensor \in Sensors
BY Least, Params DEF DaTypes, Sensor

\* The numbers in a queue are no more than its messages
LEMMA NumbersFew ==
  ASSUME NEW S, NEW q \in Seq(S)
  PROVE  /\ IsFiniteSet({q[i].sn : i \in DOMAIN q})
         /\ Cardinality({q[i].sn : i \in DOMAIN q}) \in 0 .. Len(q)
<1> DEFINE I == DOMAIN q
           f == [i \in I |-> q[i].sn]
           T == {q[i].sn : i \in DOMAIN q}
<1>1. I = 1 .. Len(q) /\ IsFiniteSet(I) /\ Cardinality(I) = Len(q) /\ Len(q) \in Nat
  <2>1. DOMAIN q = 1 .. Len(q) /\ Len(q) \in Nat
    OBVIOUS
  <2> HIDE DEF I, f, T
  <2>2. /\ IsFiniteSet(1 .. Len(q))
        /\ Cardinality(1 .. Len(q)) = IF 1 > Len(q) THEN 0 ELSE Len(q) - 1 + 1
    BY <2>1, FS_Interval
  <2> QED BY <2>1, <2>2 DEF I
<1>2. f \in Surjection(I, T)
  BY DEF Surjection, Range
<1>3. IsFiniteSet(T) /\ Cardinality(T) <= Cardinality(I)
  <2> HIDE DEF I, f, T
  <2> QED BY <1>1, <1>2, FS_Surjection
<1>4. Cardinality(T) \in Nat
  <2> HIDE DEF T
  <2> QED BY <1>3, FS_CardinalityType
<1> QED BY <1>1, <1>3, <1>4

LEMMA UnionFew ==
  ASSUME NEW S, NEW T, IsFiniteSet(S), IsFiniteSet(T)
  PROVE  /\ IsFiniteSet(S \cup T) /\ Cardinality(S \cup T) \in Nat
         /\ Cardinality(S \cup T) <= Cardinality(S) + Cardinality(T)
<1>1. /\ Cardinality(S \cap T) \in Nat /\ Cardinality(S) \in Nat /\ Cardinality(T) \in Nat
      /\ IsFiniteSet(S \cup T)
  BY FS_Intersection, FS_Union, FS_CardinalityType
<1>2. Cardinality(S \cup T) = Cardinality(S) + Cardinality(T) - Cardinality(S \cap T)
  BY FS_Union
<1>3. Cardinality(S \cup T) \in Nat
  BY <1>1, FS_CardinalityType
<1> QED BY <1>1, <1>2, <1>3

\* get_seqID finds a number that neither a report nor an acknowledgement has
LEMMA FreshIsNew ==
  ASSUME Types, ~InWait
  PROVE  /\ Fresh \in SeqNos
         /\ \A i \in DOMAIN net : net[i].sn # Fresh
         /\ \A i \in DOMAIN acks : acks[i].sn # Fresh
         /\ \A i \in DOMAIN ackq : ackq[i].sn # Fresh
<1> DEFINE N == {net[i].sn : i \in DOMAIN net}
           A == {acks[i].sn : i \in DOMAIN acks}
           Q == {ackq[i].sn : i \in DOMAIN ackq}
           U == {mySeq} \cup N
           V == U \cup A
           W == V \cup Q
<1>1. /\ IsFiniteSet(N) /\ Cardinality(N) \in 0 .. Len(net)
      /\ IsFiniteSet(A) /\ Cardinality(A) \in 0 .. Len(acks)
      /\ IsFiniteSet(Q) /\ Cardinality(Q) \in 0 .. Len(ackq)
  BY NumbersFew DEF Types, NetTypes
<1>2. IsFiniteSet({mySeq}) /\ Cardinality({mySeq}) = 1
  BY FS_Singleton
<1>3. IsFiniteSet(W) /\ Cardinality(W) <= MaxLosses + 1
  <2> HIDE DEF N, A, Q
  <2>1. IsFiniteSet(U) /\ Cardinality(U) \in Nat /\ Cardinality(U) <= 1 + Cardinality(N)
    BY <1>1, <1>2, UnionFew
  <2> HIDE DEF U
  <2>2. IsFiniteSet(V) /\ Cardinality(V) \in Nat /\ Cardinality(V) <= Cardinality(U) + Cardinality(A)
    BY <1>1, <2>1, UnionFew
  <2> HIDE DEF V
  <2>3. IsFiniteSet(W) /\ Cardinality(W) \in Nat /\ Cardinality(W) <= Cardinality(V) + Cardinality(Q)
    BY <1>1, <2>2, UnionFew
  <2> HIDE DEF W
  <2>4. Len(net) \in Nat /\ Len(acks) \in Nat /\ Len(ackq) \in Nat /\ losses \in 0 .. MaxLosses
        /\ Len(net) + Len(acks) + Len(ackq) <= losses
    <3>1. Len(net) \in Nat /\ Len(acks) \in Nat /\ Len(ackq) \in Nat
      BY DEF Types, NetTypes
    <3>2. Len(net) + Len(acks) + Len(ackq) <= losses + (IF InWait THEN 1 ELSE 0)
      BY DEF Types, UnderWay
    <3> QED BY <3>1, <3>2 DEF Types, Bounds
  <2>5. Cardinality(N) \in 0 .. Len(net) /\ Cardinality(A) \in 0 .. Len(acks) /\ Cardinality(Q) \in 0 .. Len(ackq)
    BY <1>1
  <2>6. MaxLosses \in Nat
    BY Params
  <2> QED BY <2>1, <2>2, <2>3, <2>4, <2>5, <2>6
<1>4. Cardinality(SeqNos) = MaxLosses + 2
  BY Params, FS_Interval DEF SeqNos
<1>5. SeqNos \ W # {}
  <2> HIDE DEF W
  <2>1. SeqNos \in SUBSET W => Cardinality(SeqNos) <= Cardinality(W)
    BY <1>3, FS_Subset
  <2>2. Cardinality(W) \in Nat
    BY <1>3, FS_CardinalityType
  <2> QED BY <1>3, <1>4, <2>1, <2>2, Params
<1>6. Fresh \in SeqNos \ W
  <2>1. Fresh = Min(SeqNos \ W)
    BY DEF Fresh
  <2> HIDE DEF W
  <2> QED BY <1>5, <2>1, Least, Params
<1> QED BY <1>6

LEMMA StatesAre ==
  /\ \A t \in Sensors : State(t, "R", "R") \in States
  /\ Zero \in States
  /\ \A st \in States : /\ st.type \in Sensors /\ st.event \in {"R", "S", "C"} /\ st.error \in {"R", "S"}
                        /\ [st EXCEPT !.error = "R"] \in States
  /\ \A st \in States : \A t \in Sensors : [st EXCEPT !.type = t] \in States
  /\ \A st \in States : \A e \in {"R", "S"} : [st EXCEPT !.error = e] \in States
  /\ \A st \in States : \A e \in {"R", "S", "C"} : [st EXCEPT !.event = e] \in States
BY Params DEF State, States, Zero

\* A save stores a row, and may be counted as a loss
LEMMA SaveTypes ==
  ASSUME en \subseteq Sensors, sys \in [Sensors -> States], stored \in Rows,
         NEW e \in SUBSET Sensors, Save(e, sys'), sys' \in [Sensors -> States]
  PROVE  stored' \in Rows /\ refused' \in BOOLEAN /\ (losses' = losses \/ Lose)
<1>1. Row(e, sys') \in Rows /\ Row(en, sys) \in Rows
  BY DEF Row, Rows
<1> QED BY <1>1 DEF Save

LEMMA DaStep ==
  ASSUME DaTypes, DaService
  PROVE  DaTypes'
<1>1. todo # {} => Sensor \in Sensors /\ da[Sensor] \in States
  BY SensorPolled DEF DaTypes
<1> USE DEF DaTypes, sysVars, rowVars, netVars
<1>2. CASE StartPoll
  BY <1>2 DEF StartPoll
<1>3. CASE FindAlarm
  <2>1. PICK event \in {"S", "C"} : da' = [da EXCEPT ![Sensor].event = event]
    BY <1>3 DEF FindAlarm
  <2>2. da' \in [Sensors -> States]
    <3>1. todo # {} /\ [da[Sensor] EXCEPT !.event = event] \in States
      BY <1>1, <1>3, StatesAre DEF FindAlarm
    <3> QED BY <2>1, <3>1
  <2> QED BY <1>3, <2>2 DEF FindAlarm
<1>4. CASE LockState
  BY <1>4 DEF LockState
<1>5. CASE SaveAlarm
  <2>1. todo # {} /\ [da[Sensor] EXCEPT !.error = "R"] \in States
    BY <1>1, <1>5, StatesAre DEF SaveAlarm
  <2>2. sys' \in [Sensors -> States]
    BY <1>5, <2>1 DEF SaveAlarm
  <2>3. stored' \in Rows
    BY <1>5, <2>2, SaveTypes DEF SaveAlarm
  <2> QED BY <1>5, <2>2, <2>3 DEF SaveAlarm
<1>6. CASE SendAlarm
  BY <1>6 DEF SendAlarm
<1>7. CASE FindFault
  <2>1. PICK error \in {"R", "S"} : da' = [da EXCEPT ![Sensor].error = error]
    BY <1>7 DEF FindFault
  <2>2. da' \in [Sensors -> States]
    <3>1. todo # {} /\ [da[Sensor] EXCEPT !.error = error] \in States
      BY <1>1, <1>7, StatesAre DEF FindFault
    <3> QED BY <2>1, <3>1
  <2> QED BY <1>7, <2>2 DEF FindFault
<1>8. CASE SendFault \/ NoFault
  BY <1>8 DEF SendFault, NoFault
<1> QED BY <1>2, <1>3, <1>4, <1>5, <1>6, <1>7, <1>8 DEF DaService

LEMMA DaElseStep ==
  ASSUME Types, DataService \/ EventService \/ Expire \/ Environment
  PROVE  DaTypes'
<1> USE Params, StatesAre DEF Types, DaTypes, daVars, sysVars, rowVars, netVars, evVars
<1>0. NoStates \in [Sensors -> States]
  BY DEF NoStates
<1>1. CASE SendStop \/ DeliverAck
  BY <1>1 DEF SendStop, DeliverAck
<1>2. CASE \E s \in Sensors : DeleteSensor(s)
  <2>1. PICK s \in Sensors : DeleteSensor(s)
    BY <1>2
  <2>2. sys' = sys /\ Save(en \ {s}, sys') /\ en \ {s} \in SUBSET Sensors
    BY <2>1 DEF DeleteSensor
  <2>3. stored' \in Rows
    BY <2>2, SaveTypes
  <2> QED BY <2>1, <2>3 DEF DeleteSensor
<1>3. CASE SetSensors
  <2>1. PICK s \in Sensors : en' = en \cup {s} /\ Save(en \cup {s}, sys) /\ sys' = sys
    BY <1>3 DEF SetSensors
  <2>2. Save(en \cup {s}, sys') /\ en \cup {s} \in SUBSET Sensors
    BY <2>1
  <2>3. stored' \in Rows
    BY <2>1, <2>2, SaveTypes
  <2> QED BY <1>3, <2>1, <2>3 DEF SetSensors
<1>9. CASE DeleteAll
  BY <1>0, <1>9 DEF DeleteAll
<1>10. CASE ClearStates
  <2>1. sys' = sys /\ Save(en, sys')
    BY <1>10 DEF ClearStates
  <2>2. stored' \in Rows
    BY <2>1, SaveTypes
  <2> QED BY <1>10, <2>2 DEF ClearStates
<1>11. CASE FactoryReset
  <2>1. sys' = NoStates /\ Save({}, sys')
    BY <1>11 DEF FactoryReset
  <2>2. stored' \in Rows
    BY <1>0, <2>1, SaveTypes
  <2> QED BY <1>0, <1>11, <2>2 DEF FactoryReset
<1>12. CASE SaveOther
  BY <1>12 DEF SaveOther, Row, Rows
<1>4. CASE HandleEvent \/ SendReport \/ ClearAcks \/ GiveUp
  BY <1>4 DEF HandleEvent, SendReport, ClearAcks, GiveUp
<1>5. CASE ReceiveAck
  <2>1. sys' = sys \/ sys' = [sys EXCEPT ![0] = State(SlotSensor(at), "R", "R")]
    BY <1>5 DEF ReceiveAck, Saved
  <2>2. SlotSensor(at) \in Sensors
    BY <1>5, Slotted DEF ReceiveAck, EvTypes, InWait
  <2>3. sys' \in [Sensors -> States]
    BY <2>1, <2>2
  <2>4. UNCHANGED rowVars \/ Save(en, sys')
    BY <1>5 DEF ReceiveAck
  <2>5. stored' \in Rows
    BY <2>3, <2>4, SaveTypes
  <2> QED BY <1>5, <2>3, <2>5 DEF ReceiveAck
<1>6. CASE Expire \/ Disconnect \/ LogIn
  BY <1>6 DEF Expire, Disconnect, LogIn
<1>7. CASE Accept
  <2>1. Head(net) \in Reports
    BY <1>7 DEF Accept, NetTypes
  <2>2. told' \in [Sensors -> States]
    <3> DEFINE st == Head(net).st
    <3>1. /\ st \in States /\ st.type \in Sensors /\ told[st.type] \in States
          /\ st.event \in {"R", "S", "C"} /\ st.error \in {"R", "S"}
      BY <2>1 DEF Reports
    <3>2. /\ [told[st.type] EXCEPT !.event = st.event] \in States
          /\ [told[st.type] EXCEPT !.error = st.error] \in States
      BY <3>1
    <3>3. \/ told' = told
          \/ told' = [told EXCEPT ![st.type].event = st.event]
          \/ told' = [told EXCEPT ![st.type].error = st.error]
      BY <1>7 DEF Accept
    <3> HIDE DEF st
    <3> QED BY <3>1, <3>2, <3>3
  <2> QED BY <1>7, <2>2 DEF Accept
<1>8. CASE Restart
  <2>1. stored.sys \in [Sensors -> States] /\ stored.en \subseteq Sensors
    BY DEF Rows
  <2>2. da' \in [Sensors -> States]
    BY <1>8, <2>1 DEF Restart
  <2> QED BY <1>8, <2>1, <2>2 DEF Restart
<1> QED BY <1>1, <1>2, <1>3, <1>4, <1>5, <1>6, <1>7, <1>8, <1>9, <1>10, <1>11, <1>12
        DEF DataService, EventService, Environment

\* SendEvent puts a message into the queue if there is room
LEMMA MailSent ==
  ASSUME EvTypes, NEW id \in {"ALARM", "FAULT", "STOP", "TIMEOUT"}, NEW st \in States, SendEvent(id, st)
  PROVE  eq' \in Seq(Mail) /\ Len(eq') <= EqCap
<1>1. [id |-> id, st |-> st] \in Mail
  BY DEF Mail
<1>2. eq \in Seq(Mail) /\ Len(eq) <= EqCap /\ EqCap \in Nat
  BY Params DEF EvTypes
<1>3. CASE Len(eq) < EqCap
  <2>1. eq' = Append(eq, [id |-> id, st |-> st])
    BY <1>3 DEF SendEvent
  <2> QED BY <1>1, <1>2, <1>3, <2>1
<1>4. CASE ~(Len(eq) < EqCap)
  BY <1>2, <1>4 DEF SendEvent
<1> QED BY <1>3, <1>4

LEMMA EvFrame ==
  ASSUME EvTypes, eq' \in Seq(Mail) /\ Len(eq') <= EqCap, tmr' \in BOOLEAN,
         UNCHANGED <<conf, epc, at, tries>>
  PROVE  EvTypes'
BY DEF EvTypes, InWait

LEMMA EvStep ==
  ASSUME Types, Next
  PROVE  EvTypes'
<1> USE DEF Types, daVars, sysVars, rowVars, netVars, evVars
<1>1. eq \in Seq(Mail) /\ Len(eq) <= EqCap /\ tmr \in BOOLEAN /\ conf \in [Sensors -> Configs]
  BY DEF EvTypes
<1>2. CASE SendAlarm \/ SendFault
  <2>1. PICK id \in {"ALARM", "FAULT"} : SendEvent(id, da[Sensor])
    BY <1>2 DEF SendAlarm, SendFault
  <2>2. da[Sensor] \in States
    BY <1>2, SensorPolled DEF SendAlarm, SendFault, DaTypes
  <2>3. UNCHANGED <<conf, epc, at, tries, tmr>>
    BY <1>2 DEF SendAlarm, SendFault
  <2> QED BY <1>1, <2>1, <2>2, <2>3, MailSent, EvFrame
<1>3. CASE SendStop \/ Expire
  <2>1. UNCHANGED <<conf, epc, at, tries>> /\ tmr' \in BOOLEAN
    BY <1>1, <1>3 DEF SendStop, Expire
  <2> QED BY <1>1, <1>3, <2>1, StatesAre, MailSent, EvFrame DEF SendStop, Expire
<1>4. CASE StartPoll \/ FindAlarm \/ LockState \/ SaveAlarm \/ FindFault \/ NoFault \/ SetSensors
           \/ DeleteAll \/ ClearStates \/ FactoryReset \/ SaveOther \/ DeliverAck \/ (\E s \in Sensors : DeleteSensor(s))
  <2>1. UNCHANGED <<eq, tmr, conf, epc, at, tries>>
    BY <1>4 DEF StartPoll, FindAlarm, LockState, SaveAlarm, FindFault, NoFault, SetSensors,
                DeleteAll, ClearStates, FactoryReset, SaveOther, DeliverAck, DeleteSensor
  <2> QED BY <1>1, <2>1, EvFrame
<1>5. CASE Accept \/ Disconnect \/ LogIn
  <2>1. UNCHANGED <<eq, tmr, conf, epc, at, tries>>
    BY <1>5 DEF Accept, Disconnect, LogIn
  <2> QED BY <1>1, <2>1, EvFrame
<1>6. CASE HandleEvent
  <2>1. Head(eq) \in Mail /\ eq' = Tail(eq) /\ eq' \in Seq(Mail) /\ Len(eq') <= EqCap
    BY <1>1, <1>6, Params DEF HandleEvent
  <2>2. Head(eq).st \in States /\ Head(eq).st.type \in Sensors
    BY <2>1, StatesAre DEF Mail
  <2>3. Flagged(Head(eq)) \in [Sensors -> Configs]
    <3> DEFINE t == Head(eq).st.type
    <3>1. t \in Sensors /\ conf[t] \in Configs
      BY <1>1, <2>2
    <3> QED BY <1>1, <2>2, <3>1 DEF Flagged, Configs
  <2>4. Stopped \in [Sensors -> Configs]
    BY <1>1 DEF Stopped, Configs
  <2>5. conf' \in [Sensors -> Configs]
    BY <1>1, <1>6, <2>3, <2>4 DEF HandleEvent
  <2>6. /\ epc' \in {"idle", "scan"} /\ tmr' \in BOOLEAN /\ tries' = tries /\ tries \in 0 .. 2
        /\ at' = at \/ at' = 0
    BY <1>1, <1>6 DEF HandleEvent, EvTypes
  <2> QED BY <2>1, <2>5, <2>6 DEF EvTypes, InWait
<1>7. CASE SendReport
  <2> DEFINE due == {n \in Slots : n >= at /\ conf[SlotSensor(n)][SlotKind(n)]}
  <2>1. due # {} => Min(due) \in Slots
    BY Least, Slotted
  <2>2. UNCHANGED <<eq, conf, tries>> /\ tmr' \in BOOLEAN
    BY <1>1, <1>7 DEF SendReport
  <2>3. \/ epc' = "idle" /\ at' = 0
        \/ epc' = "sent" /\ at' \in Slots
    <3> HIDE DEF due
    <3>1. \/ due = {} /\ epc' = "idle" /\ at' = 0
          \/ due # {} /\ epc' = "sent" /\ at' = Min(due)
      BY <1>7 DEF SendReport, due
    <3> QED BY <2>1, <3>1
  <2> QED BY <1>1, <2>2, <2>3 DEF EvTypes, InWait
<1>8. CASE ClearAcks
  BY <1>8 DEF ClearAcks, EvTypes, InWait
<1>9. CASE ReceiveAck \/ GiveUp
  <2>1. UNCHANGED <<eq, tmr>> /\ epc = "wait" /\ at \in Slots /\ at \in Nat /\ SlotSensor(at) \in Sensors
        /\ SlotKind(at) \in {"error", "event"} /\ tries \in 0 .. 2
    BY <1>9, Slotted DEF ReceiveAck, GiveUp, EvTypes, InWait
  <2>2. conf' \in [Sensors -> Configs]
    <3>1. conf' = conf \/ conf' = [conf EXCEPT ![SlotSensor(at)][SlotKind(at)] = FALSE]
      BY <1>9 DEF ReceiveAck, GiveUp
    <3>2. /\ [conf EXCEPT ![SlotSensor(at)]["event"] = FALSE] \in [Sensors -> Configs]
          /\ [conf EXCEPT ![SlotSensor(at)]["error"] = FALSE] \in [Sensors -> Configs]
      BY <1>1, <2>1 DEF Configs
    <3> QED BY <1>1, <2>1, <3>1, <3>2
  <2>3. \/ epc' = "scan" /\ at' = at + 1 /\ tries' = 0
        \/ epc' = epc /\ at' = at /\ tries' \in 0 .. 2
    BY <1>9, <2>1 DEF ReceiveAck, GiveUp, EndWait
  <2>4. at' = 0 \/ {at', at' - 1} \cap Slots # {}
    BY <2>1, <2>3
  <2> QED BY <1>1, <2>1, <2>2, <2>3, <2>4 DEF EvTypes, InWait
<1>10. CASE Restart
  <2>1. conf' \in [Sensors -> Configs]
    <3>1. Quiet \in Configs
      BY StatesAre DEF Quiet, Configs
    <3>2. \A s \in Sensors : [event |-> TRUE, error |-> FALSE, st |-> stored.sys[s]] \in Configs
      BY DEF DaTypes, Rows, Configs
    <3> QED BY <1>10, <3>1, <3>2 DEF Restart
  <2> QED BY <1>10, <2>1, Params DEF Restart, EvTypes, InWait
<1> QED BY <1>2, <1>3, <1>4, <1>5, <1>6, <1>7, <1>8, <1>9, <1>10
        DEF Next, DaService, DataService, EventService, Environment

\* The steps that touch neither the packets nor the wait for one
Aside == /\ UNCHANGED <<net, acks, ackq, mySeq, epc, at, told, conf>>
         /\ losses' = losses \/ Lose

LEMMA AsideSteps ==
  ASSUME Next
  PROVE  Aside \/ DeliverAck \/ EventService \/ Accept \/ Disconnect \/ Restart
<1> USE DEF Aside, evVars, netVars, Save
<1>1. CASE StartPoll \/ LockState \/ SaveAlarm \/ NoFault
  BY <1>1 DEF StartPoll, LockState, SaveAlarm, NoFault
<1>2. CASE FindAlarm \/ FindFault
  BY <1>2 DEF FindAlarm, FindFault
<1>3. CASE SendAlarm \/ SendFault
  BY <1>3 DEF SendAlarm, SendFault
<1>4. CASE SetSensors \/ SendStop
  BY <1>4 DEF SetSensors, SendStop
<1>5. CASE \E s \in Sensors : DeleteSensor(s)
  BY <1>5 DEF DeleteSensor
<1>6. CASE Expire \/ LogIn
  BY <1>6 DEF Expire, LogIn
<1>7. CASE DeleteAll \/ ClearStates
  BY <1>7 DEF DeleteAll, ClearStates
<1>8. CASE FactoryReset \/ SaveOther
  BY <1>8 DEF FactoryReset, SaveOther
<1> QED BY <1>1, <1>2, <1>3, <1>4, <1>5, <1>6, <1>7, <1>8
        DEF Next, DaService, DataService, Environment

LEMMA AckSent ==
  ASSUME NetTypes, net # <<>>
  PROVE  /\ Head(net) \in Reports /\ Tail(net) \in Seq(Reports) /\ Len(Tail(net)) = Len(net) - 1
         /\ LET pid == Pid(Head(net).kind, Head(net).st) IN
              pid # "00" => [sn |-> Head(net).sn, pid |-> pid] \in Acks
<1>1. Head(net) \in Reports /\ Tail(net) \in Seq(Reports) /\ Len(Tail(net)) = Len(net) - 1
  BY DEF NetTypes
<1>2. Pid(Head(net).kind, Head(net).st) \in {"0D", "0E", "0F", "10", "00"}
  BY DEF Pid
<1> QED BY <1>1, <1>2 DEF Reports, Acks

\* What is under way, and how much of it, after a step
LEMMA NetStep ==
  ASSUME Types, Next
  PROVE  NetTypes' /\ UnderWay'
<1>1. /\ Len(net) \in Nat /\ Len(acks) \in Nat /\ Len(ackq) \in Nat /\ losses \in Nat
      /\ net \in Seq(Reports) /\ acks \in Seq(Acks) /\ ackq \in Seq(Acks) /\ mySeq \in SeqNos
  BY Params DEF Types, NetTypes, Bounds
<1> USE DEF Types, daVars, sysVars, netVars, evVars, Lose
<1>2. CASE Aside
  <2>1. /\ UNCHANGED <<net, acks, ackq, mySeq, epc>>
        /\ losses' = losses \/ losses' = losses + 1
    BY <1>2 DEF Aside
  <2> QED BY <1>1, <2>1 DEF NetTypes, UnderWay, InWait
<1>3. CASE DeliverAck
  <2>1. /\ acks' \in Seq(Acks) /\ Len(acks') = Len(acks) - 1
        /\ ackq' \in Seq(Acks) /\ Len(ackq') <= 5 /\ Len(ackq') <= Len(ackq) + 1 /\ Len(ackq') \in Nat
    BY <1>1, <1>3 DEF DeliverAck, NetTypes
  <2>2. UNCHANGED <<net, mySeq, epc, losses>>
    BY <1>3 DEF DeliverAck
  <2> QED BY <1>1, <2>1, <2>2 DEF NetTypes, UnderWay, InWait
<1>4. CASE HandleEvent
  <2>1. epc = "idle" /\ epc' \in {"idle", "scan"} /\ UNCHANGED <<net, acks, ackq, mySeq, losses>>
    BY <1>4 DEF HandleEvent
  <2> QED BY <1>1, <2>1 DEF NetTypes, UnderWay, InWait
<1>5. CASE SendReport
  <2> DEFINE due == {n \in Slots : n >= at /\ conf[SlotSensor(n)][SlotKind(n)]}
             m == Min(due)
             report == [sn |-> Fresh, kind |-> SlotKind(m), st |-> conf[SlotSensor(m)].st]
  <2>1. epc = "scan" /\ UNCHANGED <<acks, ackq, losses>>
    BY <1>5 DEF SendReport
  <2>2. CASE due = {}
    <3>1. epc' = "idle" /\ UNCHANGED <<net, mySeq>>
      BY <1>5, <2>2 DEF SendReport
    <3> QED BY <1>1, <2>1, <3>1 DEF NetTypes, UnderWay, InWait
  <2>3. CASE due # {}
    <3>1. m \in Slots
      BY <2>3, Least, Slotted
    <3>2. Fresh \in SeqNos
      BY <2>1, FreshIsNew DEF InWait
    <3>3. conf[SlotSensor(m)].st \in States /\ SlotKind(m) \in {"error", "event"}
      <4> HIDE DEF m
      <4> QED BY <3>1, Slotted DEF EvTypes, Configs
    <3>4. report \in Reports
      <4> HIDE DEF m
      <4> QED BY <3>2, <3>3 DEF Reports
    <3>5. /\ epc' = "sent" /\ mySeq' = Fresh
          /\ net' = IF Len(net) < NetCap THEN Append(net, report) ELSE net
      BY <1>5, <2>3 DEF SendReport
    <3> HIDE DEF report, m, due
    <3>6. net' \in Seq(Reports) /\ Len(net') <= NetCap /\ Len(net') <= Len(net) + 1 /\ Len(net') \in Nat
      BY <1>1, <3>4, <3>5, Params DEF NetTypes
    <3> QED BY <1>1, <2>1, <3>2, <3>5, <3>6 DEF NetTypes, UnderWay, InWait
  <2> QED BY <2>2, <2>3
<1>6. CASE ClearAcks
  BY <1>1, <1>6 DEF ClearAcks, NetTypes, UnderWay, InWait
<1>7. CASE ReceiveAck
  <2>1. /\ ackq' \in Seq(Acks) /\ Len(ackq') = Len(ackq) - 1 /\ UNCHANGED <<net, acks, mySeq>>
        /\ epc = "wait" /\ epc' \in {"wait", "scan"}
        /\ losses' = losses \/ losses' = losses + 1
    BY <1>1, <1>7 DEF ReceiveAck, EndWait, Save
  <2> QED BY <1>1, <2>1 DEF NetTypes, UnderWay, InWait
<1>8. CASE GiveUp
  <2>1. /\ ackq = <<>> /\ UNCHANGED <<net, acks, ackq, mySeq>> /\ epc = "wait" /\ epc' = "scan"
        /\ \/ net = <<>> /\ acks = <<>> /\ losses' = losses
           \/ losses' = losses + 1
    BY <1>8 DEF GiveUp, EndWait
  <2> QED BY <1>1, <2>1 DEF NetTypes, UnderWay, InWait
<1>9. CASE Accept
  <2>1. net' \in Seq(Reports) /\ Len(net') = Len(net) - 1
    BY <1>9, AckSent DEF Accept
  <2>2. acks' = acks \/ \E a \in Acks : acks' = Append(acks, a)
    BY <1>9, AckSent DEF Accept
  <2>3. acks' \in Seq(Acks) /\ Len(acks') <= Len(acks) + 1 /\ Len(acks') \in Nat
    BY <1>1, <2>2
  <2>4. UNCHANGED <<ackq, mySeq, epc, losses>>
    BY <1>9 DEF Accept
  <2>5. Len(net) \in Nat /\ Len(net) <= NetCap /\ NetCap \in Nat
    BY <1>1, Params DEF NetTypes
  <2>6. NetTypes'
    BY <1>1, <2>1, <2>3, <2>4, <2>5 DEF NetTypes
  <2>7. UnderWay'
    <3>1. Len(ackq) \in Nat /\ Len(acks) \in Nat
      BY <1>1 DEF NetTypes
    <3>2. InWait' = InWait
      BY <2>4 DEF InWait
    <3>3. Len(net') + Len(acks') + Len(ackq) <= Len(net) + Len(acks) + Len(ackq)
      BY <2>1, <2>3, <2>5, <3>1
    <3> QED BY <1>1, <2>1, <2>3, <2>4, <2>5, <3>1, <3>2, <3>3 DEF UnderWay
  <2> QED BY <2>6, <2>7
<1>10. CASE Disconnect
  <2>1. PICK k \in 0 .. Len(net) : net' = SubSeq(net, k + 1, Len(net))
    BY <1>10 DEF Disconnect
  <2>2. PICK j \in 0 .. Len(acks) : acks' = SubSeq(acks, 1, j)
    BY <1>10 DEF Disconnect
  <2>3. net' \in Seq(Reports) /\ Len(net') <= Len(net) /\ Len(net') \in Nat
    BY <1>1, <2>1
  <2>4. acks' \in Seq(Acks) /\ Len(acks') <= Len(acks) /\ Len(acks') \in Nat
    BY <1>1, <2>2
  <2>5. UNCHANGED <<ackq, mySeq, epc>> /\ losses' = losses + 1
    BY <1>10 DEF Disconnect
  <2> QED BY <1>1, <2>3, <2>4, <2>5, Params DEF NetTypes, UnderWay, InWait
<1>11. CASE Restart
  BY <1>1, <1>11, Params DEF Restart, NetTypes, UnderWay, InWait
<1> QED BY AsideSteps, <1>2, <1>3, <1>4, <1>5, <1>6, <1>7, <1>8, <1>9, <1>10, <1>11
        DEF EventService

Rest == <<work, changes, overflow, deleted, restarted, stale>>

LEMMA LossesStep ==
  ASSUME Bounds, losses' = losses \/ Lose
  PROVE  losses' \in 0 .. MaxLosses
BY Params DEF Bounds, Lose

LEMMA OrdersStep ==
  ASSUME Bounds, Order
  PROVE  orders' \in 0 .. MaxOrders
BY Params DEF Bounds, Order

\* A save may be refused, which counts as a loss
LEMMA SaveBounds ==
  ASSUME Bounds, NEW e, NEW f, Save(e, f)
  PROVE  losses' \in 0 .. MaxLosses /\ refused' \in BOOLEAN
<1>1. losses' = losses \/ Lose
  BY DEF Save
<1> QED BY <1>1, LossesStep DEF Save

LEMMA BoundsStep ==
  ASSUME Types, Next
  PROVE  Bounds'
<1>0. Bounds
  BY DEF Types
<1> USE Params DEF Bounds, netVars, history, sysVars, rowVars
<1>1. CASE StartPoll \/ LockState \/ NoFault
  BY <1>0, <1>1 DEF StartPoll, LockState, NoFault
<1>2. CASE FindAlarm
  BY <1>0, <1>2 DEF FindAlarm, Change
<1>3. CASE FindFault
  BY <1>0, <1>3 DEF FindFault, Change
<1>4. CASE SendAlarm \/ SendFault \/ SendStop \/ Expire
  <2>1. overflow' \in BOOLEAN
    BY <1>0, <1>4 DEF SendAlarm, SendFault, SendStop, Expire, SendEvent
  <2> QED BY <1>0, <1>4, <2>1 DEF SendAlarm, SendFault, SendStop, Expire
<1>5. CASE SaveAlarm
  <2>1. losses' \in 0 .. MaxLosses /\ refused' \in BOOLEAN
    <3>1. \E f : Save(en, f)
      BY <1>5 DEF SaveAlarm
    <3> QED BY <1>0, <3>1, SaveBounds
  <2> QED BY <1>0, <1>5, <2>1 DEF SaveAlarm
<1>6. CASE SetSensors
  <2>1. orders' \in 0 .. MaxOrders /\ UNCHANGED Rest /\ wiped' = wiped
    BY <1>0, <1>6, OrdersStep DEF SetSensors, Rest
  <2>2. losses' \in 0 .. MaxLosses /\ refused' \in BOOLEAN
    BY <1>0, <1>6, SaveBounds DEF SetSensors
  <2> QED BY <1>0, <2>1, <2>2 DEF Rest
<1>7. CASE \E s \in Sensors : DeleteSensor(s)
  <2>1. /\ orders' \in 0 .. MaxOrders /\ wiped' = wiped /\ deleted' = TRUE
        /\ UNCHANGED <<work, changes, overflow, restarted, stale>>
    BY <1>0, <1>7, OrdersStep DEF DeleteSensor
  <2>2. losses' \in 0 .. MaxLosses /\ refused' \in BOOLEAN
    BY <1>0, <1>7, SaveBounds DEF DeleteSensor
  <2> QED BY <1>0, <2>1, <2>2
<1>8. CASE DeleteAll
  <2>1. orders' \in 0 .. MaxOrders
    BY <1>0, <1>8, OrdersStep DEF DeleteAll
  <2> QED BY <1>0, <1>8, <2>1 DEF DeleteAll
<1>9. CASE ClearStates
  <2>1. losses' \in 0 .. MaxLosses /\ refused' \in BOOLEAN
    BY <1>0, <1>9, SaveBounds DEF ClearStates
  <2> QED BY <1>0, <1>9, <2>1 DEF ClearStates
<1>10. CASE FactoryReset
  <2>1. orders' \in 0 .. MaxOrders
    BY <1>0, <1>10, OrdersStep DEF FactoryReset
  <2>2. losses' \in 0 .. MaxLosses /\ refused' \in BOOLEAN
    BY <1>0, <1>10, SaveBounds DEF FactoryReset
  <2> QED BY <1>0, <1>10, <2>1, <2>2 DEF FactoryReset
<1>11. CASE SaveOther \/ DeliverAck
  BY <1>0, <1>11 DEF SaveOther, DeliverAck
<1>12. CASE HandleEvent \/ SendReport \/ ClearAcks
  BY <1>0, <1>12 DEF HandleEvent, SendReport, ClearAcks
<1>13. CASE ReceiveAck
  <2>1. losses' \in 0 .. MaxLosses /\ refused' \in BOOLEAN
    <3>1. UNCHANGED <<losses, refused>> \/ \E f : Save(en, f)
      BY <1>13 DEF ReceiveAck
    <3> QED BY <1>0, <3>1, SaveBounds
  <2> QED BY <1>0, <1>13, <2>1 DEF ReceiveAck
<1>14. CASE GiveUp
  <2>1. losses' \in 0 .. MaxLosses
    BY <1>0, <1>14, LossesStep DEF GiveUp
  <2> QED BY <1>0, <1>14, <2>1 DEF GiveUp
<1>15. CASE Accept \/ LogIn
  BY <1>0, <1>15 DEF Accept, LogIn
<1>16. CASE Disconnect
  <2>1. losses' \in 0 .. MaxLosses
    BY <1>0, <1>16, LossesStep DEF Disconnect
  <2> QED BY <1>0, <1>16, <2>1 DEF Disconnect
<1>17. CASE Restart
  <2>1. orders' \in 0 .. MaxOrders
    BY <1>0, <1>17, OrdersStep DEF Restart
  <2>2. stale' \in BOOLEAN /\ refused' = FALSE /\ wiped' = {}
    BY <1>0, <1>17 DEF Restart
  <2> QED BY <1>0, <1>17, <2>1, <2>2 DEF Restart
<1> QED BY <1>1, <1>2, <1>3, <1>4, <1>5, <1>6, <1>7, <1>8, <1>9, <1>10, <1>11, <1>12, <1>13,
           <1>14, <1>15, <1>16, <1>17
        DEF Next, DaService, DataService, EventService, Environment

-----------------------------------------------------------------------------
(* The report that is waited for                                           *)

Slot == SlotSensor(at)
Kind == SlotKind(at)

\* The platform has accepted the flag that is being reported
Accepted == IF Kind = "event" THEN told[conf[Slot].st.type].event = conf[Slot].st.event
                              ELSE told[conf[Slot].st.type].error = conf[Slot].st.error

NoAck == /\ \A i \in 1 .. Len(acks) : acks[i].sn # mySeq
         /\ \A i \in 1 .. Len(ackq) : ackq[i].sn # mySeq

\* The report is the last one under way, and not acknowledged
Reported == /\ net # <<>> /\ NoAck
            /\ \A i \in 1 .. Len(net) - 1 : net[i].sn # mySeq
            /\ net[Len(net)] = [sn |-> mySeq, kind |-> Kind, st |-> conf[Slot].st]

\* The report is lost, and will not be acknowledged
Lost == NoAck /\ \A i \in 1 .. Len(net) : net[i].sn # mySeq

ReportInv == InWait => Reported \/ Lost \/ (net = <<>> /\ Accepted)

LEMMA Numbers ==
  ASSUME NetTypes
  PROVE  /\ \A i \in 1 .. Len(net) : net[i] \in Reports
         /\ Len(net) \in Nat /\ Len(acks) \in Nat /\ Len(ackq) \in Nat
BY DEF NetTypes

LEMMA SendReportInv ==
  ASSUME Types, SendReport
  PROVE  ReportInv'
<1> DEFINE due == {n \in Slots : n >= at /\ conf[SlotSensor(n)][SlotKind(n)]}
           m == Min(due)
           report == [sn |-> Fresh, kind |-> SlotKind(m), st |-> conf[SlotSensor(m)].st]
<1>1. CASE due = {}
  BY <1>1 DEF SendReport, ReportInv, InWait
<1>2. CASE due # {}
  <2>1. /\ at' = m /\ mySeq' = Fresh /\ UNCHANGED <<conf, acks, ackq>>
        /\ net' = IF Len(net) < NetCap THEN Append(net, report) ELSE net
    BY <1>2 DEF SendReport
  <2>2. /\ \A i \in 1 .. Len(net) : net[i].sn # Fresh
        /\ \A i \in 1 .. Len(acks) : acks[i].sn # Fresh
        /\ \A i \in 1 .. Len(ackq) : ackq[i].sn # Fresh
    <3>1. ~InWait
      BY DEF SendReport, InWait
    <3>2. DOMAIN net = 1 .. Len(net) /\ DOMAIN acks = 1 .. Len(acks) /\ DOMAIN ackq = 1 .. Len(ackq)
      BY DEF Types, NetTypes
    <3> QED BY <3>1, <3>2, FreshIsNew
  <2>3. NoAck'
    BY <2>1, <2>2 DEF NoAck
  <2>4. report = [sn |-> mySeq, kind |-> Kind, st |-> conf[Slot].st]'
    BY <2>1 DEF Kind, Slot
  <2> HIDE DEF due, m, report
  <2>5. net \in Seq(Reports) /\ Len(net) \in Nat
    BY DEF Types, NetTypes
  <2>6. CASE Len(net) < NetCap
    <3>1. net' = Append(net, report)
      BY <2>1, <2>6
    <3>2. /\ Len(net') = Len(net) + 1 /\ net'[Len(net')] = report /\ net' # <<>>
          /\ \A i \in 1 .. Len(net') - 1 : net'[i] = net[i]
      BY <2>5, <3>1
    <3>3. Reported'
      BY <2>1, <2>2, <2>3, <2>4, <2>5, <3>2 DEF Reported
    <3> QED BY <3>3 DEF ReportInv
  <2>7. CASE ~(Len(net) < NetCap)
    <3>1. Lost'
      BY <2>1, <2>2, <2>3, <2>7 DEF Lost
    <3> QED BY <3>1 DEF ReportInv
  <2> QED BY <2>6, <2>7
<1> QED BY <1>1, <1>2

LEMMA AcceptInv ==
  ASSUME Types, ReportInv, Accept
  PROVE  ReportInv'
<1> SUFFICES ASSUME InWait PROVE (Reported \/ Lost \/ (net = <<>> /\ Accepted))'
  BY DEF ReportInv, InWait, Accept, evVars
<1>1. /\ net # <<>> /\ net' = Tail(net) /\ UNCHANGED <<mySeq, ackq, conf, at>>
      /\ Kind' = Kind /\ Slot' = Slot
  BY DEF Accept, evVars, Kind, Slot
<1>2. /\ Len(net) \in Nat \ {0} /\ Len(net') = Len(net) - 1 /\ Head(net) = net[1]
      /\ \A i \in 1 .. Len(net) - 1 : net'[i] = net[i + 1]
  BY <1>1 DEF Types, NetTypes
<1> DEFINE r == Head(net)
           a == [sn |-> r.sn, pid |-> Pid(r.kind, r.st)]
<1>3. acks' = acks \/ acks' = Append(acks, a)
  BY DEF Accept
<1>4. ASSUME r.sn # mySeq, NoAck PROVE NoAck'
  <2>1. acks \in Seq(Acks) /\ Len(acks) \in Nat
    BY DEF Types, NetTypes
  <2>2. a.sn # mySeq
    BY <1>4
  <2> HIDE DEF a
  <2>3. \A i \in 1 .. Len(acks') : acks'[i].sn # mySeq
    BY <1>3, <1>4, <2>1, <2>2 DEF NoAck
  <2> QED BY <1>1, <1>4, <2>3 DEF NoAck
<1>5. CASE Lost
  <2>1. r.sn # mySeq
    BY <1>2, <1>5 DEF Lost
  <2>2. \A i \in 1 .. Len(net') : net'[i].sn # mySeq
    BY <1>2, <1>5 DEF Lost
  <2> QED BY <1>1, <1>4, <1>5, <2>1, <2>2 DEF Lost
<1>6. CASE Reported /\ Len(net) > 1
  <2>1. r.sn # mySeq /\ net' # <<>>
    BY <1>2, <1>6 DEF Reported
  <2>2. /\ net'[Len(net')] = [sn |-> mySeq, kind |-> Kind, st |-> conf[Slot].st]
        /\ \A i \in 1 .. Len(net') - 1 : net'[i].sn # mySeq
    BY <1>2, <1>6 DEF Reported
  <2> QED BY <1>1, <1>4, <1>6, <2>1, <2>2 DEF Reported
<1>7. CASE Reported /\ Len(net) = 1
  <2>1. r = [sn |-> mySeq, kind |-> Kind, st |-> conf[Slot].st] /\ net' = <<>>
    BY <1>1, <1>2, <1>7 DEF Reported, Types, NetTypes
  <2>2. r.kind = Kind /\ r.st = conf[Slot].st
    BY <2>1
  <2>3. CASE Pid(r.kind, r.st) = "00"
    <3>1. acks' = acks
      BY <2>3 DEF Accept
    <3>2. NoAck'
      BY <1>1, <1>7, <3>1 DEF Reported, NoAck
    <3>3. Len(net') = 0
      BY <2>1
    <3> QED BY <3>2, <3>3 DEF Lost
  <2>4. CASE Pid(r.kind, r.st) # "00"
    <3> DEFINE st == conf[Slot].st
    <3>1. told' = IF Kind = "event" THEN [told EXCEPT ![st.type].event = st.event]
                                    ELSE [told EXCEPT ![st.type].error = st.error]
      BY <2>2, <2>4 DEF Accept
    <3>2. st \in States /\ st.type \in Sensors
      <4>1. Slot \in Sensors
        BY Slotted DEF Types, EvTypes, Slot
      <4> QED BY <4>1, StatesAre DEF Types, EvTypes, Configs
    <3>3. told \in [Sensors -> States] /\ told[st.type] \in States
      BY <3>2 DEF Types, DaTypes
    <3>4. conf'[Slot].st = st
      BY <1>1
    <3> HIDE DEF st
    <3>5. IF Kind = "event" THEN told'[st.type].event = st.event ELSE told'[st.type].error = st.error
      BY <3>1, <3>2, <3>3 DEF States
    <3>6. Accepted'
      BY <1>1, <3>4, <3>5 DEF Accepted
    <3> QED BY <2>1, <3>6
  <2> QED BY <2>3, <2>4
<1> QED BY <1>1, <1>2, <1>5, <1>6, <1>7 DEF ReportInv

LEMMA DisconnectInv ==
  ASSUME Types, ReportInv, Disconnect
  PROVE  ReportInv'
<1> SUFFICES ASSUME InWait PROVE (Reported \/ Lost \/ (net = <<>> /\ Accepted))'
  BY DEF ReportInv, InWait, Disconnect, evVars
<1>1. /\ UNCHANGED <<mySeq, ackq, conf, at, told>> /\ Kind' = Kind /\ Slot' = Slot
      /\ Accepted' = Accepted
  BY DEF Disconnect, evVars, Kind, Slot, Accepted
<1>2. PICK k \in 0 .. Len(net) : net' = SubSeq(net, k + 1, Len(net))
  BY DEF Disconnect
<1>3. PICK j \in 0 .. Len(acks) : acks' = SubSeq(acks, 1, j)
  BY DEF Disconnect
<1>4. /\ Len(net) \in Nat /\ Len(net') = Len(net) - k
      /\ \A i \in 1 .. Len(net') : net'[i] = net[i + k]
  BY <1>2 DEF Types, NetTypes
<1>5. Len(acks) \in Nat /\ Len(acks') = j /\ \A i \in 1 .. j : acks'[i] = acks[i]
  BY <1>3 DEF Types, NetTypes
<1>6. NoAck => NoAck'
  BY <1>1, <1>5 DEF NoAck
<1>7. CASE Lost \/ (Reported /\ Len(net') = 0)
  <2>1. \A i \in 1 .. Len(net') : net'[i].sn # mySeq
    <3>1. CASE Len(net') = 0
      BY <3>1
    <3>2. CASE Lost
      <4>1. \A i \in 1 .. Len(net') : i + k \in 1 .. Len(net)
        BY <1>4
      <4> QED BY <1>4, <3>2, <4>1 DEF Lost
    <3> QED BY <1>7, <3>1, <3>2
  <2>2. NoAck'
    BY <1>6, <1>7 DEF Lost, Reported
  <2> QED BY <1>1, <2>1, <2>2 DEF Lost
<1>8. CASE Reported /\ Len(net') # 0
  <2>1. net' # <<>> /\ net'[Len(net')] = net[Len(net)]
    BY <1>4, <1>8
  <2>2. \A i \in 1 .. Len(net') - 1 : net'[i].sn # mySeq
    <3> SUFFICES ASSUME NEW i \in 1 .. Len(net') - 1 PROVE net'[i].sn # mySeq
      OBVIOUS
    <3>1. i \in 1 .. Len(net') /\ i + k \in 1 .. Len(net) - 1
      BY <1>4
    <3> QED BY <1>4, <1>8, <3>1 DEF Reported
  <2> QED BY <1>1, <1>6, <1>8, <2>1, <2>2 DEF Reported
<1>9. CASE net = <<>> /\ Accepted
  <2>1. net' = <<>>
    BY <1>2, <1>9
  <2> QED BY <1>1, <1>9, <2>1
<1> QED BY <1>7, <1>8, <1>9 DEF ReportInv

LEMMA ReportStep ==
  ASSUME Types, ReportInv, Next
  PROVE  ReportInv'
<1> USE DEF ReportInv, evVars, netVars
<1>1. CASE Aside
  BY <1>1 DEF Aside, InWait, Reported, Lost, NoAck, Accepted, Kind, Slot
<1>2. CASE HandleEvent
  BY <1>2 DEF HandleEvent, InWait
<1>3. CASE SendReport
  BY <1>3, SendReportInv
<1>4. CASE ClearAcks
  <2>1. ackq' = <<>> /\ UNCHANGED <<net, acks, mySeq, conf, at, told>> /\ InWait
    BY <1>4 DEF ClearAcks, InWait
  <2>2. NoAck => NoAck'
    BY <2>1 DEF NoAck
  <2> QED BY <2>1, <2>2 DEF Reported, Lost, Accepted, Kind, Slot
<1>5. CASE ReceiveAck
  <2>1. SUFFICES ASSUME epc' = "wait" PROVE ReportInv'
    BY <1>5 DEF ReceiveAck, EndWait, InWait
  <2>2. /\ UNCHANGED <<net, acks, mySeq, conf, at, told>> /\ InWait
        /\ ackq # <<>> /\ ackq' = Tail(ackq)
    BY <1>5, <2>1 DEF ReceiveAck, EndWait, InWait
  <2>3. NoAck => NoAck'
    BY <2>2 DEF NoAck, Types, NetTypes
  <2> QED BY <2>2, <2>3 DEF Reported, Lost, Accepted, Kind, Slot
<1>6. CASE GiveUp
  BY <1>6 DEF GiveUp, EndWait, InWait
<1>7. CASE DeliverAck
  <2>1. /\ UNCHANGED <<net, mySeq, conf, at, told, epc>> /\ acks # <<>> /\ acks' = Tail(acks)
        /\ ackq' = IF Len(ackq) < 5 THEN Append(ackq, Head(acks)) ELSE ackq
    BY <1>7 DEF DeliverAck
  <2>2. acks \in Seq(Acks) /\ ackq \in Seq(Acks)
    BY DEF Types, NetTypes
  <2>3. NoAck => NoAck'
    BY <2>1, <2>2 DEF NoAck
  <2> QED BY <2>1, <2>3 DEF InWait, Reported, Lost, Accepted, Kind, Slot
<1>8. CASE Accept
  BY <1>8, AcceptInv
<1>9. CASE Disconnect
  BY <1>9, DisconnectInv
<1>10. CASE Restart
  BY <1>10 DEF Restart, InWait
<1> QED BY AsideSteps, <1>1, <1>2, <1>3, <1>4, <1>5, <1>6, <1>7, <1>8, <1>9, <1>10
        DEF EventService

-----------------------------------------------------------------------------
(* The specification                                                       *)

RInv == Types /\ ReportInv

LEMMA InitRInv ==
  ASSUME Init
  PROVE  RInv
<1>1. DaTypes
  BY StatesAre DEF Init, DaTypes, Row, Rows
<1>2. EvTypes
  <2>1. conf \in [Sensors -> Configs]
    BY StatesAre DEF Init, Quiet, Configs
  <2> QED BY <2>1, Params DEF Init, EvTypes, InWait
<1>3. NetTypes /\ UnderWay
  BY Params DEF Init, NetTypes, UnderWay, InWait
<1>4. Bounds
  <2>1. changes = 0 /\ losses = 0 /\ orders = 0
    BY DEF Init
  <2>2. /\ work = FALSE /\ overflow = FALSE /\ deleted = FALSE /\ restarted = FALSE
        /\ stale = FALSE /\ refused = FALSE /\ wiped = {}
    BY DEF Init
  <2>3. work \in BOOLEAN /\ {overflow, deleted, restarted, stale, refused} \subseteq BOOLEAN
    BY <2>2
  <2> QED BY <2>1, <2>2, <2>3, Params DEF Bounds
<1>5. ReportInv
  BY DEF Init, ReportInv, InWait
<1> QED BY <1>1, <1>2, <1>3, <1>4, <1>5 DEF RInv, Types

LEMMA RInvStep ==
  ASSUME RInv, [Next]_vars
  PROVE  RInv'
<1>1. CASE Next
  <2>1. DaTypes'
    BY <1>1, DaStep, DaElseStep DEF RInv, Types, Next
  <2> QED BY <1>1, <2>1, EvStep, NetStep, BoundsStep, ReportStep DEF RInv, Types
<1>2. CASE UNCHANGED vars
  BY <1>2 DEF vars, RInv, Types, DaTypes, EvTypes, NetTypes, Bounds, UnderWay, InWait, ReportInv,
              Reported, Lost, NoAck, Accepted, Kind, Slot
<1> QED BY <1>1, <1>2

LEMMA RInvAlways == Spec => []RInv
<1>1. Init => RInv
  BY InitRInv
<1>2. RInv /\ [Next]_vars => RInv'
  BY RInvStep
<1> QED BY <1>1, <1>2, PTL DEF Spec

\* The states, the messages, the packets and the numbers they carry keep to
\* their kinds and the queues to their sizes, for any sensors and bounds.
THEOREM TypeCorrect == Spec => []TypeOK
<1>1. RInv => TypeOK
  <2> SUFFICES ASSUME RInv PROVE TypeOK
    OBVIOUS
  <2>1. /\ Range(eq) \subseteq Mail /\ Range(ackq) \subseteq Acks /\ Range(acks) \subseteq Acks
        /\ Range(net) \subseteq Reports
    BY DEF RInv, Types, EvTypes, NetTypes, Range
  <2> QED BY <2>1 DEF RInv, Types, DaTypes, EvTypes, NetTypes, Bounds, Reports, Configs, TypeOK
<1> QED BY <1>1, RInvAlways, PTL

\* An acknowledgement with the number of the report can only come from the
\* platform having accepted that report.
LEMMA AckStepIsForState ==
  ASSUME RInv, [Next]_vars, epc = "wait", epc' = "scan", NEW s \in Sensors
  PROVE  LET st == conf[s].st IN
           /\ conf[s].event /\ ~conf'[s].event => told[st.type].event = st.event
           /\ conf[s].error /\ ~conf'[s].error => told[st.type].error = st.error
<1>1. CASE ReceiveAck /\ Answers(Head(ackq), Kind, conf[Slot].st)
  <2>1. ackq # <<>> /\ conf' = [conf EXCEPT ![Slot][Kind] = FALSE] /\ Head(ackq).sn = mySeq
    BY <1>1 DEF ReceiveAck, Answers, Kind, Slot
  <2>2. ~NoAck
    BY <2>1 DEF NoAck, RInv, Types, NetTypes
  <2>3. Accepted
    BY <2>2 DEF RInv, ReportInv, Reported, Lost, InWait
  <2>4. Slot \in Sensors /\ Kind \in {"error", "event"}
    BY Slotted DEF RInv, Types, EvTypes, InWait, Slot, Kind
  <2>5. conf[s] \in Configs /\ conf[Slot] \in Configs /\ conf \in [Sensors -> Configs]
    BY <2>4 DEF RInv, Types, EvTypes
  <2>6. CASE Kind = "event"
    <3>1. conf'[s] = IF s = Slot THEN [conf[s] EXCEPT !.event = FALSE] ELSE conf[s]
      BY <2>1, <2>4, <2>5, <2>6
    <3> QED BY <2>3, <2>5, <2>6, <3>1 DEF Accepted, Configs
  <2>7. CASE Kind = "error"
    <3>1. conf'[s] = IF s = Slot THEN [conf[s] EXCEPT !.error = FALSE] ELSE conf[s]
      BY <2>1, <2>4, <2>5, <2>7
    <3> QED BY <2>3, <2>5, <2>7, <3>1 DEF Accepted, Configs
  <2> QED BY <2>4, <2>6, <2>7
<1>2. CASE ~(ReceiveAck /\ Answers(Head(ackq), Kind, conf[Slot].st))
  <2>1. ReceiveAck \/ GiveUp \/ UNCHANGED <<epc, conf>>
    BY AsideSteps DEF Aside, EventService, DeliverAck, HandleEvent, SendReport, ClearAcks, Accept,
                      Disconnect, Restart, evVars, vars
  <2>2. conf' = conf
    BY <1>2, <2>1 DEF ReceiveAck, GiveUp, Kind, Slot
  <2> QED BY <2>2
<1> QED BY <1>1, <1>2

\* event_ack_process ends the reporting only of what the platform has accepted,
\* whatever reports and acknowledgements are lost or late: the number of a
\* report is its own, and nothing else has it while it is waited for.
THEOREM OnlyAcceptedEnds == Spec => AckIsForState
<1>1. RInv /\ [Next]_vars =>
        [epc = "wait" /\ epc' = "scan" => \A s \in Sensors :
           LET st == conf[s].st IN
           /\ conf[s].event /\ ~conf'[s].event => told[st.type].event = st.event
           /\ conf[s].error /\ ~conf'[s].error => told[st.type].error = st.error]_vars
  BY AckStepIsForState
<1> QED BY <1>1, RInvAlways, PTL DEF Spec, AckIsForState

=============================================================================
