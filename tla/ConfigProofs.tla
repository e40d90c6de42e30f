---------------------------- MODULE ConfigProofs ----------------------------
(***************************************************************************)
(* Datalock and DAlock protect what they should, for any tasks, priorities, *)
(* sensors and alarms, with and without assertions, and although a refused *)
(* set_alarm keeps Datalock.                                               *)
(***************************************************************************)
EXTENDS Config, FiniteSetTheorems, TLAPS

\* The labels behind an OSMutexPend of each mutex, and those where DAlock is held
DataEntry == {"alarm", "sensor", "clear", "copy", "post"}
DAEntry   == {"state", "values", "store"}
DASection == DAEntry \cup {"rest"}

LockTypes ==
  /\ asserts \in BOOLEAN
  /\ owner \in [Locks -> Tasks \cup {None}] /\ nest \in [Locks -> 0 .. MaxNest]
  /\ pc \in [Tasks -> Labels]
  /\ want \in [Tasks -> Locks \cup {None}]
  /\ \A l \in Locks : (owner[l] = None) <=> (nest[l] = 0)
  /\ \A l \in Locks : owner[l] = None => Waiting(l) = {}

\* A task between Pend and Post of a mutex owns it.  A task that waits is
\* just behind the Pend.
Holds ==
  \A t \in Tasks :
    /\ InDatalock(t) => owner["Datalock"] = t
    /\ pc[t] \in DASection /\ want[t] # "DAlock" => owner["DAlock"] = t
    /\ want[t] = "Datalock" => pc[t] \in DataEntry
    /\ want[t] = "DAlock" => pc[t] \in DAEntry

LInv == LockTypes /\ Holds

LEMMA InitLInv == Init => LInv
<1> SUFFICES ASSUME Init PROVE LInv
  OBVIOUS
<1>1. LockTypes
  BY ConfigAssumption DEF Init, LockTypes, Labels, Waiting, Locks
<1>2. Holds
  BY ConfigAssumption DEF Init, Holds, InDatalock, DASection, DAEntry, Locks
<1> QED BY <1>1, <1>2 DEF LInv

\* OSMutexPend, called where nothing of the mutex is held or (by set_sensor)
\* with Datalock held for DAlock.
LEMMA PendLInv ==
  ASSUME LInv, NEW t \in Tasks, NEW l \in Locks, NEW next \in Labels,
         want[t] = None, pc[t] \in {"idle", "states"},
         pc[t] = "states" => l = "DAlock" /\ next = "state",
         l = "Datalock" => next \in DataEntry,
         l = "DAlock" => next \in DAEntry,
         l = "DAlock" /\ pc[t] = "idle" => next \in {"values", "store"},
         Pend(t, l, next), UNCHANGED asserts
  PROVE  LInv'
<1>0. None \notin Tasks /\ None \notin Locks /\ MaxNest \in Nat /\ MaxNest > 0
  BY ConfigAssumption
<1>1. CASE owner[l] = None
  <2>1. /\ owner' = [owner EXCEPT ![l] = t] /\ nest' = [nest EXCEPT ![l] = 1]
        /\ pc' = [pc EXCEPT ![t] = next] /\ want' = want
    BY <1>0, <1>1 DEF Pend
  <2>2. LockTypes'
    BY <1>0, <2>1 DEF LInv, LockTypes, Waiting
  <2>3. Holds'
    BY <1>0, <1>1, <2>1 DEF LInv, LockTypes, Holds, InDatalock, DataEntry, DASection, DAEntry, Locks
  <2> QED BY <2>2, <2>3 DEF LInv
<1>2. CASE owner[l] = t
  <2>1. /\ owner' = owner /\ want' = want
        /\ nest' = [nest EXCEPT ![l] = IF @ = MaxNest THEN @ ELSE @ + 1]
        /\ pc' = [pc EXCEPT ![t] = IF asserts THEN "stopped" ELSE next]
    BY <1>0, <1>2 DEF Pend
  <2>2. nest[l] \in 1 .. MaxNest
    BY <1>0, <1>2 DEF LInv, LockTypes
  <2>3. nest'[l] \in 1 .. MaxNest /\ nest' \in [Locks -> 0 .. MaxNest]
        /\ \A m \in Locks \ {l} : nest'[m] = nest[m]
    BY <1>0, <2>1, <2>2 DEF LInv, LockTypes
  <2>4. LockTypes'
    BY <1>0, <1>2, <2>1, <2>3 DEF LInv, LockTypes, Waiting, Labels
  <2>5. Holds'
    BY <1>0, <1>2, <2>1 DEF LInv, LockTypes, Holds, InDatalock, DataEntry, DASection, DAEntry, Locks
  <2> QED BY <2>4, <2>5 DEF LInv
<1>3. CASE owner[l] \notin {None, t}
  <2>1. /\ owner' = owner /\ nest' = nest /\ want' = [want EXCEPT ![t] = l]
        /\ pc' = [pc EXCEPT ![t] = next]
    BY <1>0, <1>3 DEF Pend, lockVars
  <2>2. LockTypes'
    BY <1>0, <1>3, <2>1 DEF LInv, LockTypes, Waiting
  <2>3. Holds'
    BY <1>0, <1>3, <2>1 DEF LInv, LockTypes, Holds, InDatalock, DataEntry, DASection, DAEntry, Locks
  <2> QED BY <2>2, <2>3 DEF LInv
<1> QED BY <1>1, <1>2, <1>3

\* OSMutexPost by the owner, at the end of a section: the next owner is none
\* or a task that waits just behind its Pend.
LEMMA PostLInv ==
  ASSUME LInv, NEW t \in Tasks, NEW l \in Locks, NEW next \in {"idle", "states"},
         want[t] = None, owner[l] = t,
         next = "states" => l = "DAlock" /\ InDatalock(t),
         l = "DAlock" => pc[t] \in DASection,
         l = "Datalock" => pc[t] \in DataEntry,
         Post(t, l, next), UNCHANGED asserts
  PROVE  LInv'
<1>0. None \notin Tasks /\ None \notin Locks /\ MaxNest \in Nat /\ MaxNest > 0 /\ next \in Labels
  BY ConfigAssumption DEF Labels
<1>1. CASE nest[l] > 1
  <2>1. /\ owner' = owner /\ want' = want
        /\ nest' = [nest EXCEPT ![l] = @ - 1]
        /\ pc' = [pc EXCEPT ![t] = IF asserts THEN "stopped" ELSE next]
    BY <1>1 DEF Post
  <2>2. nest[l] \in 0 .. MaxNest
    BY DEF LInv, LockTypes
  <2>3. nest'[l] \in 1 .. MaxNest /\ nest' \in [Locks -> 0 .. MaxNest]
        /\ \A m \in Locks \ {l} : nest'[m] = nest[m]
    BY <1>0, <1>1, <2>1, <2>2 DEF LInv, LockTypes
  <2>4. LockTypes'
    BY <1>0, <2>1, <2>3 DEF LInv, LockTypes, Waiting, Labels
  <2>5. Holds'
    BY <1>0, <2>1 DEF LInv, LockTypes, Holds, InDatalock, DataEntry, DASection, DAEntry, Locks
  <2> QED BY <2>4, <2>5 DEF LInv
<1>2. CASE nest[l] = 1 /\ Waiting(l) = {}
  <2>1. /\ pc' = [pc EXCEPT ![t] = next] /\ want' = want
        /\ owner' = [owner EXCEPT ![l] = None] /\ nest' = [nest EXCEPT ![l] = 0]
    BY <1>2 DEF Post
  <2>2. LockTypes'
    BY <1>0, <1>2, <2>1 DEF LInv, LockTypes, Waiting
  <2>3. \A u \in Tasks : u # t => pc'[u] = pc[u]
    BY <2>1 DEF LInv, LockTypes
  <2>4. Holds'
    BY <1>0, <1>2, <2>1 DEF LInv, LockTypes, Holds, InDatalock, DataEntry, DASection, DAEntry, Locks, Waiting
  <2> QED BY <2>2, <2>4 DEF LInv
<1>3. CASE nest[l] = 1 /\ Waiting(l) # {}
  <2>1. PICK w \in Waiting(l) : owner' = [owner EXCEPT ![l] = w] /\ want' = [want EXCEPT ![w] = None]
    BY <1>3 DEF Post
  <2>2. pc' = [pc EXCEPT ![t] = next] /\ nest' = nest
    BY <1>3 DEF Post
  <2>3. w \in Tasks /\ want[w] = l /\ w # t
    BY <1>0 DEF Waiting
  <2>4. LockTypes'
    BY <1>0, <1>3, <2>1, <2>2, <2>3 DEF LInv, LockTypes, Waiting
  <2>5. Holds'
    BY <1>0, <2>1, <2>2, <2>3 DEF LInv, LockTypes, Holds, InDatalock, DataEntry, DASection, DAEntry, Locks
  <2> QED BY <2>4, <2>5 DEF LInv
<1> QED BY <1>1, <1>2, <1>3 DEF Post

\* A step inside a section, or out of it without a Post (set_alarm)
LEMMA GotoLInv ==
  ASSUME LInv, NEW t \in Tasks, NEW label \in Labels, want[t] = None, Goto(t, label),
         label \in DASection => pc[t] \in DASection /\ owner["DAlock"] = t,
         label \in DataEntry \cup {"recover", "states"} => InDatalock(t),
         label # "state",
         UNCHANGED asserts
  PROVE  LInv'
<1>1. LockTypes'
  BY DEF LInv, LockTypes, Goto, lockVars, Waiting
<1>2. Holds'
  BY ConfigAssumption DEF LInv, LockTypes, Holds, Goto, lockVars, InDatalock, DataEntry, DASection, DAEntry, Locks
<1> QED BY <1>1, <1>2 DEF LInv

\* Mutual exclusion, whatever the build and whoever kept Datalock before
LEMMA LInvStep == LInv /\ [Next]_vars => LInv'
<1> SUFFICES ASSUME LInv, [Next]_vars PROVE LInv'
  OBVIOUS
<1> USE DEF lockVars, rowVars, history
<1>0. "Datalock" \in Locks /\ "DAlock" \in Locks
  BY DEF Locks
<1>1. ASSUME NEW t \in Tasks, Step(t) PROVE LInv'
  <2>1. CASE CheckAlarm(t)
    <3>1. InDatalock(t) /\ want[t] = None /\ UNCHANGED asserts /\ Goto(t, "recover")
      BY <1>0, <2>1, ConfigAssumption DEF CheckAlarm, At, InDatalock
    <3> QED BY <3>1, GotoLInv DEF Labels, DASection, DAEntry, DataEntry
  <2>2. CASE RefuseAlarm(t)
    BY <2>2, GotoLInv DEF RefuseAlarm, At, Labels, DASection, DAEntry, DataEntry
  <2>3. CASE WriteRecover(t)
    <3>1. PICK label \in {"post", "alarm"} : Goto(t, label)
      BY <2>3 DEF WriteRecover
    <3>2. InDatalock(t) /\ want[t] = None /\ UNCHANGED asserts
      BY <1>0, <2>3, ConfigAssumption DEF WriteRecover, At, InDatalock
    <3> QED BY <3>1, <3>2, GotoLInv DEF Labels, DASection, DAEntry, DataEntry
  <2>4. CASE SetSensor(t)
    <3>1. InDatalock(t) /\ want[t] = None /\ UNCHANGED asserts /\ Goto(t, "states")
      BY <1>0, <2>4, ConfigAssumption DEF SetSensor, At, InDatalock
    <3> QED BY <3>1, GotoLInv DEF Labels, DASection, DAEntry, DataEntry
  <2>5. CASE PendState(t)
    BY <1>0, <2>5, PendLInv DEF PendState, At, Labels, DASection, DAEntry, DataEntry
  <2>6. CASE PostState(t)
    <3>1. want[t] = None /\ pc[t] = "state" /\ Post(t, "DAlock", "states") /\ UNCHANGED asserts
      BY <2>6 DEF PostState, At
    <3>2. owner["DAlock"] = t /\ InDatalock(t)
      BY <1>0, <3>1, ConfigAssumption DEF LInv, Holds, DASection, DAEntry, InDatalock
    <3> QED BY <1>0, <3>1, <3>2, PostLInv DEF DASection, DAEntry
  <2>7. CASE EndSensor(t)
    <3>1. InDatalock(t) /\ want[t] = None /\ UNCHANGED asserts /\ Goto(t, "post")
      BY <1>0, <2>7, ConfigAssumption DEF EndSensor, At, InDatalock
    <3> QED BY <3>1, GotoLInv DEF Labels, DASection, DAEntry, DataEntry
  <2>8. CASE Clear(t)
    <3>1. InDatalock(t) /\ want[t] = None /\ UNCHANGED asserts /\ Goto(t, "post")
      BY <1>0, <2>8, ConfigAssumption DEF Clear, At, InDatalock
    <3> QED BY <3>1, GotoLInv DEF Labels, DASection, DAEntry, DataEntry
  <2>9. CASE Leave(t)
    <3>1. PICK l \in Locks : /\ Post(t, l, "idle") /\ want[t] = None
                             /\ pc[t] \in (IF l = "Datalock" THEN {"post", "copy"} ELSE {"values"})
      BY <1>0, <2>9 DEF Leave, At
    <3>2. owner[l] = t
      BY <1>0, <3>1, ConfigAssumption DEF LInv, Holds, DASection, DAEntry, InDatalock, Locks
    <3>3. UNCHANGED asserts
      BY <2>9 DEF Leave
    <3> QED BY <3>1, <3>2, <3>3, PostLInv DEF DASection, DAEntry, DataEntry, Locks
  <2>10. CASE StoreHalf(t)
    <3>1. want[t] = None /\ pc[t] = "store" /\ UNCHANGED asserts /\ Goto(t, "rest")
      BY <2>10 DEF StoreHalf, At
    <3>2. owner["DAlock"] = t
      BY <1>0, <3>1, ConfigAssumption DEF LInv, Holds, DASection, DAEntry
    <3> QED BY <3>1, <3>2, GotoLInv DEF Labels, DASection, DAEntry, DataEntry
  <2>11. CASE StoreRest(t)
    <3>1. want[t] = None /\ pc[t] = "rest" /\ Post(t, "DAlock", "idle") /\ UNCHANGED asserts
      BY <2>11 DEF StoreRest, At
    <3>2. owner["DAlock"] = t
      BY <1>0, <3>1, ConfigAssumption DEF LInv, Holds, DASection
    <3> QED BY <1>0, <3>1, <3>2, PostLInv DEF DASection
  <2> QED BY <1>1, <2>1, <2>2, <2>3, <2>4, <2>5, <2>6, <2>7, <2>8, <2>9, <2>10, <2>11 DEF Step
<1>2. ASSUME NEW t \in Tasks, NEW r, NEW l \in Locks, NEW label \in Labels, Call(t, r, l, label),
             l = "Datalock" => label \in DataEntry, l = "DAlock" => label \in {"values", "store"}
      PROVE  LInv'
  BY <1>2, PendLInv DEF Call, At, DAEntry
<1>3. ASSUME NEW t \in Tasks, CallSetAlarm(t) \/ CallSetSensor(t) \/ CallOther(t) PROVE LInv'
  <2>1. CASE CallSetAlarm(t)
    <3>1. PICK items \in Batches :
            Call(t, [op |-> "set_alarm", items |-> items, i |-> 0], "Datalock", "alarm")
      BY <2>1 DEF CallSetAlarm
    <3> QED BY <1>0, <1>2, <3>1 DEF Labels, DataEntry
  <2>2. CASE CallSetSensor(t)
    <3>1. PICK code \in {"SET", "DEL", "DELALL"}, type \in Types :
            Call(t, [op |-> "set_sensor", code |-> code, type |-> type, k |-> 0], "Datalock", "sensor")
      BY <2>2 DEF CallSetSensor
    <3> QED BY <1>0, <1>2, <3>1 DEF Labels, DataEntry
  <2>3. CASE CallOther(t)
    BY <1>0, <1>2, <2>3 DEF CallOther, Labels, DataEntry
  <2> QED BY <1>3, <2>1, <2>2, <2>3
<1>4. CASE WatchdogReset
  BY <1>4, ConfigAssumption DEF WatchdogReset, LInv, LockTypes, Holds, Labels, Waiting, Locks, InDatalock, DASection, DAEntry
<1>5. ASSUME UNCHANGED <<asserts, owner, nest, pc, want>> PROVE LInv'
  BY <1>5 DEF LInv, LockTypes, Holds, InDatalock, Waiting
<1>6. CASE Look \/ (\E t \in Tasks : Round(t)) \/ UNCHANGED vars
  BY <1>5, <1>6 DEF Look, Round, vars
<1> QED BY <1>1, <1>3, <1>4, <1>6 DEF Next

-----------------------------------------------------------------------------
\* DAlock is never nested and never kept.
DAInv ==
  /\ nest["DAlock"] <= 1
  /\ \A t \in Tasks : owner["DAlock"] = t => pc[t] \in DASection /\ want[t] # "DAlock"

\* How Pend, Post and Goto move a task
LEMMA Moves ==
  ASSUME NEW t \in Tasks, NEW l \in Locks, NEW next,
         Pend(t, l, next) \/ Post(t, l, next) \/ Goto(t, next)
  PROVE  \E x \in {next, "stopped"} : pc' = [pc EXCEPT ![t] = x]
BY DEF Pend, Post, Goto

LEMMA DAInvStep == LInv /\ DAInv /\ [Next]_vars => DAInv'
<1> SUFFICES ASSUME LInv, DAInv, [Next]_vars PROVE DAInv'
  OBVIOUS
<1> USE DEF lockVars
<1>0. /\ "Datalock" \in Locks /\ "DAlock" \in Locks /\ None \notin Tasks /\ None \notin Locks
      /\ pc \in [Tasks -> Labels] /\ want \in [Tasks -> Locks \cup {None}]
      /\ owner \in [Locks -> Tasks \cup {None}] /\ nest \in [Locks -> 0 .. MaxNest]
      /\ MaxNest \in Nat
  BY ConfigAssumption DEF Locks, LInv, LockTypes
<1>1. ASSUME NEW t \in Tasks, NEW next, next \in DAEntry, pc[t] \in {"idle", "states"},
             want[t] = None, Pend(t, "DAlock", next)
      PROVE  DAInv'
  <2>1. owner["DAlock"] # t
    BY <1>1 DEF DAInv, DASection, DAEntry
  <2>2. CASE owner["DAlock"] = None
    BY <1>0, <1>1, <2>2 DEF Pend, DAInv, DASection
  <2>3. CASE owner["DAlock"] # None
    BY <1>0, <1>1, <2>1, <2>3 DEF Pend, DAInv, DASection
  <2> QED BY <2>2, <2>3
<1>2. ASSUME NEW t \in Tasks, NEW next, Post(t, "DAlock", next), owner["DAlock"] = t PROVE DAInv'
  <2>1. nest["DAlock"] = 1
    BY <1>0, <1>2 DEF LInv, LockTypes, DAInv
  <2>2. CASE Waiting("DAlock") = {}
    BY <1>0, <1>2, <2>1, <2>2 DEF Post, DAInv
  <2>3. CASE Waiting("DAlock") # {}
    <3>1. PICK w \in Waiting("DAlock") :
            owner' = [owner EXCEPT !["DAlock"] = w] /\ want' = [want EXCEPT ![w] = None]
      BY <1>2, <2>1, <2>3 DEF Post
    <3>2. w \in Tasks /\ want[w] = "DAlock" /\ pc[w] \in DASection /\ w # t
      BY <1>2 DEF Waiting, LInv, Holds, DAInv, DASection
    <3>3. nest' = nest /\ pc' = [pc EXCEPT ![t] = next]
      BY <1>0, <1>2, <2>1, <2>3 DEF Post
    <3> QED BY <1>0, <2>1, <3>1, <3>2, <3>3 DEF DAInv
  <2> QED BY <2>2, <2>3
<1>3. ASSUME NEW t \in Tasks, NEW next, pc[t] \notin DASection,
             Pend(t, "Datalock", next) \/ Post(t, "Datalock", next) \/ Goto(t, next)
      PROVE  DAInv'
  <2>1. nest'["DAlock"] = nest["DAlock"] /\ owner'["DAlock"] = owner["DAlock"]
    BY <1>0, <1>3 DEF Pend, Post, Goto, Locks
  <2>2. \A u \in Tasks : want'[u] = "DAlock" => want[u] = "DAlock"
    BY <1>0, <1>3 DEF Pend, Post, Goto, Waiting, Locks
  <2>3. \A u \in Tasks \ {t} : pc'[u] = pc[u]
    BY <1>0, <1>3, Moves
  <2> QED BY <1>3, <2>1, <2>2, <2>3 DEF DAInv
<1>4. ASSUME NEW t \in Tasks, Step(t) PROVE DAInv'
  <2>1. CASE PendState(t)
    BY <1>1, <2>1 DEF PendState, At, DASection, DAEntry
  <2>2. CASE PostState(t)
    BY <1>0, <1>2, <2>2 DEF PostState, At, DASection, DAEntry, LInv, Holds
  <2>3. CASE Leave(t)
    BY <1>0, <1>2, <1>3, <2>3 DEF Leave, At, DASection, DAEntry, LInv, Holds
  <2>4. CASE \/ CheckAlarm(t) \/ RefuseAlarm(t) \/ WriteRecover(t) \/ SetSensor(t) \/ EndSensor(t)
             \/ Clear(t)
    <3>1. pc[t] \notin DASection
      BY <2>4 DEF CheckAlarm, RefuseAlarm, WriteRecover, SetSensor, EndSensor, Clear, At, DASection, DAEntry
    <3>2. \E next : Goto(t, next)
      BY <2>4 DEF CheckAlarm, RefuseAlarm, WriteRecover, SetSensor, EndSensor, Clear
    <3> QED BY <1>3, <3>1, <3>2
  <2>5. CASE StoreHalf(t)
    <3>1. pc[t] = "store" /\ want[t] = None /\ Goto(t, "rest")
      BY <2>5 DEF StoreHalf, At
    <3> QED BY <1>0, <3>1 DEF Goto, DAInv, DASection
  <2>6. CASE StoreRest(t)
    BY <1>0, <1>2, <2>6 DEF StoreRest, At, DASection, DAEntry, LInv, Holds
  <2> QED BY <1>4, <2>1, <2>2, <2>3, <2>4, <2>5, <2>6 DEF Step
<1>5. ASSUME NEW t \in Tasks, CallSetAlarm(t) \/ CallSetSensor(t) \/ CallOther(t) PROVE DAInv'
  <2>1. \A r, next : Call(t, r, "Datalock", next) => DAInv'
    BY <1>3 DEF Call, At, DASection, DAEntry
  <2>2. \A r : \A next \in {"values", "store"} : Call(t, r, "DAlock", next) => DAInv'
    BY <1>1 DEF Call, At, DASection, DAEntry
  <2> QED BY <1>5, <2>1, <2>2 DEF CallSetAlarm, CallSetSensor, CallOther
<1>6. CASE WatchdogReset
  BY <1>0, <1>6 DEF WatchdogReset, DAInv
<1>7. CASE Look \/ (\E t \in Tasks : Round(t)) \/ UNCHANGED vars
  BY <1>7 DEF Look, Round, vars, DAInv
<1> QED BY <1>4, <1>5, <1>6, <1>7 DEF Next

-----------------------------------------------------------------------------
AlarmReq  == [op : {"set_alarm"}, items : UNION {[1 .. n -> Item] : n \in Alarms}, i : 0 .. ALARM_NUM]
SensorReq == [op : {"set_sensor"}, code : {"SET", "DEL", "DELALL"}, type : Types, k : 0 .. DEV_NUM]

\* A task in a setter has its request, and set_alarm an item left to check.
ReqInv ==
  /\ req \in [Tasks -> Requests]
  /\ \A t \in Tasks :
       /\ pc[t] \in {"alarm", "recover"} => req[t] \in AlarmReq /\ req[t].i < Len(req[t].items)
       /\ pc[t] \in {"sensor", "states", "state"} => req[t] \in SensorReq
       /\ pc[t] = "state" => req[t].k > 0

\* A pair of thresholds is whole, or a set_alarm has written the first of the
\* two and is about to write the second.
AlarmInv ==
  /\ alarm \in [Alarms -> Item]
  /\ \A t \in Tasks : pc[t] = "recover" =>
       LET i == req[t].i + 1 IN
         /\ alarm[i].value = req[t].items[i].value
         /\ req[t].items[i].recover <= req[t].items[i].value
  /\ \A i \in Alarms : alarm[i].recover <= alarm[i].value
                       \/ \E t \in Tasks : pc[t] = "recover" /\ req[t].i + 1 = i

\* The sensors are those asked for; their types are zero only while a
\* set_sensor that deletes all of them is at work, or after factory_resrt.
Zeroing == \E t \in Tasks : pc[t] \in {"states", "state"} /\ req[t].code = "DELALL"
SensorInv ==
  /\ sensor \in [Devs -> [type : Types, enFlag : BOOLEAN]]
  /\ asked \in (SUBSET Types) \cup {None}
  /\ asked # None => /\ Enabled(sensor) = asked
                     /\ Zeroing \/ \A d \in Devs : sensor[d].type = d - 1
  /\ Zeroing => \A d \in Devs : ~sensor[d].enFlag

DInv == ReqInv /\ AlarmInv /\ SensorInv

\* The items of a set_alarm
LEMMA AlarmReqFact ==
  ASSUME NEW r \in AlarmReq, r.i < Len(r.items)
  PROVE  /\ r.i + 1 \in Alarms /\ r.i \in Nat
         /\ r.i + 1 \in 1 .. Len(r.items) /\ Len(r.items) \in Alarms
         /\ r.items[r.i + 1] \in Item
<1>1. PICK n \in Alarms : r.items \in [1 .. n -> Item]
  BY DEF AlarmReq
<1>2. Len(r.items) = n /\ ALARM_NUM \in Nat
  BY <1>1, ConfigAssumption DEF Alarms
<1> QED BY <1>1, <1>2 DEF AlarmReq, Alarms

LEMMA NextItem ==
  ASSUME NEW r \in AlarmReq, NEW j \in 0 .. ALARM_NUM
  PROVE  [r EXCEPT !.i = j] \in AlarmReq /\ [r EXCEPT !.i = j].i = j /\ [r EXCEPT !.i = j].items = r.items
BY DEF AlarmReq

LEMMA ItemFact ==
  ASSUME NEW x \in Item
  PROVE  x.value \in Level /\ x.recover \in Level /\ x.value \in Nat /\ x.recover \in Nat
BY ConfigAssumption DEF Item

LEMMA RequestsFact == AlarmReq \subseteq Requests /\ SensorReq \subseteq Requests /\ NoReq \in Requests
BY DEF AlarmReq, SensorReq, Requests

LEMMA InitDInv == Init => DInv
<1> SUFFICES ASSUME Init PROVE DInv
  OBVIOUS
<1>1. ReqInv
  BY RequestsFact DEF Init, ReqInv
<1>2. AlarmInv
  <2>1. 0 \in Level
    BY ConfigAssumption
  <2> QED BY <2>1 DEF Init, AlarmInv, Item
<1>3. SensorInv
  <2>1. \A d \in Devs : d - 1 \in Types
    BY ConfigAssumption DEF Devs, Types
  <2> QED BY <2>1 DEF Init, SensorInv, Enabled
<1> QED BY <1>1, <1>2, <1>3 DEF DInv

\* Only the owner of Datalock is in a setter.
LEMMA Alone ==
  ASSUME LInv, NEW t \in Tasks, InDatalock(t)
  PROVE  \A u \in Tasks \ {t} : ~InDatalock(u) /\ pc[u] \notin {"recover", "states", "state"}
<1>1. \A u \in Tasks \ {t} : ~InDatalock(u)
  BY DEF LInv, Holds
<1>2. \A u \in Tasks : pc[u] \in {"recover", "states", "state"} => InDatalock(u)
  BY DEF LInv, Holds, InDatalock, DataEntry
<1> QED BY <1>1, <1>2

\* Steps that change neither the configuration nor what is asked for, and that
\* leave no setter but at its end or through its error path.
LEMMA QuietDInv ==
  ASSUME LInv, DInv, NEW t \in Tasks, NEW x \in Labels, pc' = [pc EXCEPT ![t] = x],
         UNCHANGED <<alarm, sensor, asked>>,
         pc[t] # "recover", pc[t] \in {"states", "state"} <=> x \in {"states", "state"},
         x # "recover",
         \E r \in Requests : req' = [req EXCEPT ![t] = r],
         x \in {"states", "state"} => req'[t] \in SensorReq /\ req'[t].code = req[t].code,
         x = "sensor" => req'[t] \in SensorReq,
         x = "alarm" => req'[t] \in AlarmReq /\ req'[t].i < Len(req'[t].items),
         x = "state" => req'[t].k > 0
  PROVE  DInv'
<1>0. pc \in [Tasks -> Labels] /\ req \in [Tasks -> Requests] /\ pc'[t] = x
      /\ \A u \in Tasks \ {t} : pc'[u] = pc[u] /\ req'[u] = req[u]
      /\ req' \in [Tasks -> Requests]
  BY DEF LInv, LockTypes, DInv, ReqInv
<1>1. ReqInv'
  BY <1>0 DEF DInv, ReqInv
<1>2. AlarmInv'
  BY <1>0 DEF DInv, AlarmInv
<1>3. SensorInv'
  <2>1. Zeroing <=> Zeroing'
    BY <1>0 DEF Zeroing
  <2> QED BY <2>1 DEF DInv, SensorInv, Enabled
<1> QED BY <1>1, <1>2, <1>3 DEF DInv

LEMMA CheckAlarmDInv == ASSUME LInv, DInv, NEW t \in Tasks, CheckAlarm(t) PROVE DInv'
<1> DEFINE i == req[t].i + 1
           item == req[t].items[i]
<1>0. /\ pc \in [Tasks -> Labels] /\ pc[t] = "alarm" /\ InDatalock(t)
      /\ pc' = [pc EXCEPT ![t] = "recover"]
      /\ UNCHANGED <<req, sensor, asked>> /\ alarm' = [alarm EXCEPT ![i].value = item.value]
      /\ item.recover <= item.value
  BY ConfigAssumption DEF CheckAlarm, At, Goto, InDatalock, LInv, LockTypes, history, Locks
<1>1. req[t] \in AlarmReq /\ req[t].i < Len(req[t].items)
  BY <1>0 DEF DInv, ReqInv
<1>2. i \in Alarms /\ item \in Item
  BY <1>1, AlarmReqFact
<1>3. ReqInv'
  BY <1>0, <1>1 DEF DInv, ReqInv
<1>4. alarm' \in [Alarms -> Item]
  BY <1>0, <1>2 DEF DInv, AlarmInv, Item
<1>5. \A u \in Tasks : pc'[u] = "recover" => u = t
  BY <1>0, Alone
<1>6. /\ alarm'[i].value = item.value
      /\ \A j \in Alarms : j # i => alarm'[j] = alarm[j]
  BY <1>0, <1>2 DEF DInv, AlarmInv, Item
<1>7. \A j \in Alarms : j # i => alarm[j].recover <= alarm[j].value
  BY <1>0, Alone DEF DInv, AlarmInv
<1>8. AlarmInv'
  BY <1>0, <1>4, <1>5, <1>6, <1>7 DEF AlarmInv
<1>9. SensorInv'
  <2>1. Zeroing <=> Zeroing'
    BY <1>0 DEF Zeroing
  <2> QED BY <1>0, <2>1 DEF DInv, SensorInv, Enabled
<1> QED BY <1>3, <1>8, <1>9 DEF DInv

LEMMA WriteRecoverDInv == ASSUME LInv, DInv, NEW t \in Tasks, WriteRecover(t) PROVE DInv'
<1> DEFINE i == req[t].i + 1
           item == req[t].items[i]
<1>0. /\ pc \in [Tasks -> Labels] /\ pc[t] = "recover" /\ InDatalock(t)
      /\ UNCHANGED <<sensor, asked>> /\ alarm' = [alarm EXCEPT ![i].recover = item.recover]
      /\ req' = [req EXCEPT ![t].i = i]
      /\ pc' = [pc EXCEPT ![t] = IF req'[t].i = Len(req[t].items) THEN "post" ELSE "alarm"]
  BY ConfigAssumption DEF WriteRecover, At, Goto, InDatalock, LInv, LockTypes, history, Locks
<1>1. req[t] \in AlarmReq /\ req[t].i < Len(req[t].items) /\ req \in [Tasks -> Requests]
  BY <1>0 DEF DInv, ReqInv
<1>2. i \in Alarms /\ item \in Item /\ i \in 1 .. Len(req[t].items)
      /\ Len(req[t].items) \in Alarms
  BY <1>1, AlarmReqFact
<1>3. ReqInv'
  <2>0. req'[t] = [req[t] EXCEPT !.i = i] /\ i \in 0 .. ALARM_NUM
    BY <1>0, <1>1, <1>2, ConfigAssumption DEF Alarms
  <2>1. req'[t] \in AlarmReq /\ req'[t].i = i /\ req'[t].items = req[t].items
    BY <1>1, <2>0, NextItem
  <2>2. \A u \in Tasks \ {t} : req'[u] = req[u] /\ pc'[u] = pc[u]
    BY <1>0, <1>1
  <2>3. req' \in [Tasks -> Requests]
    BY <1>0, <1>1, <2>1, RequestsFact
  <2>4. pc'[t] = IF i = Len(req[t].items) THEN "post" ELSE "alarm"
    BY <1>0, <2>1
  <2>5. Len(req[t].items) \in Nat /\ i \in Nat
    BY <1>2, ConfigAssumption DEF Alarms
  <2>6. pc'[t] = "alarm" => i < Len(req[t].items)
    BY <1>2, <2>4, <2>5
  <2>7. pc'[t] \in {"post", "alarm"}
    BY <2>4
  <2> QED BY <2>1, <2>2, <2>3, <2>6, <2>7 DEF DInv, ReqInv
<1>4. alarm' \in [Alarms -> Item]
  BY <1>0, <1>2 DEF DInv, AlarmInv, Item
<1>5. \A u \in Tasks : pc'[u] # "recover"
  BY <1>0, Alone
<1>6. \A j \in Alarms : alarm'[j].recover <= alarm'[j].value
  <2>1. \A j \in Alarms : j # i => alarm'[j] = alarm[j] /\ alarm[j].recover <= alarm[j].value
    BY <1>0, <1>2, Alone DEF DInv, AlarmInv
  <2>2. alarm'[i].recover = item.recover /\ alarm'[i].value = alarm[i].value
    BY <1>0, <1>2 DEF DInv, AlarmInv, Item
  <2>3. alarm[i].value = item.value /\ item.recover <= item.value
    BY <1>0 DEF DInv, AlarmInv
  <2> QED BY <2>1, <2>2, <2>3
<1>7. AlarmInv'
  BY <1>4, <1>5, <1>6 DEF AlarmInv
<1>8. SensorInv'
  <2>1. ~Zeroing
    BY <1>0, Alone DEF Zeroing
  <2>2. ~Zeroing'
    BY <1>0, Alone DEF Zeroing
  <2> QED BY <1>0, <2>1, <2>2 DEF DInv, SensorInv, Enabled
<1> QED BY <1>3, <1>7, <1>8 DEF DInv

LEMMA ClearDInv == ASSUME LInv, DInv, NEW t \in Tasks, Clear(t) PROVE DInv'
<1>0. /\ pc \in [Tasks -> Labels] /\ pc[t] = "clear" /\ InDatalock(t)
      /\ pc' = [pc EXCEPT ![t] = "post"] /\ req' = req
      /\ alarm' = [i \in Alarms |-> [value |-> 0, recover |-> 0]]
      /\ sensor' = [d \in Devs |-> [type |-> 0, enFlag |-> FALSE]] /\ asked' = None
  BY ConfigAssumption DEF Clear, At, Goto, InDatalock, LInv, LockTypes, Locks
<1>1. 0 \in Level /\ 0 \in Types
  BY ConfigAssumption DEF Types
<1>2. ReqInv'
  BY <1>0 DEF DInv, ReqInv
<1>3. AlarmInv'
  BY <1>0, <1>1, Alone DEF AlarmInv, Item
<1>4. SensorInv'
  <2>1. sensor' \in [Devs -> [type : Types, enFlag : BOOLEAN]]
    BY <1>0, <1>1
  <2>2. \A d \in Devs : ~sensor'[d].enFlag
    BY <1>0
  <2>3. asked' = None
    BY <1>0
  <2> QED BY <2>1, <2>2, <2>3 DEF SensorInv
<1> QED BY <1>2, <1>3, <1>4 DEF DInv

LEMMA ResetDInv == ASSUME WatchdogReset PROVE DInv'
<1>1. ReqInv'
  BY RequestsFact DEF WatchdogReset, ReqInv
<1>2. AlarmInv'
  <2>1. 0 \in Level
    BY ConfigAssumption
  <2> QED BY <2>1 DEF WatchdogReset, AlarmInv, Item
<1>3. SensorInv'
  <2>1. \A d \in Devs : d - 1 \in Types
    BY ConfigAssumption DEF Devs, Types
  <2> QED BY <2>1 DEF WatchdogReset, SensorInv, Enabled
<1> QED BY <1>1, <1>2, <1>3 DEF DInv

\* OPCODE_SET, OPCODE_DEL and OPCODE_DELALL, up to the states of the sensors
LEMMA SetSensorDInv == ASSUME LInv, DInv, NEW t \in Tasks, SetSensor(t) PROVE DInv'
<1> DEFINE r == req[t]
           M == Matching(r.type)
           k == CASE r.code = "SET" -> 0 [] r.code = "DEL" -> Cardinality(M) [] OTHER -> DEV_NUM
<1>0. /\ pc \in [Tasks -> Labels] /\ pc[t] = "sensor" /\ InDatalock(t)
      /\ pc' = [pc EXCEPT ![t] = "states"] /\ req' = [req EXCEPT ![t].k = k]
      /\ alarm' = alarm
      /\ sensor' = [d \in Devs |->
            IF r.code = "DELALL" THEN [type |-> 0, enFlag |-> FALSE]
            ELSE IF d \in M THEN [sensor[d] EXCEPT !.enFlag = r.code = "SET"] ELSE sensor[d]]
      /\ asked' = IF r.code = "DELALL" THEN {}
                  ELSE IF asked = None THEN None
                  ELSE IF r.code = "SET" THEN asked \cup {r.type} ELSE asked \ {r.type}
  BY ConfigAssumption DEF SetSensor, At, Goto, InDatalock, LInv, LockTypes, Locks
<1>1. r \in SensorReq /\ req \in [Tasks -> Requests]
  BY <1>0 DEF DInv, ReqInv
<1>2. k \in 0 .. DEV_NUM
  <2>1. IsFiniteSet(Devs) /\ Cardinality(Devs) = DEV_NUM
    BY FS_Interval, ConfigAssumption DEF Devs
  <2>2. M \subseteq Devs
    BY DEF Matching
  <2>3. Cardinality(M) \in Nat /\ Cardinality(M) <= DEV_NUM
    BY <2>1, <2>2, FS_Subset, FS_CardinalityType
  <2> QED BY <2>3, ConfigAssumption
<1>3. req'[t] \in SensorReq /\ req'[t].code = r.code /\ req' \in [Tasks -> Requests]
      /\ \A u \in Tasks \ {t} : req'[u] = req[u] /\ pc'[u] = pc[u]
  BY <1>0, <1>1, <1>2, RequestsFact DEF SensorReq
<1>4. ReqInv'
  BY <1>0, <1>3 DEF DInv, ReqInv
<1>5. AlarmInv'
  BY <1>0, <1>3 DEF DInv, AlarmInv
<1>6. sensor' \in [Devs -> [type : Types, enFlag : BOOLEAN]]
  <2>1. 0 \in Types
    BY ConfigAssumption DEF Types
  <2> QED BY <1>0, <2>1 DEF DInv, SensorInv
<1>7. asked' \in (SUBSET Types) \cup {None}
  BY <1>0, <1>1 DEF DInv, SensorInv, SensorReq
<1>8. CASE r.code = "DELALL"
  <2>5. sensor' = [d \in Devs |-> [type |-> 0, enFlag |-> FALSE]]
    BY <1>0, <1>8
  <2>0. \A d \in Devs : ~sensor'[d].enFlag
    BY <2>5
  <2>6. asked' = {}
    BY <1>0, <1>8
  <2>1. Enabled(sensor') = {} /\ asked' = {}
    BY <2>0, <2>6 DEF Enabled
  <2>2. Zeroing'
    BY <1>0, <1>3, <1>8 DEF Zeroing
  <2>3. SensorInv'
    BY <1>6, <1>7, <2>0, <2>1, <2>2 DEF SensorInv, Enabled
  <2> QED BY <1>4, <1>5, <2>3 DEF DInv
<1>9. CASE r.code # "DELALL"
  <2>1. ~Zeroing
    BY <1>0, Alone DEF Zeroing
  <2>4. ~Zeroing'
    BY <1>0, <1>3, <1>9, Alone DEF Zeroing
  <2>2. CASE asked = None
    <3>1. asked' = None
      BY <1>0, <1>9, <2>2
    <3>2. SensorInv'
      BY <1>6, <1>7, <2>4, <3>1 DEF SensorInv
    <3> QED BY <1>4, <1>5, <3>2 DEF DInv
  <2>3. CASE asked # None
    <3>1. Enabled(sensor) = asked /\ \A d \in Devs : sensor[d].type = d - 1
      BY <2>1, <2>3 DEF DInv, SensorInv
    <3>2. r.type + 1 \in Devs /\ M = {r.type + 1} /\ r.type \in Types
      BY <1>1, <3>1, ConfigAssumption DEF SensorReq, Matching, Devs, Types
    <3>3. \A d \in Devs : /\ sensor'[d].type = d - 1
                          /\ d # r.type + 1 => sensor'[d].enFlag = sensor[d].enFlag
                          /\ d = r.type + 1 => sensor'[d].enFlag = (r.code = "SET")
      BY <1>0, <1>9, <3>1, <3>2 DEF DInv, SensorInv
    <3>4. Enabled(sensor') = IF r.code = "SET" THEN asked \cup {r.type} ELSE asked \ {r.type}
      <4>1. \A x : x \in Enabled(sensor') <=> x \in Types /\ sensor'[x + 1].enFlag
        BY <3>3, ConfigAssumption DEF Enabled, Devs, Types
      <4>2. \A x : x \in asked <=> x \in Types /\ sensor[x + 1].enFlag
        BY <3>1, ConfigAssumption DEF Enabled, Devs, Types
      <4>3. \A x \in Types : x + 1 \in Devs /\ (x + 1 = r.type + 1 <=> x = r.type)
        BY <3>2, ConfigAssumption DEF Devs, Types
      <4> QED BY <3>2, <3>3, <4>1, <4>2, <4>3
    <3>5. SensorInv'
      BY <1>0, <1>6, <1>7, <1>9, <2>3, <2>4, <3>3, <3>4 DEF SensorInv, Enabled
    <3> QED BY <1>4, <1>5, <3>5 DEF DInv
  <2> QED BY <2>2, <2>3
<1> QED BY <1>8, <1>9

\* The end of set_sensor: the types are back
LEMMA EndSensorDInv == ASSUME LInv, DInv, NEW t \in Tasks, EndSensor(t) PROVE DInv'
<1>0. /\ pc \in [Tasks -> Labels] /\ pc[t] = "states" /\ InDatalock(t)
      /\ pc' = [pc EXCEPT ![t] = "post"] /\ UNCHANGED <<req, alarm, asked>>
      /\ sensor' = IF req[t].code = "DELALL" THEN [d \in Devs |-> [sensor[d] EXCEPT !.type = d - 1]]
                                              ELSE sensor
  BY ConfigAssumption DEF EndSensor, At, Goto, InDatalock, LInv, LockTypes, history, Locks
<1>1. ReqInv'
  BY <1>0 DEF DInv, ReqInv
<1>2. AlarmInv'
  BY <1>0 DEF DInv, AlarmInv
<1>3. \A u \in Tasks : pc[u] \in {"states", "state"} => u = t
  BY <1>0, Alone
<1>4. CASE req[t].code # "DELALL"
  <2>1. ~Zeroing /\ ~Zeroing'
    BY <1>0, <1>3, <1>4 DEF Zeroing
  <2>2. SensorInv'
    BY <1>0, <1>4, <2>1 DEF DInv, SensorInv, Enabled
  <2> QED BY <1>1, <1>2, <2>2 DEF DInv
<1>5. CASE req[t].code = "DELALL"
  <2>1. \A d \in Devs : d - 1 \in Types
    BY ConfigAssumption DEF Devs, Types
  <2>2. \A d \in Devs : ~sensor[d].enFlag
    BY <1>0, <1>5 DEF Zeroing, DInv, SensorInv
  <2>3. /\ sensor' \in [Devs -> [type : Types, enFlag : BOOLEAN]]
        /\ \A d \in Devs : sensor'[d].type = d - 1 /\ ~sensor'[d].enFlag
    BY <1>0, <1>5, <2>1, <2>2 DEF DInv, SensorInv
  <2>4. Enabled(sensor) = {} /\ Enabled(sensor') = {}
    BY <2>2, <2>3 DEF Enabled
  <2>5. SensorInv'
    BY <1>0, <2>3, <2>4 DEF DInv, SensorInv, Enabled
  <2> QED BY <1>1, <1>2, <2>5 DEF DInv
<1> QED BY <1>4, <1>5

\* Calls, and the steps through the sections that only move the task
LEMMA CallDInv ==
  ASSUME LInv, DInv, NEW t \in Tasks, CallSetAlarm(t) \/ CallSetSensor(t) \/ CallOther(t)
  PROVE  DInv'
<1>0. "Datalock" \in Locks /\ "DAlock" \in Locks
  BY DEF Locks
<1>1. ASSUME NEW r \in Requests, NEW l \in Locks, NEW label \in Labels, Call(t, r, l, label),
             label \notin {"recover", "states", "state"},
             label = "sensor" => r \in SensorReq,
             label = "alarm" => r \in AlarmReq /\ r.i < Len(r.items)
      PROVE  DInv'
  <2>1. pc[t] = "idle" /\ req' = [req EXCEPT ![t] = r] /\ UNCHANGED <<alarm, sensor, asked>>
    BY <1>1 DEF Call, At, rowVars, history
  <2>2. PICK x \in {label, "stopped"} : pc' = [pc EXCEPT ![t] = x]
    BY <1>1, Moves DEF Call
  <2>3. x \in Labels /\ x \notin {"recover", "states", "state"} /\ req'[t] = r
    BY <1>1, <2>1, <2>2 DEF Labels, DInv, ReqInv
  <2> QED BY <1>1, <2>1, <2>2, <2>3, QuietDInv
<1>2. CASE CallSetAlarm(t)
  <2>1. PICK items \in Batches :
          Call(t, [op |-> "set_alarm", items |-> items, i |-> 0], "Datalock", "alarm")
    BY <1>2 DEF CallSetAlarm
  <2>2. PICK n \in Alarms : items \in [1 .. n -> Item]
    BY ConfigAssumption
  <2> DEFINE r == [op |-> "set_alarm", items |-> items, i |-> 0]
  <2>3. n \in Nat \ {0} /\ ALARM_NUM \in Nat
    BY ConfigAssumption DEF Alarms
  <2>4. r \in AlarmReq /\ r.i = 0 /\ r.items = items
    BY <2>2, <2>3 DEF AlarmReq
  <2>5. Len(items) = n
    BY <2>2, <2>3
  <2>6. r \in Requests /\ r.i < Len(r.items)
    BY <2>3, <2>4, <2>5, RequestsFact
  <2> QED BY <1>0, <1>1, <2>1, <2>4, <2>6 DEF Labels
<1>3. CASE CallSetSensor(t)
  <2>1. PICK code \in {"SET", "DEL", "DELALL"}, type \in Types :
          Call(t, [op |-> "set_sensor", code |-> code, type |-> type, k |-> 0], "Datalock", "sensor")
    BY <1>3 DEF CallSetSensor
  <2>2. [op |-> "set_sensor", code |-> code, type |-> type, k |-> 0] \in SensorReq
    BY ConfigAssumption DEF SensorReq
  <2> QED BY <1>0, <1>1, <2>1, <2>2, RequestsFact DEF Labels
<1>4. CASE CallOther(t)
  <2>1. \A op \in OpNames \ {"set_alarm", "set_sensor", "set_sys_sensor_State"} : [op |-> op] \in Requests
    BY DEF Requests
  <2>2. \A type \in Types : [op |-> "set_sys_sensor_State", type |-> type] \in Requests
    BY DEF Requests
  <2> QED BY <1>0, <1>1, <1>4, <2>1, <2>2 DEF CallOther, Labels, OpNames
<1> QED BY <1>2, <1>3, <1>4

LEMMA MoveDInv ==
  ASSUME LInv, DAInv, DInv, NEW t \in Tasks,
         RefuseAlarm(t) \/ PendState(t) \/ PostState(t) \/ Leave(t) \/ StoreHalf(t) \/ StoreRest(t)
  PROVE  DInv'
<1>0. /\ "Datalock" \in Locks /\ "DAlock" \in Locks /\ None \notin Tasks /\ None \notin Locks
      /\ req \in [Tasks -> Requests] /\ pc \in [Tasks -> Labels]
      /\ nest \in [Locks -> 0 .. MaxNest] /\ MaxNest \in Nat
      /\ \A l \in Locks : owner[l] = None <=> nest[l] = 0
  BY ConfigAssumption DEF Locks, DInv, ReqInv, LInv, LockTypes
<1>1. CASE RefuseAlarm(t)
  <2>1. /\ pc[t] = "alarm" /\ pc' = [pc EXCEPT ![t] = "idle"]
        /\ req' = [req EXCEPT ![t] = NoReq] /\ UNCHANGED <<alarm, sensor, asked>>
    BY <1>1 DEF RefuseAlarm, At, Goto, rowVars
  <2> QED BY <2>1, RequestsFact, QuietDInv DEF Labels
<1>2. CASE PendState(t)
  <2>1. /\ pc[t] = "states" /\ Pend(t, "DAlock", "state") /\ req[t].k > 0
        /\ UNCHANGED <<req, alarm, sensor, asked>>
    BY <1>2 DEF PendState, At, rowVars, history
  <2>2. owner["DAlock"] # t
    BY <2>1 DEF DAInv, DASection, DAEntry
  <2>3. pc' = [pc EXCEPT ![t] = "state"]
    BY <2>1, <2>2 DEF Pend
  <2>4. req[t] \in SensorReq /\ req' = [req EXCEPT ![t] = req[t]] /\ req[t] \in Requests
    BY <1>0, <2>1 DEF DInv, ReqInv
  <2> QED BY <2>1, <2>3, <2>4, QuietDInv DEF Labels
<1>3. CASE PostState(t)
  <2>1. /\ pc[t] = "state" /\ want[t] = None /\ Post(t, "DAlock", "states")
        /\ req' = [req EXCEPT ![t].k = @ - 1] /\ UNCHANGED <<alarm, sensor, asked>>
    BY <1>3 DEF PostState, At, rowVars, history
  <2>2. owner["DAlock"] = t
    BY <1>0, <2>1 DEF LInv, Holds, DASection, DAEntry
  <2>3. nest["DAlock"] = 1
    BY <1>0, <2>2 DEF DAInv
  <2>4. pc' = [pc EXCEPT ![t] = "states"]
    BY <2>1, <2>3 DEF Post
  <2>5. req[t] \in SensorReq /\ req[t].k > 0
    BY <2>1 DEF DInv, ReqInv
  <2>6. [req[t] EXCEPT !.k = @ - 1] \in SensorReq /\ [req[t] EXCEPT !.k = @ - 1].code = req[t].code
    BY <2>5, ConfigAssumption DEF SensorReq
  <2>7. req' = [req EXCEPT ![t] = [req[t] EXCEPT !.k = @ - 1]] /\ req'[t] = [req[t] EXCEPT !.k = @ - 1]
    BY <1>0, <2>1
  <2> QED BY <2>1, <2>4, <2>6, <2>7, RequestsFact, QuietDInv DEF Labels
<1>4. CASE Leave(t)
  <2>1. /\ pc[t] \in {"post", "copy", "values"} /\ req' = [req EXCEPT ![t] = NoReq]
        /\ UNCHANGED <<alarm, sensor, asked>>
    BY <1>4 DEF Leave, At, rowVars, history
  <2>2. PICK x \in {"idle", "stopped"} : pc' = [pc EXCEPT ![t] = x]
    BY <1>0, <1>4, Moves DEF Leave
  <2> QED BY <2>1, <2>2, RequestsFact, QuietDInv DEF Labels
<1>5. CASE StoreHalf(t)
  <2>1. /\ pc[t] = "store" /\ pc' = [pc EXCEPT ![t] = "rest"] /\ req' = req
        /\ UNCHANGED <<alarm, sensor, asked>>
    BY <1>5 DEF StoreHalf, At, Goto, history
  <2>2. req' = [req EXCEPT ![t] = req[t]] /\ req[t] \in Requests
    BY <1>0, <2>1
  <2> QED BY <2>1, <2>2, QuietDInv DEF Labels
<1>6. CASE StoreRest(t)
  <2>1. /\ pc[t] = "rest" /\ Post(t, "DAlock", "idle") /\ req' = [req EXCEPT ![t] = NoReq]
        /\ UNCHANGED <<alarm, sensor, asked>>
    BY <1>6 DEF StoreRest, At, history
  <2>2. PICK x \in {"idle", "stopped"} : pc' = [pc EXCEPT ![t] = x]
    BY <1>0, <2>1, Moves
  <2> QED BY <2>1, <2>2, RequestsFact, QuietDInv DEF Labels
<1> QED BY <1>1, <1>2, <1>3, <1>4, <1>5, <1>6

LEMMA DInvStep == LInv /\ DAInv /\ DInv /\ [Next]_vars => DInv'
<1> SUFFICES ASSUME LInv, DAInv, DInv, [Next]_vars PROVE DInv'
  OBVIOUS
<1>1. ASSUME NEW t \in Tasks, Step(t) PROVE DInv'
  BY <1>1, CheckAlarmDInv, WriteRecoverDInv, SetSensorDInv, EndSensorDInv, ClearDInv, MoveDInv DEF Step
<1>2. CASE Look \/ (\E t \in Tasks : Round(t)) \/ UNCHANGED vars
  <2>1. UNCHANGED <<pc, req, alarm, sensor, asked>>
    BY <1>2 DEF Look, Round, vars, rowVars, history
  <2>2. ReqInv' /\ AlarmInv'
    BY <2>1 DEF DInv, ReqInv, AlarmInv
  <2>3. SensorInv'
    BY <2>1 DEF DInv, SensorInv, Zeroing, Enabled
  <2> QED BY <2>2, <2>3 DEF DInv
<1> QED BY <1>1, <1>2, CallDInv, ResetDInv DEF Next

-----------------------------------------------------------------------------
\* Half a state is there only while its writer is between the halves
StatesInv ==
  /\ states \in [Types -> {"whole", "half", "mixed"}]
  /\ \A x \in Types : states[x] = "half" => \E u \in Tasks : pc[u] = "rest" /\ req[u].type = x

LEMMA StatesStep == LInv /\ DInv /\ StatesInv /\ [Next]_vars => StatesInv'
<1> SUFFICES ASSUME LInv, DInv, StatesInv, [Next]_vars PROVE StatesInv'
  OBVIOUS
<1>0. pc \in [Tasks -> Labels] /\ req \in [Tasks -> Requests]
  BY DEF LInv, LockTypes, DInv, ReqInv
<1>1. ASSUME NEW t \in Tasks, NEW x, NEW r, pc[t] # "rest", pc' = [pc EXCEPT ![t] = x],
             req' = [req EXCEPT ![t] = r], states' = states \/ states' = Cleared
      PROVE  StatesInv'
  BY <1>0, <1>1 DEF StatesInv, Cleared
<1>2. ASSUME NEW t \in Tasks, Step(t) PROVE StatesInv'
  <2>1. CASE StoreHalf(t)
    <3>1. /\ pc[t] = "store" /\ pc' = [pc EXCEPT ![t] = "rest"] /\ req' = req
          /\ states' = [states EXCEPT ![req[t].type] = "half"]
      BY <2>1 DEF StoreHalf, At, Goto
    <3> QED BY <1>0, <3>1 DEF StatesInv
  <2>2. CASE StoreRest(t)
    <3>1. /\ pc[t] = "rest" /\ req' = [req EXCEPT ![t] = NoReq]
          /\ states' = [states EXCEPT ![req[t].type] = IF @ = "half" THEN "whole" ELSE "mixed"]
      BY <2>2 DEF StoreRest, At
    <3>2. PICK y : pc' = [pc EXCEPT ![t] = y]
      BY <2>2, Moves DEF StoreRest, Locks
    <3>3. states' \in [Types -> {"whole", "half", "mixed"}]
      BY <3>1 DEF StatesInv
    <3>4. ASSUME NEW x \in Types, states'[x] = "half"
          PROVE  \E u \in Tasks : pc'[u] = "rest" /\ req'[u].type = x
      <4>1. x # req[t].type /\ states[x] = "half"
        BY <3>1, <3>4 DEF StatesInv
      <4>2. PICK u \in Tasks : pc[u] = "rest" /\ req[u].type = x
        BY <4>1 DEF StatesInv
      <4> QED BY <1>0, <3>1, <3>2, <4>1, <4>2
    <3> QED BY <3>3, <3>4 DEF StatesInv
  <2>3. CASE \/ CheckAlarm(t) \/ RefuseAlarm(t) \/ WriteRecover(t) \/ SetSensor(t) \/ PendState(t)
             \/ PostState(t) \/ EndSensor(t) \/ Clear(t) \/ Leave(t)
    <3>1. pc[t] # "rest"
      BY <2>3 DEF CheckAlarm, RefuseAlarm, WriteRecover, SetSensor, PendState, PostState, EndSensor, Clear,
                  Leave, At
    <3>2. \E x : pc' = [pc EXCEPT ![t] = x]
      BY <2>3, Moves DEF CheckAlarm, RefuseAlarm, WriteRecover, SetSensor, PendState, PostState, EndSensor,
                  Clear, Leave, Locks
    <3>3. \E r : req' = [req EXCEPT ![t] = r]
      <4>1. CASE UNCHANGED req
        <5>1. req' = [req EXCEPT ![t] = req[t]]
          BY <1>0, <4>1
        <5> QED BY <5>1
      <4>2. CASE ~UNCHANGED req
        BY <1>0, <2>3, <4>2 DEF CheckAlarm, RefuseAlarm, WriteRecover, SetSensor, PendState, PostState,
                  EndSensor, Clear, Leave
      <4> QED BY <4>1, <4>2
    <3>4. states' = states \/ states' = Cleared
      BY <2>3 DEF CheckAlarm, RefuseAlarm, WriteRecover, SetSensor, PendState, PostState, EndSensor, Clear,
                  Leave, rowVars
    <3> QED BY <1>1, <3>1, <3>2, <3>3, <3>4
  <2> QED BY <1>2, <2>1, <2>2, <2>3 DEF Step
<1>3. ASSUME NEW t \in Tasks, NEW r, NEW l \in Locks, NEW label, Call(t, r, l, label) PROVE StatesInv'
  <2>1. pc[t] # "rest" /\ req' = [req EXCEPT ![t] = r] /\ states' = states
    BY <1>3 DEF Call, At, rowVars
  <2> QED BY <1>1, <1>3, <2>1, Moves DEF Call
<1>4. ASSUME NEW t \in Tasks, CallSetAlarm(t) \/ CallSetSensor(t) \/ CallOther(t) PROVE StatesInv'
  BY <1>3, <1>4 DEF CallSetAlarm, CallSetSensor, CallOther, Locks
<1>5. CASE WatchdogReset
  BY <1>5 DEF WatchdogReset, StatesInv
<1>6. CASE Look \/ (\E t \in Tasks : Round(t)) \/ UNCHANGED vars
  BY <1>6 DEF Look, Round, vars, rowVars, StatesInv
<1> QED BY <1>2, <1>4, <1>5, <1>6 DEF Next

-----------------------------------------------------------------------------
\* What is left of the types
RestTypes ==
  /\ alive \in [Watched -> [current : 0 .. Wrap - 1, before : 0 .. Wrap - 1, missed : 0 .. 3]]
  /\ orders \in 0 .. MaxOrders /\ refused \subseteq Tasks

IInv == LInv /\ DAInv /\ DInv /\ StatesInv /\ RestTypes

LEMMA RestStep == RestTypes /\ [Next]_vars => RestTypes'
<1> SUFFICES ASSUME RestTypes, [Next]_vars PROVE RestTypes'
  OBVIOUS
<1> USE DEF history
<1>0. Wrap \in Nat \ {0, 1} /\ MaxOrders \in Nat /\ orders \in 0 .. MaxOrders
  BY ConfigAssumption DEF RestTypes
<1>1. ASSUME NEW t \in Tasks, Step(t) PROVE RestTypes'
  BY <1>1 DEF Step, CheckAlarm, RefuseAlarm, WriteRecover, SetSensor, PendState, PostState, EndSensor,
              Clear, StoreHalf, StoreRest, Leave, RestTypes
<1>2. \A t \in Tasks : \A r, l, label : Call(t, r, l, label) => RestTypes'
  BY <1>0 DEF Call, RestTypes
<1>3. ASSUME NEW t \in Tasks, CallSetAlarm(t) \/ CallSetSensor(t) \/ CallOther(t) PROVE RestTypes'
  BY <1>2, <1>3 DEF CallSetAlarm, CallSetSensor, CallOther
<1>4. ASSUME NEW t \in Tasks, Round(t) PROVE RestTypes'
  <2>1. \A c \in 0 .. Wrap - 1 : (c + 1) % Wrap \in 0 .. Wrap - 1
    BY <1>0
  <2> QED BY <1>0, <1>4, <2>1 DEF Round, RestTypes
<1>5. CASE Look
  <2> DEFINE R == [current : 0 .. Wrap - 1, before : 0 .. Wrap - 1, missed : 0 .. 3]
  <2>1. ASSUME NEW a \in R PROVE IsTaskAlive(a) \in R
    <3> DEFINE n == IF a.before # a.current THEN 0 ELSE IF a.missed < 3 THEN a.missed + 1 ELSE 3
    <3>1. n \in 0 .. 3 /\ a.current \in 0 .. Wrap - 1
      OBVIOUS
    <3>2. IsTaskAlive(a) = [current |-> a.current, before |-> a.current, missed |-> n]
      BY DEF IsTaskAlive
    <3> QED BY <3>1, <3>2
  <2> QED BY <1>5, <2>1 DEF Look, RestTypes
<1>6. CASE WatchdogReset
  BY <1>0, <1>6 DEF WatchdogReset, RestTypes
<1>7. CASE UNCHANGED vars
  BY <1>7 DEF vars, RestTypes
<1> QED BY <1>1, <1>3, <1>4, <1>5, <1>6, <1>7 DEF Next

LEMMA InitIInv == Init => IInv
<1> SUFFICES ASSUME Init PROVE IInv
  OBVIOUS
<1>1. DAInv
  BY ConfigAssumption DEF Init, DAInv, Locks
<1>2. RestTypes
  BY ConfigAssumption DEF Init, RestTypes
<1>3. StatesInv
  BY DEF Init, StatesInv
<1> QED BY <1>1, <1>2, <1>3, InitLInv, InitDInv DEF IInv

LEMMA IInvInvariant == Spec => []IInv
<1>1. IInv /\ [Next]_vars => IInv'
  BY LInvStep, DAInvStep, DInvStep, StatesStep, RestStep DEF IInv
<1> QED BY InitIInv, <1>1, PTL DEF Spec

\* Types of the configuration, the mutexes and the supervision; a mutex is
\* waited for and nested only while it has an owner.
THEOREM TypeCorrect == Spec => []TypeOK
<1>1. IInv => TypeOK
  BY DEF IInv, LInv, LockTypes, DInv, ReqInv, AlarmInv, SensorInv, StatesInv, RestTypes, TypeOK
<1> QED BY <1>1, IInvInvariant, PTL

\* get_config never sees thresholds of two items or another task inside
\* Datalock, although a refused set_alarm leaves it behind, and half a state
\* only while set_sys_sensor_State, which does without Datalock, is preempted.
THEOREM CopyIsWhole == Spec => []CopiesAreWhole
<1>1. IInv => CopiesAreWhole
  <2> SUFFICES ASSUME IInv, NEW t \in Tasks, pc[t] = "copy", InDatalock(t)
               PROVE  /\ Paired(alarm) /\ \A u \in Tasks \ {t} : ~InDatalock(u)
                      /\ \A x \in Types : states[x] = "half" => \E u \in Tasks : pc[u] = "rest" /\ req[u].type = x
    BY DEF CopiesAreWhole
  <2>1. \A u \in Tasks \ {t} : ~InDatalock(u) /\ pc[u] # "recover"
    BY Alone DEF IInv
  <2> QED BY <2>1 DEF IInv, DInv, AlarmInv, Paired, StatesInv
<1> QED BY <1>1, IInvInvariant, PTL

\* Outside of setters the sensors that are polled are those the accepted
\* requests enabled, up to the next factory_resrt.
THEOREM SensorsAsAsked == Spec => []EnabledAsAsked
<1>1. IInv => EnabledAsAsked
  BY DEF IInv, DInv, SensorInv, EnabledAsAsked
<1> QED BY <1>1, IInvInvariant, PTL
=============================================================================
