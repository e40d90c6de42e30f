------------------------------ MODULE Config ------------------------------
(***************************************************************************)
(* The configuration in RAM, the mutexes around it and the supervision of   *)
(* the tasks that wait for them.  sysconfig is changed by the setters of    *)
(* the data service and the shell under Datalock and copied by get_config   *)
(* under the same mutex; the sensors' values and states are under DAlock,   *)
(* which set_sensor takes while it holds Datalock.  One part of sysconfig   *)
(* is under neither alone: set_sys_sensor_State writes Sensor_State under   *)
(* DAlock, while set_sensor and factory_resrt clear it, and get_config      *)
(* copies it, under Datalock.                                              *)
(*                                                                         *)
(* set_alarm returns from its loop with Datalock pended when an item is     *)
(* wrong.  What follows depends on the build: with assertions the next      *)
(* OSMutexPend of the same task stops it and, below its priority, all       *)
(* others, until the watchdog, which nobody feeds then, restarts the board; *)
(* without them the task nests for ever and the others wait for ever.       *)
(* Storing the configuration is the subject of Sds.                        *)
(***************************************************************************)
EXTENDS Naturals, Sequences, FiniteSets

CONSTANTS Tasks, None,
          Prio,      \* priorities, the smaller number runs first
          Ops,       \* Ops[t]: the calls task t makes
          DEV_NUM,   \* sensors
          ALARM_NUM, \* elements of sysconfig.Alarm
          Level,     \* values of an alarm's thresholds
          Batches,   \* items of the requests for set_alarm
          MaxNest,   \* largest value of a nesting counter
          Watched,   \* tasks in task_alive_list
          Wrap,      \* the alive counters count modulo Wrap
          MaxOrders  \* calls made for the platform, the serial port or the user

Locks   == {"Datalock", "DAlock"}
OpNames == {"set_alarm", "set_sensor", "factory_resrt", "set_config_report", "get_config",
            "get_Monitor", "set_sys_sensor_State"}
Types   == 0 .. DEV_NUM - 1
Alarms  == 1 .. ALARM_NUM
Devs    == 1 .. DEV_NUM
Item    == [value : Level, recover : Level]

ASSUME ConfigAssumption ==
  /\ None \notin Tasks \cup Locks /\ Watched \subseteq Tasks
  /\ Prio \in [Tasks -> Nat] /\ \A t, u \in Tasks : Prio[t] = Prio[u] => t = u
  /\ Ops \in [Tasks -> SUBSET OpNames]
  /\ {DEV_NUM, ALARM_NUM} \subseteq Nat \ {0}
  /\ Level \subseteq Nat /\ 0 \in Level
  /\ Batches \subseteq UNION {[1 .. n -> Item] : n \in Alarms}
  /\ MaxNest \in Nat \ {0} /\ Wrap \in Nat \ {0, 1} /\ MaxOrders \in Nat

VARIABLES asserts,          \* the build has assertions (constant)
          owner, nest,      \* OwnerTCBPtr, OwnerNestingCtr of each mutex
          pc, req, want,    \* where a task is, its request, the mutex it waits for
          alarm, sensor,    \* sysconfig.Alarm, sysconfig.Sensor
          states,           \* sysconfig.Sensor_State: an element is of one write, holds the
                            \* first half of a write, or halves of two
          alive,            \* task_alive_list
          asked, refused,   \* types enabled by accepted requests or None, tasks whose
                            \* set_alarm was refused (history)
          orders            \* bound

lockVars == <<owner, nest>>
rowVars  == <<alarm, sensor, states>>
history  == <<asked, refused>>
vars == <<asserts, owner, nest, pc, req, want, alarm, sensor, states, alive, asked, refused, orders>>

NoReq == [op |-> "none"]

\* Requests: up to one item per alarm, one sensor type
Requests ==
  {NoReq}
  \cup [op : {"set_alarm"}, items : UNION {[1 .. n -> Item] : n \in Alarms}, i : 0 .. ALARM_NUM]
  \cup [op : {"set_sensor"}, code : {"SET", "DEL", "DELALL"}, type : Types, k : 0 .. DEV_NUM]
  \cup [op : {"set_sys_sensor_State"}, type : Types]
  \cup [op : OpNames \ {"set_alarm", "set_sensor", "set_sys_sensor_State"}]

Enabled(tab) == {tab[d].type : d \in {e \in Devs : tab[e].enFlag}}

Paired(a) == \A i \in Alarms : a[i].recover <= a[i].value

Init ==
  /\ asserts \in BOOLEAN
  /\ owner = [l \in Locks |-> None] /\ nest = [l \in Locks |-> 0]
  /\ pc = [t \in Tasks |-> "idle"] /\ req = [t \in Tasks |-> NoReq]
  /\ want = [t \in Tasks |-> None]
  /\ alarm = [i \in Alarms |-> [value |-> 0, recover |-> 0]]
  /\ sensor = [d \in Devs |-> [type |-> d - 1, enFlag |-> FALSE]]
  /\ states = [x \in Types |-> "whole"]
  /\ alive = [t \in Watched |-> [current |-> 0, before |-> 0, missed |-> 0]]
  /\ asked = {} /\ refused = {} /\ orders = 0

-----------------------------------------------------------------------------
(* Mutexes *)

\* A task that stopped in an assertion loops at its priority
Runs(t) == pc[t] # "stopped" /\ ~\E u \in Tasks : pc[u] = "stopped" /\ Prio[u] < Prio[t]

\* Fault: the wait has a time limit, and its result is not looked at.
PendForAWhile(t, l, next) ==
  /\ IF owner[l] = None THEN owner' = [owner EXCEPT ![l] = t] /\ nest' = [nest EXCEPT ![l] = 1]
                        ELSE UNCHANGED lockVars
  /\ pc' = [pc EXCEPT ![t] = next]
  /\ UNCHANGED want

\* OSMutexPend: of the owner it only nests, which is reported as an error
Pend(t, l, next) ==
  \/ /\ owner[l] = None
     /\ owner' = [owner EXCEPT ![l] = t] /\ nest' = [nest EXCEPT ![l] = 1]
     /\ pc' = [pc EXCEPT ![t] = next]
     /\ UNCHANGED want
  \/ /\ owner[l] = t
     /\ nest' = [nest EXCEPT ![l] = IF @ = MaxNest THEN @ ELSE @ + 1]
     /\ pc' = [pc EXCEPT ![t] = IF asserts THEN "stopped" ELSE next]
     /\ UNCHANGED <<owner, want>>
  \/ /\ owner[l] \notin {None, t}
     /\ want' = [want EXCEPT ![t] = l]
     /\ pc' = [pc EXCEPT ![t] = next]
     /\ UNCHANGED lockVars

Waiting(l) == {t \in Tasks : want[t] = l}

\* Fault: the waiting tasks are left to find out by themselves.
PostFree(t, l, next) ==
  /\ owner' = [owner EXCEPT ![l] = None] /\ nest' = [nest EXCEPT ![l] = 0]
  /\ pc' = [pc EXCEPT ![t] = next]
  /\ UNCHANGED want

\* OSMutexPost: the waiting task of the highest priority becomes the owner
Post(t, l, next) ==
  \/ /\ nest[l] > 1
     /\ nest' = [nest EXCEPT ![l] = @ - 1]
     /\ pc' = [pc EXCEPT ![t] = IF asserts THEN "stopped" ELSE next]
     /\ UNCHANGED <<owner, want>>
  \/ /\ nest[l] = 1
     /\ pc' = [pc EXCEPT ![t] = next]
     /\ \/ /\ Waiting(l) = {}
           /\ owner' = [owner EXCEPT ![l] = None] /\ nest' = [nest EXCEPT ![l] = 0]
           /\ UNCHANGED want
        \/ \E w \in Waiting(l) :
             /\ \A u \in Waiting(l) : Prio[w] <= Prio[u]
             /\ owner' = [owner EXCEPT ![l] = w]
             /\ want' = [want EXCEPT ![w] = None]
             /\ UNCHANGED nest

\* Task t is in the code behind label, and not inside OSMutexPend
At(t, label) == pc[t] = label /\ want[t] = None /\ Runs(t)

-----------------------------------------------------------------------------
(* Setters and getters *)

\* A watched task calls in every round, the others when they are told to
Call(t, r, l, label) ==
  /\ At(t, "idle") /\ r.op \in Ops[t]
  /\ IF t \in Watched THEN UNCHANGED orders ELSE orders < MaxOrders /\ orders' = orders + 1
  /\ req' = [req EXCEPT ![t] = r]
  /\ Pend(t, l, label)
  /\ UNCHANGED <<asserts, rowVars, alive, history>>

CallSetAlarm(t) == \E items \in Batches :
  Call(t, [op |-> "set_alarm", items |-> items, i |-> 0], "Datalock", "alarm")

CallSetSensor(t) == \E code \in {"SET", "DEL", "DELALL"}, type \in Types :
  /\ code = "DELALL" => type = 0
  /\ Call(t, [op |-> "set_sensor", code |-> code, type |-> type, k |-> 0], "Datalock", "sensor")

CallOther(t) ==
  \/ Call(t, [op |-> "factory_resrt"], "Datalock", "clear")
  \/ Call(t, [op |-> "set_config_report"], "Datalock", "post")
  \/ Call(t, [op |-> "get_config"], "Datalock", "copy")
  \/ Call(t, [op |-> "get_Monitor"], "DAlock", "values")
  \/ \E type \in Types :
       Call(t, [op |-> "set_sys_sensor_State", type |-> type], "DAlock", "store")

Goto(t, label) ==
  pc' = [pc EXCEPT ![t] = label] /\ UNCHANGED <<lockVars, want>>

\* An item is checked, and its first threshold written
CheckAlarm(t) ==
  /\ At(t, "alarm") /\ req[t].i < Len(req[t].items)
  /\ LET i == req[t].i + 1  item == req[t].items[i] IN
       /\ item.recover <= item.value
       /\ alarm' = [alarm EXCEPT ![i].value = item.value]
  /\ Goto(t, "recover")
  /\ UNCHANGED <<asserts, req, sensor, states, alive, history, orders>>

\* return SET_ERROR: Datalock stays pended
RefuseAlarm(t) ==
  /\ At(t, "alarm") /\ req[t].i < Len(req[t].items)
  /\ LET item == req[t].items[req[t].i + 1] IN item.recover > item.value
  /\ Goto(t, "idle")
  /\ req' = [req EXCEPT ![t] = NoReq]
  /\ refused' = refused \cup {t}
  /\ UNCHANGED <<asserts, rowVars, alive, asked, orders>>

WriteRecover(t) ==
  /\ At(t, "recover")
  /\ LET i == req[t].i + 1 IN
       /\ alarm' = [alarm EXCEPT ![i].recover = req[t].items[i].recover]
       /\ req' = [req EXCEPT ![t].i = i]
  /\ Goto(t, IF req'[t].i = Len(req[t].items) THEN "post" ELSE "alarm")
  /\ UNCHANGED <<asserts, sensor, states, alive, history, orders>>

\* The elements of the table a request is about
Matching(type) == {d \in Devs : sensor[d].type = type}

\* memset of Sensor_State, whoever is writing there
Cleared == [x \in Types |-> "whole"]

\* enFlag of the elements, or both tables, before the states in DA_service are set
SetSensor(t) ==
  /\ At(t, "sensor")
  /\ LET r == req[t]  M == Matching(r.type) IN
       /\ sensor' = [d \in Devs |->
            IF r.code = "DELALL" THEN [type |-> 0, enFlag |-> FALSE]
            ELSE IF d \in M THEN [sensor[d] EXCEPT !.enFlag = r.code = "SET"] ELSE sensor[d]]
       /\ req' = [req EXCEPT ![t].k = CASE r.code = "SET" -> 0
                                        [] r.code = "DEL" -> Cardinality(M)
                                        [] OTHER          -> DEV_NUM]
       /\ states' = IF r.code = "DELALL" THEN Cleared ELSE states
       /\ asked' = IF r.code = "DELALL" THEN {}
                   ELSE IF asked = None THEN None
                   ELSE IF r.code = "SET" THEN asked \cup {r.type} ELSE asked \ {r.type}
  /\ Goto(t, "states")
  /\ UNCHANGED <<asserts, alarm, alive, refused, orders>>

\* set_sensor_State for one element after the other
PendState(t) ==
  /\ At(t, "states") /\ req[t].k > 0
  /\ Pend(t, "DAlock", "state")
  /\ UNCHANGED <<asserts, req, rowVars, alive, history, orders>>

PostState(t) ==
  /\ At(t, "state")
  /\ req' = [req EXCEPT ![t].k = @ - 1]
  /\ Post(t, "DAlock", "states")
  /\ UNCHANGED <<asserts, rowVars, alive, history, orders>>

\* Fault: OPCODE_DELALL leaves the types at 0.
EndSensorZeroed(t) ==
  /\ At(t, "states") /\ req[t].k = 0
  /\ Goto(t, "post")
  /\ UNCHANGED <<asserts, req, rowVars, alive, history, orders>>

EndSensor(t) ==
  /\ At(t, "states") /\ req[t].k = 0
  /\ sensor' = IF req[t].code = "DELALL" THEN [d \in Devs |-> [sensor[d] EXCEPT !.type = d - 1]]
                                         ELSE sensor
  /\ Goto(t, "post")
  /\ UNCHANGED <<asserts, req, alarm, states, alive, history, orders>>

\* Fault: factory_resrt returns with Datalock pended as well.
ClearKept(t) ==
  /\ At(t, "clear")
  /\ alarm' = [i \in Alarms |-> [value |-> 0, recover |-> 0]]
  /\ sensor' = [d \in Devs |-> [type |-> 0, enFlag |-> FALSE]]
  /\ states' = Cleared
  /\ asked' = None
  /\ Goto(t, "idle")
  /\ req' = [req EXCEPT ![t] = NoReq]
  /\ UNCHANGED <<asserts, alive, refused, orders>>

\* factory_resrt leaves every element of the table with type 0
Clear(t) ==
  /\ At(t, "clear")
  /\ alarm' = [i \in Alarms |-> [value |-> 0, recover |-> 0]]
  /\ sensor' = [d \in Devs |-> [type |-> 0, enFlag |-> FALSE]]
  /\ states' = Cleared
  /\ asked' = None
  /\ Goto(t, "post")
  /\ UNCHANGED <<asserts, req, alive, refused, orders>>

\* set_sys_sensor_State, by a task of low priority: memcpy of the one element
StoreHalf(t) ==
  /\ At(t, "store")
  /\ states' = [states EXCEPT ![req[t].type] = "half"]
  /\ Goto(t, "rest")
  /\ UNCHANGED <<asserts, req, alarm, sensor, alive, history, orders>>

\* Behind it Sensor_State may have been cleared
StoreRest(t) ==
  /\ At(t, "rest")
  /\ states' = [states EXCEPT ![req[t].type] = IF @ = "half" THEN "whole" ELSE "mixed"]
  /\ Post(t, "DAlock", "idle")
  /\ req' = [req EXCEPT ![t] = NoReq]
  /\ UNCHANGED <<asserts, alarm, sensor, alive, history, orders>>

\* The end of a setter or of get_config, whose copy is made in one step
Leave(t) ==
  /\ \/ (At(t, "post") \/ At(t, "copy")) /\ Post(t, "Datalock", "idle")
     \/ At(t, "values") /\ Post(t, "DAlock", "idle")
  /\ req' = [req EXCEPT ![t] = NoReq]
  /\ UNCHANGED <<asserts, rowVars, alive, history, orders>>

-----------------------------------------------------------------------------
(* Supervision *)

\* set_task_alive_state, at the end of a round of a service's loop
Round(t) ==
  /\ At(t, "idle") /\ t \in Watched
  /\ alive' = [alive EXCEPT ![t].current = (@ + 1) % Wrap]
  /\ UNCHANGED <<asserts, lockVars, pc, req, want, rowVars, history, orders>>

\* Fault: the count is not remembered.
IsTaskAliveForgets(a) ==
  [current |-> a.current, before |-> IF a.before # a.current THEN a.before ELSE a.current,
   missed  |-> IF a.before # a.current THEN 0 ELSE IF a.missed < 3 THEN a.missed + 1 ELSE 3]

\* The counts of rounds and, up to 3, of looks that found no new round
IsTaskAlive(a) ==
  [current |-> a.current, before |-> a.current,
   missed  |-> IF a.before # a.current THEN 0 ELSE IF a.missed < 3 THEN a.missed + 1 ELSE 3]

\* A task that is logged as not alive; nothing else happens to it
Reported(t) == alive[t].missed > 2

\* is_all_task_alive and the feeding of the watchdog, at the lowest priority
Look ==
  /\ \A t \in Tasks : pc[t] # "stopped"
  /\ alive' = [t \in Watched |-> IsTaskAlive(alive[t])]
  /\ UNCHANGED <<asserts, lockVars, pc, req, want, rowVars, history, orders>>

\* The watchdog; what a restart finds in the flash is the subject of Sds
WatchdogReset ==
  /\ \E t \in Tasks : pc[t] = "stopped"
  /\ owner' = [l \in Locks |-> None] /\ nest' = [l \in Locks |-> 0]
  /\ pc' = [t \in Tasks |-> "idle"] /\ req' = [t \in Tasks |-> NoReq]
  /\ want' = [t \in Tasks |-> None]
  /\ alarm' = [i \in Alarms |-> [value |-> 0, recover |-> 0]]
  /\ sensor' = [d \in Devs |-> [type |-> d - 1, enFlag |-> FALSE]]
  /\ states' = [x \in Types |-> "whole"]
  /\ alive' = [t \in Watched |-> [current |-> 0, before |-> 0, missed |-> 0]]
  /\ asked' = {} /\ refused' = {}
  /\ UNCHANGED <<asserts, orders>>

-----------------------------------------------------------------------------
\* What a task does by itself once it has a request
Step(t) == CheckAlarm(t) \/ RefuseAlarm(t) \/ WriteRecover(t) \/ SetSensor(t) \/ PendState(t)
           \/ PostState(t) \/ EndSensor(t) \/ Clear(t) \/ StoreHalf(t) \/ StoreRest(t) \/ Leave(t)

Next == Look \/ WatchdogReset \/ \E t \in Tasks :
          Step(t) \/ CallSetAlarm(t) \/ CallSetSensor(t) \/ CallOther(t) \/ Round(t)

Spec == Init /\ [][Next]_vars

FairSpec == /\ Spec /\ WF_vars(Look) /\ WF_vars(WatchdogReset)
            /\ \A t \in Tasks : WF_vars(Step(t))

-----------------------------------------------------------------------------
Labels == {"idle", "alarm", "recover", "sensor", "states", "state", "clear", "copy", "post",
           "values", "store", "rest", "stopped"}

\* Types, and a mutex is nested or waited for only while somebody owns it
TypeOK ==
  /\ asserts \in BOOLEAN
  /\ owner \in [Locks -> Tasks \cup {None}] /\ nest \in [Locks -> 0 .. MaxNest]
  /\ pc \in [Tasks -> Labels] /\ req \in [Tasks -> Requests]
  /\ want \in [Tasks -> Locks \cup {None}]
  /\ alarm \in [Alarms -> Item] /\ sensor \in [Devs -> [type : Types, enFlag : BOOLEAN]]
  /\ states \in [Types -> {"whole", "half", "mixed"}]
  /\ alive \in [Watched -> [current : 0 .. Wrap - 1, before : 0 .. Wrap - 1, missed : 0 .. 3]]
  /\ orders \in 0 .. MaxOrders /\ asked \in (SUBSET Types) \cup {None} /\ refused \subseteq Tasks
  /\ \A l \in Locks : (owner[l] = None) <=> (nest[l] = 0)
  /\ \A l \in Locks : owner[l] = None => Waiting(l) = {}

\* Where a task has Datalock to itself: between its Pend and its Post
InDatalock(t) == want[t] # "Datalock"
                 /\ pc[t] \in {"alarm", "recover", "sensor", "states", "state", "clear", "copy", "post"}

\* What get_config copies (data_service.c:168-176), although some set_alarm
\* may have kept the lock.  No other task is in a function that takes Datalock,
\* so that every pair of thresholds is of one item, and the first items of a
\* request that was refused later on are whole too.  The state of a sensor is
\* written without Datalock (DA_service.c:186-197): the copy may hold half of
\* it, but of no other element than the one whose writer was preempted there.
CopiesAreWhole ==
  \A t \in Tasks : pc[t] = "copy" /\ InDatalock(t) =>
    /\ Paired(alarm)
    /\ \A u \in Tasks \ {t} : ~InDatalock(u)
    /\ \A x \in Types : states[x] = "half" => \E u \in Tasks : pc[u] = "rest" /\ req[u].type = x

\* A set_sensor the platform saw accepted takes effect: outside of setters,
\* the sensors that are polled (LSpeed_485poll looks at enFlag and type) are
\* those the requests enabled last.  Nothing is promised between a
\* factory_resrt, which zeroes the types, and the next OPCODE_DELALL or start.
EnabledAsAsked ==
  (asked # None /\ \A t \in Tasks : ~InDatalock(t)) => Enabled(sensor) = asked

\* Datalock was kept by a set_alarm that was refused
Kept == \E t \in refused : owner["Datalock"] = t

\* Nobody waits for ever for Datalock or DAlock (DA_service.c:161-195,
\* data_service.c:171-483), in whatever order set_sensor and the others take
\* them, except behind a set_alarm that was refused.
Served == \A t \in Tasks : want[t] # None ~> (want[t] = None \/ Kept)

\* A task that hangs in OSMutexPend is reported as not alive from some time
\* on (supervision_service.c:62-92), whatever its counter stood at.
HangIsReported == \A t \in Watched : <>[](want[t] # None) => <>[]Reported(t)
=============================================================================
