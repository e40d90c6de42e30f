--------------------------- MODULE SessionProofs ---------------------------
(* Proofs about Session, for queues of any sizes and any number of faults:  *)
(* the types, that only the answer to the last login takes the device to    *)
(* work, that a device at work has its heartbeat timer, and that a login is *)
(* never forgotten while there is room for one in the register queue.       *)
EXTENDS Session, FiniteSetTheorems, WellFoundedInduction, TLAPS

TcpMsgs  == Packets \cup Orders
DataMsgs == {HeartAck, Upgrade, LocalUpgrade} \cup {LogAck(n) : n \in Sns}
Asked    == {Upgrade, LocalUpgrade}
RegMsgs  == {"LOG_IN", "LOG_OUT"}
HbMsgs   == {"START", "TIMEOUT"}

Queue(q, S, cap) == q \in Seq(S) /\ Len(q) <= cap

QueueTypes ==
  /\ Queue(tcpq, TcpMsgs, TcpCap) /\ Queue(wire, Packets, WireCap)
  /\ Queue(dataq, DataMsgs, DataCap) /\ Queue(ackq, Sns, AckCap)
  /\ Queue(regq, RegMsgs, RegCap) /\ Queue(hbq, HbMsgs, HbCap)

ConnTypes ==
  /\ tpc \in {"connect", "standby", "login", "loop", "last"}
  /\ conn \in {"none", "up", "down"} /\ (conn = "none" <=> tpc \in {"connect", "last"})
  /\ conn # "up" => wire = <<>>

TaskTypes ==
  /\ dev \in {"NOT_RDY", "STAND_BY", "WORK", "UPGRADE"} /\ dpc \in {"idle", "erase"}
  /\ rpc \in {"idle", "send", "wait", "work", "start", "fail", "reset"}
  /\ tries \in 0 .. 3 /\ (rpc = "wait" => tries # 0)
  /\ mySeq \in Sns /\ accepted \in BOOLEAN
  /\ tmr \in BOOLEAN /\ hbtmr \in BOOLEAN /\ upd \in Nat /\ daInit \in BOOLEAN
  /\ hpc \in {"idle", "load", "store", "test", "standby", "login"}
  /\ tmp \in 0 .. 3 /\ counter \in 0 .. 3
  /\ losses \in 0 .. MaxLosses

\* TypeOK without the bound of upd, and with what register service counts on
Types == QueueTypes /\ ConnTypes /\ TaskTypes

\* Where and how often a message of M waits in q
At(q, M)    == {i \in 1 .. Len(q) : q[i] \in M}
Count(q, M) == Cardinality(At(q, M))

\* Every order to upgrade or to restart that is under way was one of the losses
Budget == Count(dataq, Asked) + (IF dpc = "erase" THEN 1 ELSE 0) + upd
            + Count(regq, {"LOG_OUT"}) <= losses

\* Only an accepted login can have its number in an acknowledgement
AckInv ==
  /\ rpc = "wait" => /\ Contains(ackq, mySeq) \/ Contains(dataq, LogAck(mySeq)) => accepted
                     /\ ~Contains(tcpq, Logout(mySeq)) /\ ~Contains(wire, Logout(mySeq))
  /\ rpc = "work" => accepted

\* Only a timer that runs sends its message
WatchInv == Contains(hbq, "TIMEOUT") => hbtmr

\* The next LOG_IN is not lost: there is room for it, or one waits already
Room == Len(regq) < RegCap \/ Contains(regq, "LOG_IN")

Pending ==
  \/ tpc # "loop" \/ conn = "down" \/ tmr \/ Contains(regq, "LOG_IN")
  \/ rpc \in {"send", "wait", "work", "fail"} \/ hpc \in {"standby", "login"}

PendInv == dev \in {"NOT_RDY", "STAND_BY"} => Pending

\* The timer runs from the first START on; until then a login is ahead
WatchAhead == Watched \/ Pending

-----------------------------------------------------------------------------
(* Queues                                                                  *)

LEMMA QueueIsBounded ==
  ASSUME NEW q, NEW S, NEW cap \in Nat
  PROVE  q \in BoundedSeq(S, cap) <=> Queue(q, S, cap)
<1>1. ASSUME NEW m \in 0 .. cap, q \in [1 .. m -> S] PROVE Queue(q, S, cap)
  <2>1. q \in Seq(S)
    BY <1>1
  <2>2. Len(q) = m
    BY <1>1, <2>1
  <2> QED BY <2>1, <2>2 DEF Queue
<1>2. ASSUME Queue(q, S, cap) PROVE Len(q) \in 0 .. cap /\ q \in [1 .. Len(q) -> S]
  BY <1>2 DEF Queue
<1> QED BY <1>1, <1>2 DEF BoundedSeq, SeqOf

LEMMA QueueEmpty ==
  ASSUME NEW S, NEW cap \in Nat
  PROVE  Queue(<<>>, S, cap)
BY DEF Queue

LEMMA QueueSent ==
  ASSUME NEW S, NEW cap \in Nat, NEW q, Queue(q, S, cap), NEW m \in S
  PROVE  Queue(Sent(q, cap, m), S, cap)
BY DEF Queue, Sent

LEMMA QueueTail ==
  ASSUME NEW S, NEW cap \in Nat, NEW q, Queue(q, S, cap), q # <<>>
  PROVE  Queue(Tail(q), S, cap) /\ Head(q) \in S
BY DEF Queue

LEMMA ContainsEmpty == \A m : ~Contains(<<>>, m)
BY DEF Contains

LEMMA ContainsSent ==
  ASSUME NEW S, NEW cap \in Nat, NEW q, Queue(q, S, cap), NEW m \in S, NEW x
  PROVE  /\ Contains(q, x) => Contains(Sent(q, cap, m), x)
         /\ Contains(Sent(q, cap, m), x) => Contains(q, x) \/ (x = m /\ Len(q) < cap)
         /\ Len(q) < cap => Contains(Sent(q, cap, m), m)
<1>1. q \in Seq(S) /\ Len(q) \in Nat
  BY DEF Queue
<1>2. CASE Len(q) < cap
  <2>1. Sent(q, cap, m) = Append(q, m) /\ Len(Append(q, m)) = Len(q) + 1
    BY <1>1, <1>2 DEF Sent
  <2>2. \A i \in 1 .. Len(q) : Append(q, m)[i] = q[i]
    BY <1>1
  <2>3. Append(q, m)[Len(q) + 1] = m
    BY <1>1
  <2> QED BY <1>1, <1>2, <2>1, <2>2, <2>3 DEF Contains
<1>3. CASE ~(Len(q) < cap)
  BY <1>3 DEF Sent
<1> QED BY <1>2, <1>3

LEMMA ContainsTail ==
  ASSUME NEW S, NEW cap \in Nat, NEW q, Queue(q, S, cap), q # <<>>, NEW x
  PROVE  /\ Contains(q, x) <=> x = Head(q) \/ Contains(Tail(q), x)
<1>1. q \in Seq(S) /\ Len(q) \in Nat \ {0} /\ Head(q) = q[1] /\ Len(Tail(q)) = Len(q) - 1
  BY DEF Queue
<1>2. \A i \in 1 .. Len(q) - 1 : Tail(q)[i] = q[i + 1]
  BY <1>1
<1>3. ASSUME NEW i \in 1 .. Len(q), q[i] = x PROVE x = Head(q) \/ Contains(Tail(q), x)
  <2>1. CASE i = 1
    BY <1>1, <1>3, <2>1
  <2>2. CASE i # 1
    <3>1. i - 1 \in 1 .. Len(q) - 1 /\ Tail(q)[i - 1] = q[i]
      BY <1>1, <1>2, <2>2
    <3> QED BY <1>1, <1>3, <3>1 DEF Contains
  <2> QED BY <2>1, <2>2
<1>4. ASSUME NEW i \in 1 .. Len(q) - 1, Tail(q)[i] = x PROVE Contains(q, x)
  BY <1>1, <1>2, <1>4 DEF Contains
<1>5. Contains(q, Head(q))
  BY <1>1 DEF Contains
<1> QED BY <1>1, <1>3, <1>4, <1>5 DEF Contains

LEMMA CountType ==
  ASSUME NEW S, NEW cap \in Nat, NEW q, Queue(q, S, cap), NEW X
  PROVE  IsFiniteSet(At(q, X)) /\ Count(q, X) \in Nat /\ Count(<<>>, X) = 0
<1>1. Len(q) \in Nat /\ IsFiniteSet(1 .. Len(q))
  BY FS_Interval DEF Queue
<1>2. At(q, X) \in SUBSET (1 .. Len(q)) /\ At(<<>>, X) = {}
  BY DEF At
<1>3. IsFiniteSet(At(q, X))
  BY <1>1, <1>2, FS_Subset
<1> QED BY <1>2, <1>3, FS_CardinalityType, FS_EmptySet DEF Count

LEMMA CountSent ==
  ASSUME NEW S, NEW cap \in Nat, NEW q, Queue(q, S, cap), NEW m \in S, NEW X
  PROVE  Count(Sent(q, cap, m), X) <= Count(q, X) + (IF m \in X THEN 1 ELSE 0)
<1>1. IsFiniteSet(At(q, X)) /\ Count(q, X) \in Nat
  BY CountType
<1>2. CASE Len(q) < cap
  <2>1. q \in Seq(S) /\ Len(q) \in Nat
    BY DEF Queue
  <2>2. /\ Len(Append(q, m)) = Len(q) + 1 /\ Append(q, m)[Len(q) + 1] = m
        /\ \A i \in 1 .. Len(q) : Append(q, m)[i] = q[i]
    BY <2>1
  <2>3. /\ Sent(q, cap, m) = Append(q, m) /\ Len(q) + 1 \notin At(q, X)
        /\ At(Append(q, m), X) = IF m \in X THEN At(q, X) \cup {Len(q) + 1} ELSE At(q, X)
    BY <1>2, <2>1, <2>2 DEF At, Sent
  <2>4. CASE m \in X
    <3>1. Cardinality(At(q, X) \cup {Len(q) + 1}) = Cardinality(At(q, X)) + 1
      BY <1>1, <2>3, FS_AddElement
    <3> QED BY <1>1, <2>3, <2>4, <3>1 DEF Count
  <2>5. CASE m \notin X
    BY <1>1, <2>3, <2>5 DEF Count
  <2> QED BY <2>4, <2>5
<1>3. CASE ~(Len(q) < cap)
  BY <1>1, <1>3 DEF Sent
<1> QED BY <1>2, <1>3

LEMMA CountTail ==
  ASSUME NEW S, NEW cap \in Nat, NEW q, Queue(q, S, cap), q # <<>>, NEW X
  PROVE  Count(Tail(q), X) + (IF Head(q) \in X THEN 1 ELSE 0) <= Count(q, X)
<1> DEFINE A == At(q, X) \ {1}
           B == At(Tail(q), X)
           f == [i \in B |-> i + 1]
<1>1. /\ q \in Seq(S) /\ Len(q) \in Nat \ {0} /\ Head(q) = q[1]
      /\ Len(Tail(q)) = Len(q) - 1 /\ \A i \in 1 .. Len(q) - 1 : Tail(q)[i] = q[i + 1]
  BY DEF Queue
<1>2. IsFiniteSet(At(q, X)) /\ Count(q, X) \in Nat
  BY CountType
<1>3. IsFiniteSet(A) /\ Cardinality(A) = Count(q, X) - (IF Head(q) \in X THEN 1 ELSE 0)
  <2>1. 1 \in At(q, X) <=> Head(q) \in X
    BY <1>1 DEF At
  <2> QED BY <1>2, <2>1, FS_RemoveElement DEF Count
<1>4. f \in Injection(B, A)
  <2>1. f \in [B -> A]
    BY <1>1 DEF At
  <2>2. \A i, j \in B : f[i] = f[j] => i = j
    BY <1>1 DEF At
  <2> QED BY <2>1, <2>2 DEF Injection, IsInjective
<1>5. IsFiniteSet(B) /\ Cardinality(B) <= Cardinality(A) /\ Cardinality(B) \in Nat
  <2> HIDE DEF A, B, f
  <2> QED BY <1>3, <1>4, FS_Injection, FS_CardinalityType
<1> QED BY <1>2, <1>3, <1>5 DEF Count

-----------------------------------------------------------------------------
(* Messages                                                                *)

LEMMA Caps == /\ RegCap \in Nat \ {0} /\ AckCap \in Nat \ {0} /\ TcpCap \in Nat \ {0}
              /\ HbCap \in Nat \ {0} /\ DataCap \in Nat \ {0} /\ WireCap \in Nat \ {0}
              /\ MaxLosses \in Nat /\ 0 \in Sns /\ Sns \subseteq Nat
BY SessionAssumption DEF Sns

LEMMA Messages ==
  /\ {Heart, Other, Reset, CloseReq} \subseteq TcpMsgs /\ TcpMsgs \ Orders \subseteq Packets
  /\ Packets \subseteq TcpMsgs
  /\ \A n \in Sns : {Login(n), Logout(n)} \subseteq TcpMsgs /\ LogAck(n) \in DataMsgs
  /\ {HeartAck, Upgrade, LocalUpgrade} \subseteq DataMsgs
  /\ \A p \in Packets : p.sn \in Sns
  /\ \A p \in DataMsgs : p.kind = "LOGIN_ACK" => p.sn \in Sns /\ p = LogAck(p.sn)
<1>1. /\ {Heart, Other, Reset, CloseReq} \subseteq TcpMsgs /\ TcpMsgs \ Orders \subseteq Packets
      /\ Packets \subseteq TcpMsgs
  BY DEF Packets, Orders, TcpMsgs
<1>2. \A n \in Sns : {Login(n), Logout(n)} \subseteq TcpMsgs /\ LogAck(n) \in DataMsgs
  BY DEF Packets, TcpMsgs, DataMsgs
<1>3. {HeartAck, Upgrade, LocalUpgrade} \subseteq DataMsgs
  BY DEF DataMsgs
<1>4. ASSUME NEW p \in Packets PROVE p.sn \in Sns
  BY Caps DEF Packets, Heart, Other, Login, Logout
<1>5. ASSUME NEW p \in DataMsgs, p.kind = "LOGIN_ACK" PROVE p.sn \in Sns /\ p = LogAck(p.sn)
  BY <1>5 DEF DataMsgs, HeartAck, Upgrade, LocalUpgrade, LogAck
<1> QED BY <1>1, <1>2, <1>3, <1>4, <1>5

\* The sequence numbers in a queue are no more than its messages
LEMMA CarriedFew ==
  ASSUME NEW S, NEW cap \in Nat, NEW q, Queue(q, S, cap)
  PROVE  /\ IsFiniteSet(Carried(q)) /\ Cardinality(Carried(q)) \in 0 .. cap
         /\ IsFiniteSet(ToSet(q)) /\ Cardinality(ToSet(q)) \in 0 .. cap
         /\ \A p : Contains(q, p) => p.sn \in Carried(q) /\ p \in ToSet(q)
<1> DEFINE I == 1 .. Len(q)
           f == [i \in I |-> q[i].sn]
           g == [i \in I |-> q[i]]
<1>1. /\ DOMAIN q = I /\ Len(q) \in 0 .. cap
      /\ IsFiniteSet(I) /\ Cardinality(I) = Len(q)
  BY FS_Interval DEF Queue
<1>2. f \in Surjection(I, Carried(q)) /\ g \in Surjection(I, ToSet(q))
  <2>1. Carried(q) = {f[i] : i \in I} /\ ToSet(q) = {g[i] : i \in I}
    BY <1>1 DEF Carried, ToSet
  <2> QED BY <2>1 DEF Surjection, Range
<1>3. /\ IsFiniteSet(Carried(q)) /\ Cardinality(Carried(q)) <= Cardinality(I)
      /\ IsFiniteSet(ToSet(q)) /\ Cardinality(ToSet(q)) <= Cardinality(I)
  <2> HIDE DEF I, f, g
  <2> QED BY <1>1, <1>2, FS_Surjection
<1>4. Cardinality(Carried(q)) \in Nat /\ Cardinality(ToSet(q)) \in Nat
  BY <1>3, FS_CardinalityType
<1>5. \A p : Contains(q, p) => p.sn \in Carried(q) /\ p \in ToSet(q)
  BY <1>1 DEF Contains, Carried, ToSet
<1> QED BY <1>1, <1>3, <1>4, <1>5

LEMMA UnionFew ==
  ASSUME NEW S, NEW T, IsFiniteSet(S), IsFiniteSet(T)
  PROVE  /\ IsFiniteSet(S \cup T)
         /\ Cardinality(S \cup T) <= Cardinality(S) + Cardinality(T)
<1>1. /\ Cardinality(S \cap T) \in Nat /\ Cardinality(S) \in Nat /\ Cardinality(T) \in Nat
      /\ IsFiniteSet(S \cup T)
  BY FS_Intersection, FS_Union, FS_CardinalityType
<1>2. Cardinality(S \cup T) = Cardinality(S) + Cardinality(T) - Cardinality(S \cap T)
  BY FS_Union
<1> QED BY <1>1, <1>2

LEMMA Least ==
  ASSUME NEW S \in SUBSET Nat, S # {}
  PROVE  Min(S) \in S
<1>1. PICK x \in S : \A y \in S : ~(<<y, x>> \in OpToRel(<, Nat))
  BY NatLessThanWellFounded, WFMin
<1>2. \A y \in S : x <= y
  <2> SUFFICES ASSUME NEW y \in S, ~(x <= y) PROVE FALSE
    OBVIOUS
  <2>1. y < x /\ <<y, x>> \in Nat \X Nat
    OBVIOUS
  <2>2. <<y, x>> \in OpToRel(<, Nat)
    BY <2>1, Zenon DEF OpToRel
  <2> QED BY <1>1, <2>2
<1> QED BY <1>2 DEF Min

\* There are more numbers than queues have places, so get_seqID finds one that
\* nothing under way carries
LEMMA NewSeqIsNew ==
  ASSUME QueueTypes, mySeq \in Sns
  PROVE  /\ NewSeq \in Sns
         /\ ~Contains(tcpq, Login(NewSeq)) /\ ~Contains(tcpq, Logout(NewSeq))
         /\ ~Contains(wire, Logout(NewSeq)) /\ ~Contains(dataq, LogAck(NewSeq))
         /\ ~Contains(ackq, NewSeq)
<1> DEFINE A == Carried(tcpq)  B == A \cup Carried(wire)  C == B \cup Carried(dataq)
           D == C \cup ToSet(ackq)  E == D \cup {mySeq}
<1>1. /\ IsFiniteSet(Carried(tcpq)) /\ Cardinality(Carried(tcpq)) \in 0 .. TcpCap
      /\ IsFiniteSet(Carried(wire)) /\ Cardinality(Carried(wire)) \in 0 .. WireCap
      /\ IsFiniteSet(Carried(dataq)) /\ Cardinality(Carried(dataq)) \in 0 .. DataCap
      /\ IsFiniteSet(ToSet(ackq)) /\ Cardinality(ToSet(ackq)) \in 0 .. AckCap
  BY CarriedFew, Caps DEF QueueTypes
<1>2. IsFiniteSet({mySeq}) /\ Cardinality({mySeq}) = 1
  BY FS_Singleton
<1>3. IsFiniteSet(D) /\ Cardinality(D) <= TcpCap + WireCap + DataCap + AckCap
  <2>1. IsFiniteSet(B) /\ Cardinality(B) <= Cardinality(A) + Cardinality(Carried(wire))
    BY <1>1, UnionFew
  <2>2. IsFiniteSet(C) /\ Cardinality(C) <= Cardinality(B) + Cardinality(Carried(dataq))
    BY <1>1, <2>1, UnionFew
  <2>3. IsFiniteSet(D) /\ Cardinality(D) <= Cardinality(C) + Cardinality(ToSet(ackq))
    BY <1>1, <2>2, UnionFew
  <2>4. Cardinality(B) \in Nat /\ Cardinality(C) \in Nat /\ Cardinality(D) \in Nat
    BY <2>1, <2>2, <2>3, FS_CardinalityType
  <2> HIDE DEF A, B, C, D
  <2> QED BY <1>1, <2>1, <2>2, <2>3, <2>4, Caps DEF A
<1>4. IsFiniteSet(E) /\ Cardinality(E) \in 0 .. TcpCap + WireCap + DataCap + AckCap + 1
  <2> HIDE DEF D
  <2>1. IsFiniteSet(E) /\ Cardinality(E) <= Cardinality(D) + 1
    BY <1>2, <1>3, UnionFew
  <2>2. Cardinality(E) \in Nat /\ Cardinality(D) \in Nat
    BY <1>3, <2>1, FS_CardinalityType
  <2> HIDE DEF E
  <2> QED BY <1>3, <2>1, <2>2, Caps
<1>5. Cardinality(Sns) = TcpCap + WireCap + DataCap + AckCap + 2
  BY Caps, FS_Interval DEF Sns
<1>6. Sns \ E # {}
  <2> HIDE DEF E
  <2>1. Sns \in SUBSET E => Cardinality(Sns) <= Cardinality(E)
    BY <1>4, FS_Subset
  <2> QED BY <1>4, <1>5, <2>1, Caps
<1>7. NewSeq \in Sns \ E
  <2>1. NewSeq = Min(Sns \ E)
    BY DEF NewSeq
  <2> HIDE DEF E
  <2> QED BY <1>6, <2>1, Least, Caps
<1>8. \A n : Login(n).sn = n /\ Logout(n).sn = n /\ LogAck(n).sn = n
  BY DEF Login, Logout, LogAck
<1>9. /\ \A p : Contains(tcpq, p) => p.sn \in E
      /\ \A p : Contains(wire, p) => p.sn \in E
      /\ \A p : Contains(dataq, p) => p.sn \in E
      /\ \A p : Contains(ackq, p) => p \in E
  BY CarriedFew, Caps DEF QueueTypes
<1> QED BY <1>7, <1>8, <1>9, Zenon

LEMMA TypesAreTypeOK ==
  ASSUME Types, upd <= MaxLosses
  PROVE  TypeOK
BY QueueIsBounded, Caps DEF Types, QueueTypes, ConnTypes, TaskTypes, TypeOK, TcpMsgs, DataMsgs,
                           RegMsgs, HbMsgs

-----------------------------------------------------------------------------
(* Types                                                                   *)

LEMMA ConnStep ==
  ASSUME Types, Next
  PROVE  ConnTypes'
<1> USE DEF Types, ConnTypes
<1>1. CASE Tcp
  BY <1>1 DEF Tcp, tcpVars, netVars, Connect, NotifyStandBy, NotifyLogIn, RecvError, LastMessage, Write, WriteError,
              CloseRequested, SystemReset, Close
<1>2. CASE PlatformAnswers \/ PlatformSilent \/ ConnectionLost
  BY <1>2, ContainsEmpty DEF PlatformAnswers, PlatformSilent, ConnectionLost
<1>3. CASE Data \/ Register \/ AckTimeout \/ RegisterTmr
  BY <1>3 DEF Data, Register, AckTimeout, RegisterTmr, tcpVars, netVars, DataRest, RegRest,
              LogInAck, HeartbeatAck, UpgradeRequest, Erased, EraseFails, LogInInd, SendLogIn,
              Ack, LogInFailed, LogInDone, StartHeartbeat, LogOutInd, SendReset
<1>4. CASE Heartbeat \/ HeartbeatTmr \/ Update \/ SensorsReady
  BY <1>4 DEF Heartbeat, HeartbeatTmr, Update, SensorsReady, HbRest, UpdRest, netVars,
              Start, Beat, Load, Store, Test, HeartLost, LogInAgain, UpgradeAborted, UpgradeReceived
<1>5. CASE ConnectFails \/ PlatformUpgrades \/ LocalUpgrades \/ RebootCommand \/ RemoteIpChanged
  BY <1>5 DEF ConnectFails, PlatformUpgrades, LocalUpgrades, RebootCommand, RemoteIpChanged, tcpVars
<1> QED BY <1>1, <1>2, <1>3, <1>4, <1>5 DEF Next, Network

\* What happens to a queue in a step leaves a queue of the same messages
LEMMA QueueFacts ==
  ASSUME QueueTypes
  PROVE  /\ \A m \in TcpMsgs : Queue(Sent(tcpq, TcpCap, m), TcpMsgs, TcpCap)
         /\ \A m \in DataMsgs : Queue(Sent(dataq, DataCap, m), DataMsgs, DataCap)
         /\ \A m \in Sns : Queue(Sent(ackq, AckCap, m), Sns, AckCap)
         /\ \A m \in RegMsgs : Queue(Sent(regq, RegCap, m), RegMsgs, RegCap)
         /\ \A m \in HbMsgs : Queue(Sent(hbq, HbCap, m), HbMsgs, HbCap)
         /\ Len(wire) < WireCap => \A m \in Packets : Queue(Append(wire, m), Packets, WireCap)
         /\ tcpq # <<>> => Queue(Tail(tcpq), TcpMsgs, TcpCap) /\ Head(tcpq) \in TcpMsgs
         /\ wire # <<>> => Queue(Tail(wire), Packets, WireCap) /\ Head(wire) \in Packets
         /\ dataq # <<>> => Queue(Tail(dataq), DataMsgs, DataCap) /\ Head(dataq) \in DataMsgs
         /\ ackq # <<>> => Queue(Tail(ackq), Sns, AckCap) /\ Head(ackq) \in Sns
         /\ regq # <<>> => Queue(Tail(regq), RegMsgs, RegCap) /\ Head(regq) \in RegMsgs
         /\ hbq # <<>> => Queue(Tail(hbq), HbMsgs, HbCap) /\ Head(hbq) \in HbMsgs
<1>1. Len(wire) < WireCap => \A m \in Packets : Queue(Append(wire, m), Packets, WireCap)
  BY QueueSent, Caps DEF Sent, QueueTypes
<1> QED BY <1>1, QueueSent, QueueTail, Caps DEF QueueTypes

LEMMA QueuesStep ==
  ASSUME Types, Next
  PROVE  QueueTypes'
<1>1. mySeq \in Sns /\ NewSeq \in Sns
  BY NewSeqIsNew DEF Types, TaskTypes
<1>2. QueueTypes
  BY DEF Types
<1>3. /\ Queue(<<>>, TcpMsgs, TcpCap) /\ Queue(<<>>, Packets, WireCap) /\ Queue(<<>>, Sns, AckCap)
      /\ Queue(<<>>, DataMsgs, DataCap) /\ Queue(<<>>, RegMsgs, RegCap) /\ Queue(<<>>, HbMsgs, HbCap)
  BY QueueEmpty, Caps
<1>4. {"LOG_IN", "LOG_OUT"} \subseteq RegMsgs /\ {"START", "TIMEOUT"} \subseteq HbMsgs
  BY DEF RegMsgs, HbMsgs
<1> USE <1>1, <1>2, <1>3, <1>4, QueueFacts, Messages DEF QueueTypes, netVars, tcpVars, regVars, hbVars
<1>5. CASE Tcp
  <2>1. CASE Connect
    BY <2>1 DEF Connect
  <2>2. CASE NotifyStandBy
    BY <2>2 DEF NotifyStandBy
  <2>3. CASE NotifyLogIn
    BY <2>3 DEF NotifyLogIn
  <2>4. CASE RecvError
    BY <2>4 DEF RecvError, Close
  <2>5. CASE LastMessage
    BY <2>5 DEF LastMessage
  <2>6. CASE Write
    BY <2>6 DEF Write
  <2>7. CASE WriteError
    BY <2>7 DEF WriteError, Close
  <2>8. CASE CloseRequested
    BY <2>8 DEF CloseRequested, Close
  <2>9. CASE SystemReset
    BY <2>9 DEF SystemReset
  <2> QED BY <1>5, <2>1, <2>2, <2>3, <2>4, <2>5, <2>6, <2>7, <2>8, <2>9 DEF Tcp
<1>6. CASE Data
  <2>1. CASE LogInAck
    BY <2>1 DEF LogInAck, DataRest
  <2>2. CASE HeartbeatAck
    BY <2>2 DEF HeartbeatAck, DataRest
  <2>3. CASE UpgradeRequest
    BY <2>3 DEF UpgradeRequest, DataRest
  <2>4. CASE Erased
    BY <2>4 DEF Erased, DataRest
  <2>5. CASE EraseFails
    BY <2>5 DEF EraseFails, DataRest
  <2> QED BY <1>6, <2>1, <2>2, <2>3, <2>4, <2>5 DEF Data
<1>7. CASE Register
  <2>1. CASE LogInInd
    BY <2>1 DEF LogInInd, RegRest
  <2>2. CASE SendLogIn
    BY <2>2 DEF SendLogIn, RegRest
  <2>3. CASE Ack
    BY <2>3 DEF Ack, RegRest
  <2>4. CASE LogInFailed
    BY <2>4 DEF LogInFailed, RegRest
  <2>5. CASE LogInDone
    BY <2>5 DEF LogInDone, RegRest
  <2>6. CASE StartHeartbeat
    BY <2>6 DEF StartHeartbeat, RegRest
  <2>7. CASE LogOutInd
    BY <2>7 DEF LogOutInd, RegRest
  <2>8. CASE SendReset
    BY <2>8 DEF SendReset, RegRest
  <2> QED BY <1>7, <2>1, <2>2, <2>3, <2>4, <2>5, <2>6, <2>7, <2>8 DEF Register
<1>8. CASE Heartbeat
  <2>1. CASE Start
    BY <2>1 DEF Start, HbRest
  <2>2. CASE Beat
    BY <2>2 DEF Beat, HbRest
  <2>3. CASE Load
    BY <2>3 DEF Load, HbRest
  <2>4. CASE Store
    BY <2>4 DEF Store, HbRest
  <2>5. CASE Test
    BY <2>5 DEF Test, HbRest
  <2>6. CASE HeartLost
    BY <2>6 DEF HeartLost, HbRest
  <2>7. CASE LogInAgain
    BY <2>7 DEF LogInAgain, HbRest
  <2> QED BY <1>8, <2>1, <2>2, <2>3, <2>4, <2>5, <2>6, <2>7 DEF Heartbeat
<1>9. CASE Update
  <2>1. CASE UpgradeAborted
    BY <2>1 DEF UpgradeAborted, UpdRest
  <2>2. CASE UpgradeReceived
    BY <2>2 DEF UpgradeReceived, UpdRest
  <2> QED BY <1>9, <2>1, <2>2 DEF Update
<1>10. CASE Network
  <2>1. CASE ConnectFails
    BY <2>1 DEF ConnectFails
  <2>2. CASE PlatformSilent
    BY <2>2 DEF PlatformSilent
  <2>3. CASE PlatformUpgrades
    BY <2>3 DEF PlatformUpgrades, Receive
  <2>4. CASE ConnectionLost
    BY <2>4 DEF ConnectionLost
  <2>5. CASE RebootCommand
    BY <2>5 DEF RebootCommand
  <2>6. CASE RemoteIpChanged
    BY <2>6 DEF RemoteIpChanged
  <2>7. CASE LocalUpgrades
    BY <2>7 DEF LocalUpgrades
  <2> QED BY <1>10, <2>1, <2>2, <2>3, <2>4, <2>5, <2>6, <2>7 DEF Network
<1>11. CASE PlatformAnswers
  BY <1>11 DEF PlatformAnswers, Receive
<1>12. CASE AckTimeout \/ RegisterTmr \/ HeartbeatTmr \/ SensorsReady
  BY <1>12 DEF AckTimeout, RegisterTmr, HeartbeatTmr, SensorsReady, RegRest, HbRest, UpdRest
<1> QED BY <1>5, <1>6, <1>7, <1>8, <1>9, <1>10, <1>11, <1>12 DEF Next

LEMMA TasksStep ==
  ASSUME Types, Next
  PROVE  TaskTypes'
<1>1. NewSeq \in Sns /\ 0 \in Sns /\ MaxLosses \in Nat
  BY NewSeqIsNew, Caps DEF Types, TaskTypes
<1>2. TaskTypes
  BY DEF Types
<1> USE <1>1, <1>2 DEF TaskTypes, Lose, netVars, tcpVars, regVars, hbVars
<1>3. CASE Tcp
  <2>1. CASE Connect
    BY <2>1 DEF Connect
  <2>2. CASE NotifyStandBy
    BY <2>2 DEF NotifyStandBy
  <2>3. CASE NotifyLogIn
    BY <2>3 DEF NotifyLogIn
  <2>4. CASE RecvError
    BY <2>4 DEF RecvError, Close
  <2>5. CASE LastMessage
    BY <2>5 DEF LastMessage
  <2>6. CASE Write
    BY <2>6 DEF Write
  <2>7. CASE WriteError
    BY <2>7 DEF WriteError, Close
  <2>8. CASE CloseRequested
    BY <2>8 DEF CloseRequested, Close
  <2>9. CASE SystemReset
    <3>1. /\ dev' = "NOT_RDY" /\ dpc' = "idle" /\ rpc' = "idle" /\ hpc' = "idle"
          /\ tmr' = FALSE /\ hbtmr' = FALSE /\ daInit' = FALSE /\ accepted' = FALSE
      BY <2>9 DEF SystemReset
    <3>2. tries' = 0 /\ mySeq' = 0 /\ tmp' = 0 /\ counter' = 0 /\ upd' = 0 /\ losses' = losses
      BY <2>9 DEF SystemReset
    <3>3. tries' \in 0 .. 3 /\ (rpc' = "wait" => tries' # 0)
      BY <3>1, <3>2
    <3>4. mySeq' \in Sns /\ tmp' \in 0 .. 3 /\ counter' \in 0 .. 3 /\ upd' \in Nat
      BY <3>2
    <3>5. accepted' \in BOOLEAN /\ tmr' \in BOOLEAN /\ hbtmr' \in BOOLEAN /\ daInit' \in BOOLEAN
      BY <3>1
    <3>6. losses' \in 0 .. MaxLosses
      BY <3>2
    <3>7. /\ dev' \in {"NOT_RDY", "STAND_BY", "WORK", "UPGRADE"} /\ dpc' \in {"idle", "erase"}
          /\ rpc' \in {"idle", "send", "wait", "work", "start", "fail", "reset"}
          /\ hpc' \in {"idle", "load", "store", "test", "standby", "login"}
      BY <3>1
    <3> QED BY <3>3, <3>4, <3>5, <3>6, <3>7
  <2> QED BY <1>3, <2>1, <2>2, <2>3, <2>4, <2>5, <2>6, <2>7, <2>8, <2>9 DEF Tcp
<1>4. CASE PlatformAnswers
  BY <1>4 DEF PlatformAnswers
<1>5. CASE Data
  BY <1>5 DEF Data, DataRest, LogInAck, HeartbeatAck, UpgradeRequest, Erased, EraseFails
<1>6. CASE Register
  <2>1. CASE LogInInd
    BY <2>1 DEF LogInInd, RegRest
  <2>2. CASE SendLogIn
    <3>1. rpc' = "wait" /\ tries' = 3 /\ mySeq' = NewSeq /\ accepted' = FALSE
      BY <2>2 DEF SendLogIn
    <3>2. /\ dev' = dev /\ dpc' = dpc /\ tmr' = tmr /\ hbtmr' = hbtmr /\ upd' = upd /\ hpc' = hpc
          /\ daInit' = daInit /\ tmp' = tmp /\ counter' = counter /\ losses' = losses
      BY <2>2 DEF SendLogIn, RegRest
    <3>3. tries' \in 0 .. 3 /\ (rpc' = "wait" => tries' # 0) /\ mySeq' \in Sns
      BY <3>1
    <3>4. accepted' \in BOOLEAN
      BY <3>1
    <3> QED BY <3>1, <3>2, <3>3, <3>4
  <2>3. CASE Ack
    BY <2>3 DEF Ack, RegRest, NextTry
  <2>4. CASE LogInFailed
    BY <2>4 DEF LogInFailed, RegRest, Forget
  <2>5. CASE LogInDone
    BY <2>5 DEF LogInDone, RegRest, Forget
  <2>6. CASE StartHeartbeat
    BY <2>6 DEF StartHeartbeat, RegRest
  <2>7. CASE LogOutInd
    BY <2>7 DEF LogOutInd, RegRest
  <2>8. CASE SendReset
    BY <2>8 DEF SendReset, RegRest
  <2> QED BY <1>6, <2>1, <2>2, <2>3, <2>4, <2>5, <2>6, <2>7, <2>8 DEF Register
<1>7. CASE AckTimeout
  <2>1. tries' \in 0 .. 3 /\ rpc' \in {"fail", "wait"} /\ (rpc' = "wait" => tries' # 0)
    BY <1>7 DEF AckTimeout, NextTry
  <2>2. losses' \in 0 .. MaxLosses
    BY <1>7 DEF AckTimeout
  <2> QED BY <1>7, <2>1, <2>2 DEF AckTimeout
<1>8. CASE RegisterTmr
  <2>1. tmr' = FALSE /\ UNCHANGED <<dev, rpc, tries, mySeq, accepted>>
    BY <1>8 DEF RegisterTmr
  <2>2. UNCHANGED <<losses, dpc, hpc, tmp, hbtmr, counter, upd, daInit>>
    BY <1>8 DEF RegisterTmr, RegRest
  <2>3. tmr' \in BOOLEAN
    BY <2>1
  <2> QED BY <2>1, <2>2, <2>3
<1>9. CASE Heartbeat
  <2>1. CASE Start
    BY <2>1 DEF Start, HbRest
  <2>2. CASE Beat
    BY <2>2 DEF Beat, HbRest
  <2>3. CASE Load
    BY <2>3 DEF Load, HbRest
  <2>4. CASE Store
    BY <2>4 DEF Store, HbRest
  <2>5. CASE Test
    BY <2>5 DEF Test, HbRest
  <2>6. CASE HeartLost
    BY <2>6 DEF HeartLost, HbRest
  <2>7. CASE LogInAgain
    BY <2>7 DEF LogInAgain, HbRest
  <2> QED BY <1>9, <2>1, <2>2, <2>3, <2>4, <2>5, <2>6, <2>7 DEF Heartbeat
<1>10. CASE HeartbeatTmr
  BY <1>10 DEF HeartbeatTmr, HbRest
<1>11. CASE UpgradeAborted
  BY <1>11 DEF UpgradeAborted, UpdRest
<1>12. CASE UpgradeReceived
  BY <1>12 DEF UpgradeReceived, UpdRest
<1>13. CASE SensorsReady
  BY <1>13 DEF SensorsReady, UpdRest
<1>14. CASE Network
  BY <1>14 DEF Network, ConnectFails, PlatformSilent, PlatformUpgrades, LocalUpgrades, ConnectionLost, RebootCommand, RemoteIpChanged
<1> QED BY <1>3, <1>4, <1>5, <1>6, <1>7, <1>8, <1>9, <1>10, <1>11, <1>12, <1>13, <1>14 DEF Next, Update

-----------------------------------------------------------------------------
(* Orders under way                                                        *)

LEMMA CountFacts ==
  ASSUME QueueTypes
  PROVE  /\ Count(dataq, Asked) \in Nat /\ Count(regq, {"LOG_OUT"}) \in Nat
         /\ Count(<<>>, Asked) = 0 /\ Count(<<>>, {"LOG_OUT"}) = 0
         /\ \A m \in DataMsgs :
              /\ Count(Sent(dataq, DataCap, m), Asked) \in Nat
              /\ Count(Sent(dataq, DataCap, m), Asked)
                   <= Count(dataq, Asked) + (IF m \in Asked THEN 1 ELSE 0)
         /\ \A m \in RegMsgs :
              /\ Count(Sent(regq, RegCap, m), {"LOG_OUT"}) \in Nat
              /\ Count(Sent(regq, RegCap, m), {"LOG_OUT"})
                   <= Count(regq, {"LOG_OUT"}) + (IF m = "LOG_OUT" THEN 1 ELSE 0)
         /\ dataq # <<>> =>
              /\ Count(Tail(dataq), Asked) \in Nat
              /\ Count(Tail(dataq), Asked) + (IF Head(dataq) \in Asked THEN 1 ELSE 0)
                   <= Count(dataq, Asked)
         /\ regq # <<>> =>
              /\ Count(Tail(regq), {"LOG_OUT"}) \in Nat
              /\ Count(Tail(regq), {"LOG_OUT"}) + (IF Head(regq) = "LOG_OUT" THEN 1 ELSE 0)
                   <= Count(regq, {"LOG_OUT"})
<1>1. /\ \A m \in DataMsgs : Queue(Sent(dataq, DataCap, m), DataMsgs, DataCap)
      /\ \A m \in RegMsgs : Queue(Sent(regq, RegCap, m), RegMsgs, RegCap)
      /\ dataq # <<>> => Queue(Tail(dataq), DataMsgs, DataCap)
      /\ regq # <<>> => Queue(Tail(regq), RegMsgs, RegCap)
      /\ Queue(dataq, DataMsgs, DataCap) /\ Queue(regq, RegMsgs, RegCap)
  BY QueueFacts DEF QueueTypes
<1>2. \A m \in DataMsgs : Count(Sent(dataq, DataCap, m), Asked)
                            <= Count(dataq, Asked) + (IF m \in Asked THEN 1 ELSE 0)
  BY <1>1, CountSent, Caps
<1>3. \A m \in RegMsgs : Count(Sent(regq, RegCap, m), {"LOG_OUT"})
                            <= Count(regq, {"LOG_OUT"}) + (IF m = "LOG_OUT" THEN 1 ELSE 0)
  BY <1>1, CountSent, Caps
<1>4. /\ dataq # <<>> => Count(Tail(dataq), Asked) + (IF Head(dataq) \in Asked THEN 1 ELSE 0)
                           <= Count(dataq, Asked)
      /\ regq # <<>> => Count(Tail(regq), {"LOG_OUT"}) + (IF Head(regq) = "LOG_OUT" THEN 1 ELSE 0)
                           <= Count(regq, {"LOG_OUT"})
  BY <1>1, CountTail, Caps
<1> QED BY <1>1, <1>2, <1>3, <1>4, CountType, Caps

LEMMA BudgetStep ==
  ASSUME Types, Budget, Next
  PROVE  Budget'
<1> DEFINE C == Count(dataq, Asked)
           R == Count(regq, {"LOG_OUT"})
           E == IF dpc = "erase" THEN 1 ELSE 0
<1>1. C \in Nat /\ R \in Nat /\ E \in Nat /\ upd \in Nat /\ losses \in Nat /\ C + E + upd + R <= losses
  BY CountFacts, Caps DEF Types, TaskTypes, Budget
<1>2. SUFFICES /\ losses' \in Nat /\ C' \in Nat /\ R' \in Nat /\ E' \in Nat /\ upd' \in Nat
               /\ C' + E' + upd' + R' <= losses'
  BY DEF Budget
<1>3. /\ HeartAck \notin Asked /\ \A n : LogAck(n) \notin Asked
      /\ \A m \in DataMsgs : m.kind = "LOGIN_ACK" => m \notin Asked
  BY DEF HeartAck, Upgrade, LocalUpgrade, LogAck, Asked
<1>4. {"LOG_IN", "LOG_OUT"} \subseteq RegMsgs /\ \A p \in Packets : LogAck(p.sn) \in DataMsgs
  BY Messages DEF RegMsgs
<1>5. QueueTypes
  BY DEF Types
<1> USE <1>1 DEF Lose, netVars, tcpVars, regVars, hbVars
<1>6. CASE NotifyLogIn \/ RegisterTmr \/ LogInAgain \/ RebootCommand
  <2>1. dataq' = dataq /\ dpc' = dpc /\ upd' = upd
    BY <1>6 DEF NotifyLogIn, RegisterTmr, LogInAgain, RebootCommand, RegRest, HbRest
  <2>2. CASE regq' = Sent(regq, RegCap, "LOG_IN") /\ losses' = losses
    <3>1. R' \in Nat /\ R' <= R
      BY <1>4, <1>5, <2>2, CountFacts
    <3> QED BY <2>1, <2>2, <3>1
  <2>3. CASE regq' = Sent(regq, RegCap, "LOG_OUT") /\ losses' = losses + 1
    <3>1. R' \in Nat /\ R' <= R + 1
      BY <1>4, <1>5, <2>3, CountFacts
    <3> QED BY <2>1, <2>3, <3>1
  <2> QED BY <1>6, <2>2, <2>3
          DEF NotifyLogIn, RegisterTmr, LogInAgain, RebootCommand, RegRest, HbRest
<1>7. CASE LogInInd \/ LogOutInd
  <2>1. regq # <<>> /\ regq' = Tail(regq)
    BY <1>7 DEF LogInInd, LogOutInd
  <2>2. dataq' = dataq /\ dpc' = dpc /\ upd' = upd /\ losses' = losses
    BY <1>7 DEF LogInInd, LogOutInd, RegRest
  <2>3. R' \in Nat /\ R' <= R
    BY <1>5, <2>1, CountFacts
  <2> QED BY <2>2, <2>3
<1>8. CASE PlatformAnswers
  <2>1. dpc' = dpc /\ upd' = upd /\ losses' = losses /\ regq' = regq
    BY <1>8 DEF PlatformAnswers
  <2>2. \/ dataq' = dataq
        \/ \E m \in DataMsgs : m \notin Asked /\ dataq' = Sent(dataq, DataCap, m)
    <3>1. HeartAck \in DataMsgs /\ LogAck(Head(wire).sn) \in DataMsgs
      BY <1>4, <1>5, <1>8, QueueFacts, Messages DEF PlatformAnswers
    <3> QED BY <1>3, <1>8, <3>1 DEF PlatformAnswers, Receive
  <2>3. C' \in Nat /\ C' <= C
    BY <1>5, <2>2, CountFacts
  <2> QED BY <2>1, <2>3
<1>9. CASE PlatformUpgrades \/ LocalUpgrades
  <2>1. dpc' = dpc /\ upd' = upd /\ losses' = losses + 1 /\ regq' = regq
    BY <1>9 DEF PlatformUpgrades, LocalUpgrades
  <2>2. \/ dataq' = dataq \/ dataq' = Sent(dataq, DataCap, Upgrade)
        \/ dataq' = Sent(dataq, DataCap, LocalUpgrade)
    BY <1>9 DEF PlatformUpgrades, LocalUpgrades, Receive
  <2>3. C' \in Nat /\ C' <= C + 1
    BY <1>5, <2>2, CountFacts, Messages
  <2> QED BY <2>1, <2>3
<1>10. CASE LogInAck \/ HeartbeatAck \/ UpgradeRequest
  <2>1. dataq # <<>> /\ dataq' = Tail(dataq)
    BY <1>10 DEF LogInAck, HeartbeatAck, UpgradeRequest
  <2>2. upd' = upd /\ losses' = losses /\ regq' = regq
    BY <1>10 DEF LogInAck, HeartbeatAck, UpgradeRequest, DataRest
  <2>3. dpc' = dpc \/ (dpc = "idle" /\ dpc' = "erase" /\ Head(dataq) \in Asked)
    BY <1>10 DEF LogInAck, HeartbeatAck, UpgradeRequest, Asked
  <2>4. C' \in Nat /\ C' + (IF Head(dataq) \in Asked THEN 1 ELSE 0) <= C
    BY <1>5, <2>1, CountFacts
  <2> QED BY <2>2, <2>3, <2>4
<1>11. CASE Erased \/ EraseFails
  BY <1>11 DEF Erased, EraseFails, DataRest
<1>12. CASE UpgradeAborted
  BY <1>12 DEF UpgradeAborted, UpdRest
<1>13. CASE UpgradeReceived
  <2>1. upd > 0 /\ upd' = upd - 1 /\ dataq' = dataq /\ dpc' = dpc /\ losses' = losses
    BY <1>13 DEF UpgradeReceived, UpdRest
  <2>2. R' \in Nat /\ R' <= R + 1
    BY <1>4, <1>5, <1>13, CountFacts DEF UpgradeReceived
  <2> QED BY <2>1, <2>2
<1>14. CASE SystemReset
  BY <1>5, <1>14, CountFacts DEF SystemReset
<1>15. CASE Connect \/ NotifyStandBy \/ RecvError \/ LastMessage \/ Write \/ WriteError \/ CloseRequested
  BY <1>15 DEF Connect, NotifyStandBy, RecvError, LastMessage, Write, WriteError, CloseRequested
<1>16. CASE SendLogIn \/ Ack \/ LogInFailed \/ LogInDone \/ StartHeartbeat \/ SendReset \/ AckTimeout
  BY <1>16 DEF SendLogIn, Ack, LogInFailed, LogInDone, StartHeartbeat, SendReset, AckTimeout, RegRest
<1>17. CASE Start \/ Beat \/ Load \/ Store \/ Test \/ HeartLost \/ HeartbeatTmr \/ SensorsReady
  BY <1>17 DEF Start, Beat, Load, Store, Test, HeartLost, HeartbeatTmr, SensorsReady, HbRest, UpdRest
<1>18. CASE ConnectFails \/ PlatformSilent \/ ConnectionLost \/ RemoteIpChanged
  BY <1>18 DEF ConnectFails, PlatformSilent, ConnectionLost, RemoteIpChanged
<1> QED BY <1>6, <1>7, <1>8, <1>9, <1>10, <1>11, <1>12, <1>13, <1>14, <1>15, <1>16, <1>17, <1>18
        DEF Next, Tcp, Data, Register, Heartbeat, Update, Network

-----------------------------------------------------------------------------
(* The answer that is waited for                                           *)

\* The part of AckInv that matters while register service waits
Awaited ==
  /\ Contains(ackq, mySeq) \/ Contains(dataq, LogAck(mySeq)) => accepted
  /\ ~Contains(tcpq, Logout(mySeq)) /\ ~Contains(wire, Logout(mySeq))

\* A new login is sent with a number that nothing under way carries
LEMMA NewLogInAwaited ==
  ASSUME Types, SendLogIn
  PROVE  Awaited'
<1>1. QueueTypes /\ mySeq \in Sns
  BY DEF Types, TaskTypes
<1>2. PICK n \in Sns : /\ n = NewSeq /\ ~Contains(tcpq, Logout(n)) /\ ~Contains(wire, Logout(n))
                       /\ ~Contains(dataq, LogAck(n)) /\ ~Contains(ackq, n)
  BY <1>1, NewSeqIsNew
<1>3. /\ mySeq' = n /\ ackq' = ackq /\ dataq' = dataq /\ wire' = wire
      /\ tcpq' = Sent(tcpq, TcpCap, Login(n))
  BY <1>2 DEF SendLogIn, RegRest, netVars
<1>4. Login(n) \in TcpMsgs /\ Login(n) # Logout(n)
  BY Messages DEF Login, Logout
<1>5. ~Contains(tcpq', Logout(n))
  BY <1>1, <1>2, <1>3, <1>4, ContainsSent, Caps DEF QueueTypes
<1> QED BY <1>2, <1>3, <1>5 DEF Awaited

\* Only the answer to the login itself brings its acknowledgement
LEMMA AnswerAwaited ==
  ASSUME Types, Awaited, PlatformAnswers
  PROVE  Awaited'
<1>1. QueueTypes /\ wire # <<>> /\ Head(wire) \in Packets /\ mySeq \in Sns
  BY QueueFacts DEF PlatformAnswers, Types, TaskTypes
<1>2. /\ mySeq' = mySeq /\ ackq' = ackq /\ tcpq' = tcpq /\ wire' = Tail(wire)
      /\ accepted' = (accepted \/ Head(wire) = Login(mySeq))
  BY DEF PlatformAnswers, regVars
<1>3. ~Contains(Tail(wire), Logout(mySeq)) /\ Head(wire) # Logout(mySeq)
  BY <1>1, ContainsTail, Caps DEF Awaited, QueueTypes
<1>4. ASSUME Contains(dataq', LogAck(mySeq)) PROVE accepted'
  <2>1. CASE Head(wire) = Heart
    <3>1. dataq' = dataq \/ dataq' = Sent(dataq, DataCap, HeartAck)
      BY <2>1 DEF PlatformAnswers, Receive
    <3>2. HeartAck \in DataMsgs /\ HeartAck # LogAck(mySeq)
      BY Messages DEF HeartAck, LogAck
    <3>3. Contains(dataq, LogAck(mySeq))
      BY <1>1, <1>4, <3>1, <3>2, ContainsSent, Caps DEF QueueTypes
    <3> QED BY <1>2, <3>3 DEF Awaited
  <2>2. CASE Head(wire) = Other
    <3>1. dataq' = dataq
      BY <2>2 DEF PlatformAnswers, Heart, Other
    <3> QED BY <1>2, <1>4, <3>1 DEF Awaited
  <2>3. CASE Head(wire) # Heart /\ Head(wire) # Other
    <3>1. PICK n \in Sns : Head(wire) = Login(n) \/ Head(wire) = Logout(n)
      BY <1>1, <2>3 DEF Packets
    <3>2. Head(wire).sn = n
      BY <3>1 DEF Login, Logout
    <3>3. dataq' = dataq \/ dataq' = Sent(dataq, DataCap, LogAck(n))
      BY <2>3, <3>2 DEF PlatformAnswers, Receive
    <3>4. LogAck(n) \in DataMsgs /\ (LogAck(n) = LogAck(mySeq) => n = mySeq)
      BY Messages DEF LogAck
    <3>5. Contains(dataq, LogAck(mySeq)) \/ n = mySeq
      BY <1>1, <1>4, <3>3, <3>4, ContainsSent, Caps DEF QueueTypes
    <3> QED BY <1>2, <1>3, <3>1, <3>5 DEF Awaited
  <2> QED BY <2>1, <2>2, <2>3
<1> QED BY <1>2, <1>3, <1>4 DEF Awaited

\* What the other steps do to the packets while register service waits
Moves ==
  /\ mySeq' = mySeq /\ accepted' = accepted
  /\ \/ tcpq' = tcpq
     \/ tcpq # <<>> /\ tcpq' = Tail(tcpq)
     \/ \E x \in {Other, Heart, CloseReq} : tcpq' = Sent(tcpq, TcpCap, x)
  /\ \/ wire' = wire \/ wire' = <<>>
     \/ wire # <<>> /\ wire' = Tail(wire)
     \/ /\ tcpq # <<>> /\ Head(tcpq) \notin Orders /\ Len(wire) < WireCap
        /\ wire' = Append(wire, Head(tcpq))
  /\ \/ dataq' = dataq
     \/ dataq # <<>> /\ dataq' = Tail(dataq)
     \/ \E x \in Asked : dataq' = Sent(dataq, DataCap, x)
  /\ \/ ackq' = ackq
     \/ ackq # <<>> /\ ackq' = Tail(ackq)
     \/ /\ dataq # <<>> /\ Head(dataq).kind = "LOGIN_ACK"
        /\ ackq' = Sent(ackq, AckCap, Head(dataq).sn)

LEMMA OthersMove ==
  ASSUME Next, rpc = "wait", rpc' = "wait", ~PlatformAnswers
  PROVE  Moves
<1> USE DEF Moves, netVars, tcpVars, regVars, hbVars
<1>1. ~SystemReset /\ (Register => Ack)
  BY DEF SystemReset, Register, LogInInd, SendLogIn, LogInFailed, LogInDone, StartHeartbeat,
         LogOutInd, SendReset
<1>2. CASE Ack \/ AckTimeout \/ RegisterTmr
  BY <1>2 DEF Ack, AckTimeout, RegisterTmr, RegRest
<1>3. CASE Tcp
  BY <1>1, <1>3 DEF Tcp, Connect, NotifyStandBy, NotifyLogIn, RecvError, LastMessage, Write,
              WriteError, CloseRequested, Close
<1>4. CASE Data
  BY <1>4 DEF Data, LogInAck, HeartbeatAck, UpgradeRequest, Erased, EraseFails, DataRest
<1>5. CASE Heartbeat \/ HeartbeatTmr
  BY <1>5 DEF Heartbeat, HeartbeatTmr, Start, Beat, Load, Store, Test, HeartLost, LogInAgain, HbRest
<1>6. CASE Update \/ SensorsReady
  BY <1>6 DEF Update, SensorsReady, UpgradeAborted, UpgradeReceived, UpdRest
<1>7. CASE Network
  BY <1>7 DEF Network, ConnectFails, PlatformSilent, PlatformUpgrades, LocalUpgrades, ConnectionLost,
              RebootCommand, RemoteIpChanged, Receive, Asked
<1> QED BY <1>1, <1>2, <1>3, <1>4, <1>5, <1>6, <1>7 DEF Next

LEMMA OthersAwaited ==
  ASSUME Types, Awaited, Moves
  PROVE  Awaited'
<1> DEFINE m == mySeq
<1>1. QueueTypes /\ m \in Sns /\ mySeq' = m /\ accepted' = accepted
  BY DEF Types, TaskTypes, Moves
<1>2. /\ Other # Logout(m) /\ Heart # Logout(m) /\ CloseReq # Logout(m)
      /\ {Other, Heart, CloseReq} \subseteq TcpMsgs
      /\ Asked \subseteq DataMsgs /\ LogAck(m) \notin Asked
  BY Messages DEF Logout, Other, Heart, CloseReq, Upgrade, LocalUpgrade, LogAck, Asked
<1>3. ~Contains(tcpq, Logout(m)) /\ ~Contains(wire, Logout(m))
  BY DEF Awaited
<1>4. ~Contains(tcpq', Logout(m))
  <2>1. ASSUME NEW x \in {Other, Heart, CloseReq} PROVE ~Contains(Sent(tcpq, TcpCap, x), Logout(m))
    <3>1. x \in TcpMsgs /\ x # Logout(m) /\ Queue(tcpq, TcpMsgs, TcpCap)
      BY <1>1, <1>2 DEF QueueTypes
    <3> QED BY <1>3, <3>1, ContainsSent, Caps
  <2>2. tcpq # <<>> => ~Contains(Tail(tcpq), Logout(m))
    BY <1>1, <1>3, ContainsTail, Caps DEF QueueTypes
  <2> QED BY <1>3, <2>1, <2>2 DEF Moves
<1>5. ~Contains(wire', Logout(m))
  <2>1. CASE tcpq # <<>> /\ Head(tcpq) \notin Orders /\ Len(wire) < WireCap /\ wire' = Append(wire, Head(tcpq))
    <3>1. Head(tcpq) \in Packets /\ Head(tcpq) # Logout(m)
      BY <1>1, <1>3, <2>1, QueueFacts, Messages, ContainsTail, Caps DEF QueueTypes
    <3>2. wire' = Sent(wire, WireCap, Head(tcpq))
      BY <2>1 DEF Sent
    <3> QED BY <1>1, <1>3, <3>1, <3>2, ContainsSent, Caps DEF QueueTypes
  <2> QED BY <1>1, <1>3, <2>1, ContainsTail, ContainsEmpty, Caps DEF Moves, QueueTypes
<1>6. Contains(dataq', LogAck(m)) => Contains(dataq, LogAck(m))
  <2>1. Queue(dataq, DataMsgs, DataCap)
    BY <1>1 DEF QueueTypes
  <2>2. \A x \in Asked : Contains(Sent(dataq, DataCap, x), LogAck(m)) => Contains(dataq, LogAck(m))
    BY <1>2, <2>1, ContainsSent, Caps
  <2>3. dataq # <<>> => (Contains(Tail(dataq), LogAck(m)) => Contains(dataq, LogAck(m)))
    BY <2>1, ContainsTail, Caps
  <2> QED BY <2>2, <2>3 DEF Moves
<1>7. Contains(ackq', m) => Contains(ackq, m) \/ Contains(dataq, LogAck(m))
  <2>1. CASE /\ dataq # <<>> /\ Head(dataq).kind = "LOGIN_ACK"
             /\ ackq' = Sent(ackq, AckCap, Head(dataq).sn)
    <3>1. Head(dataq) = LogAck(Head(dataq).sn) /\ Head(dataq).sn \in Sns
      BY <1>1, <2>1, QueueFacts, Messages
    <3>2. Contains(dataq, Head(dataq))
      BY <1>1, <2>1, ContainsTail, Caps DEF QueueTypes
    <3> QED BY <1>1, <2>1, <3>1, <3>2, ContainsSent, Caps DEF QueueTypes
  <2> QED BY <1>1, <2>1, ContainsTail, Caps DEF Moves, QueueTypes
<1> QED BY <1>1, <1>4, <1>5, <1>6, <1>7 DEF Awaited

LEMMA AckStep ==
  ASSUME Types, AckInv, Next
  PROVE  AckInv'
<1>1. rpc' = "wait" => Awaited'
  <2> SUFFICES ASSUME rpc' = "wait" PROVE Awaited'
    OBVIOUS
  <2>1. CASE SendLogIn
    BY <2>1, NewLogInAwaited
  <2>2. CASE ~SendLogIn
    <3>1. rpc = "wait" /\ Awaited
      <4>1. rpc = "wait"
        BY <2>2 DEF Next, Tcp, Connect, NotifyStandBy, NotifyLogIn, RecvError, LastMessage, Write,
             WriteError, CloseRequested, SystemReset, Data, LogInAck, HeartbeatAck, UpgradeRequest,
             Erased, EraseFails, DataRest, Register, LogInInd, Ack, LogInFailed, LogInDone,
             StartHeartbeat, LogOutInd, SendReset, Heartbeat, HeartbeatTmr, Start, Beat, Load,
             Store, Test, HeartLost, LogInAgain, HbRest, Update, UpgradeAborted, UpgradeReceived,
             SensorsReady, UpdRest, Network, ConnectFails, PlatformSilent, PlatformUpgrades, LocalUpgrades,
             ConnectionLost, RebootCommand, RemoteIpChanged, PlatformAnswers, AckTimeout,
             RegisterTmr, RegRest, regVars
      <4> QED BY <4>1 DEF AckInv, Awaited
    <3> QED BY <3>1, AnswerAwaited, OthersMove, OthersAwaited
  <2> QED BY <2>1, <2>2
<1>2. rpc' = "work" => accepted'
  <2>1. CASE Ack
    <3>1. rpc' = "work" => Head(ackq) = mySeq /\ Contains(ackq, Head(ackq))
      BY <2>1, ContainsTail, Caps DEF Ack, NextTry, Types, QueueTypes
    <3> QED BY <2>1, <3>1 DEF Ack, AckInv
  <2>2. CASE ~Ack
    <3>1. rpc' = "work" => rpc = "work" /\ (accepted => accepted')
      BY <2>2 DEF Next, Tcp, Connect, NotifyStandBy, NotifyLogIn, RecvError, LastMessage, Write,
           WriteError, CloseRequested, SystemReset, Data, LogInAck, HeartbeatAck, UpgradeRequest,
           Erased, EraseFails, DataRest, Register, LogInInd, SendLogIn, LogInFailed, LogInDone,
           StartHeartbeat, LogOutInd, SendReset, Heartbeat, HeartbeatTmr, Start, Beat, Load,
           Store, Test, HeartLost, LogInAgain, HbRest, Update, UpgradeAborted, UpgradeReceived,
           SensorsReady, UpdRest, Network, ConnectFails, PlatformSilent, PlatformUpgrades, LocalUpgrades,
           ConnectionLost, RebootCommand, RemoteIpChanged, PlatformAnswers, AckTimeout, NextTry,
           RegisterTmr, RegRest, regVars
    <3> QED BY <3>1 DEF AckInv
  <2> QED BY <2>1, <2>2
<1> QED BY <1>1, <1>2 DEF AckInv, Awaited

-----------------------------------------------------------------------------
(* The heartbeat timer                                                     *)

\* A queue that cannot take a START has one, or a TIMEOUT
LEMMA FullHbq ==
  ASSUME QueueTypes, ~(Len(hbq) < HbCap)
  PROVE  Contains(hbq, "START") \/ Contains(hbq, "TIMEOUT")
<1>1. Queue(hbq, HbMsgs, HbCap) /\ hbq # <<>>
  BY Caps DEF QueueTypes, Queue
<1>2. Head(hbq) \in HbMsgs
  BY <1>1, QueueTail, Caps
<1>3. Contains(hbq, Head(hbq))
  BY <1>1, ContainsTail, Caps
<1> QED BY <1>2, <1>3 DEF HbMsgs

LEMMA WatchStep ==
  ASSUME Types, WatchInv, Next
  PROVE  WatchInv' /\ (Watched /\ ~SystemReset => Watched')
<1>1. Queue(hbq, HbMsgs, HbCap) /\ HbCap \in Nat /\ {"START", "TIMEOUT"} \subseteq HbMsgs
  BY Caps DEF Types, QueueTypes, HbMsgs
<1> USE DEF WatchInv, Watched, Lose, netVars, tcpVars, regVars, hbVars
<1>3. CASE StartHeartbeat
  <2>1. hbq' = Sent(hbq, HbCap, "START") /\ hbtmr' = hbtmr
    BY <1>3 DEF StartHeartbeat, RegRest
  <2>2. Contains(hbq', "TIMEOUT") => Contains(hbq, "TIMEOUT")
    BY <1>1, <2>1, ContainsSent
  <2>3. Contains(hbq', "START") \/ Contains(hbq, "TIMEOUT")
    BY <1>1, <2>1, ContainsSent, FullHbq DEF Types
  <2> QED BY <2>1, <2>2, <2>3
<1>4. CASE HeartbeatTmr
  <2>1. hbtmr /\ hbtmr' = hbtmr
    BY <1>4 DEF HeartbeatTmr
  <2> QED BY <2>1
<1>5. CASE Start
  BY <1>5 DEF Start
<1>6. CASE Beat
  <2>1. /\ hbq # <<>> /\ Head(hbq) = "TIMEOUT" /\ hbq' = Tail(hbq) /\ hbtmr' = hbtmr /\ rpc' = rpc
    BY <1>6 DEF Beat, HbRest
  <2>2. /\ Contains(hbq, "START") => Contains(hbq', "START")
        /\ Contains(hbq', "TIMEOUT") => Contains(hbq, "TIMEOUT")
    BY <1>1, <2>1, ContainsTail
  <2> QED BY <2>1, <2>2
<1>7. CASE LogInDone
  BY <1>7 DEF LogInDone, RegRest
<1>8. CASE UpgradeRequest \/ Erased \/ EraseFails
  BY <1>8 DEF UpgradeRequest, Erased, EraseFails, DataRest
<1>9. CASE UpgradeAborted \/ UpgradeReceived
  BY <1>9 DEF UpgradeAborted, UpgradeReceived, UpdRest
<1>10. CASE SystemReset
  BY <1>10, ContainsEmpty DEF SystemReset
<1>11. CASE HeartLost \/ Load \/ Store \/ Test \/ LogInAgain
  BY <1>11 DEF HeartLost, Load, Store, Test, LogInAgain, HbRest
<1>12. CASE /\ Tcp /\ ~SystemReset
  BY <1>12 DEF Tcp, Connect, NotifyStandBy, NotifyLogIn, RecvError, LastMessage, Write, WriteError,
               CloseRequested, Close
<1>13. CASE LogInInd \/ SendLogIn \/ Ack \/ LogInFailed \/ LogOutInd \/ SendReset \/ RegisterTmr
  BY <1>13 DEF LogInInd, SendLogIn, Ack, NextTry, LogInFailed, LogOutInd, SendReset, RegisterTmr, RegRest
<1>14. CASE AckTimeout \/ LogInAck \/ HeartbeatAck \/ PlatformAnswers \/ SensorsReady
  BY <1>14 DEF AckTimeout, NextTry, LogInAck, HeartbeatAck, DataRest, PlatformAnswers, SensorsReady, UpdRest
<1>15. CASE Network
  BY <1>15 DEF Network, ConnectFails, PlatformSilent, PlatformUpgrades, LocalUpgrades, ConnectionLost, RebootCommand,
               RemoteIpChanged
<1> QED BY <1>3, <1>4, <1>5, <1>6, <1>7, <1>8, <1>9, <1>10, <1>11, <1>12, <1>13, <1>14, <1>15
        DEF Next, Tcp, Data, Register, Heartbeat, Update

-----------------------------------------------------------------------------
(* The next login                                                          *)

LEMMA PendStep ==
  ASSUME Types, Room, Next
  PROVE  (PendInv => PendInv') /\ (Pending => Pending' \/ rpc' = "start")
<1>1. Queue(regq, RegMsgs, RegCap) /\ RegCap \in Nat /\ {"LOG_IN", "LOG_OUT"} \subseteq RegMsgs
  BY Caps DEF Types, QueueTypes, RegMsgs
<1>2. Contains(Sent(regq, RegCap, "LOG_IN"), "LOG_IN")
  BY <1>1, ContainsSent DEF Room
<1>3. \A m \in RegMsgs : Contains(regq, "LOG_IN") => Contains(Sent(regq, RegCap, m), "LOG_IN")
  BY <1>1, ContainsSent
<1>4. regq # <<>> /\ Head(regq) # "LOG_IN" /\ Contains(regq, "LOG_IN") => Contains(Tail(regq), "LOG_IN")
  BY <1>1, ContainsTail
<1> USE DEF PendInv, Pending, Lose, netVars, tcpVars, regVars, hbVars
<1>5. CASE NotifyLogIn \/ RegisterTmr \/ LogInAgain
  BY <1>2, <1>5 DEF NotifyLogIn, RegisterTmr, LogInAgain
<1>6. CASE LogInInd \/ LogOutInd
  <2>1. CASE LogInInd
    BY <2>1 DEF LogInInd
  <2>2. CASE LogOutInd
    BY <1>4, <2>2 DEF LogOutInd, RegRest
  <2> QED BY <1>6, <2>1, <2>2
<1>7. CASE RebootCommand \/ UpgradeReceived
  BY <1>1, <1>3, <1>7 DEF RebootCommand, UpgradeReceived, UpdRest
<1>8. CASE SendLogIn \/ Ack \/ LogInFailed \/ LogInDone \/ StartHeartbeat \/ SendReset \/ AckTimeout
  BY <1>8 DEF SendLogIn, Ack, NextTry, LogInFailed, LogInDone, StartHeartbeat, SendReset, AckTimeout, RegRest
<1>9. CASE Tcp /\ ~NotifyLogIn
  BY <1>9 DEF Tcp, Connect, NotifyStandBy, RecvError, LastMessage, Write, WriteError, CloseRequested,
              SystemReset, Close
<1>10. CASE Data \/ PlatformAnswers
  BY <1>10 DEF Data, LogInAck, HeartbeatAck, UpgradeRequest, Erased, EraseFails, DataRest, PlatformAnswers
<1>11. CASE Start \/ Beat \/ Load \/ Store \/ Test \/ HeartLost \/ HeartbeatTmr
  BY <1>11 DEF Start, Beat, Load, Store, Test, HeartLost, HeartbeatTmr, HbRest
<1>12. CASE UpgradeAborted \/ SensorsReady
  BY <1>12 DEF UpgradeAborted, SensorsReady, UpdRest
<1>13. CASE Network /\ ~RebootCommand
  BY <1>13 DEF Network, ConnectFails, PlatformSilent, PlatformUpgrades, LocalUpgrades, ConnectionLost, RemoteIpChanged
<1> QED BY <1>5, <1>6, <1>7, <1>8, <1>9, <1>10, <1>11, <1>12, <1>13
        DEF Next, Tcp, Register, Heartbeat, Update

\* A register queue full of orders to restart takes as many losses as places
LEMMA BudgetLeavesRoom ==
  ASSUME Types, Budget, MaxLosses < RegCap
  PROVE  Room
<1> SUFFICES ASSUME ~(Len(regq) < RegCap), ~Contains(regq, "LOG_IN") PROVE FALSE
  BY DEF Room
<1>1. regq \in Seq(RegMsgs) /\ Len(regq) = RegCap
  BY Caps DEF Types, QueueTypes, Queue
<1>2. At(regq, {"LOG_OUT"}) = 1 .. RegCap
  BY <1>1 DEF At, Contains, RegMsgs
<1>3. Count(regq, {"LOG_OUT"}) = RegCap
  BY <1>2, FS_Interval, Caps DEF Count
<1>4. Count(dataq, Asked) \in Nat /\ upd \in Nat /\ losses \in 0 .. MaxLosses
  BY CountFacts DEF Types, TaskTypes
<1> QED BY <1>3, <1>4, Caps DEF Budget

-----------------------------------------------------------------------------
(* The specification                                                       *)

IInv == Types /\ Budget /\ AckInv /\ WatchInv

LEMMA InitIInv ==
  ASSUME Init
  PROVE  IInv /\ PendInv /\ WatchAhead
<1>1. QueueTypes
  BY QueueEmpty, Caps DEF Init, QueueTypes
<1>2. ConnTypes
  BY DEF Init, ConnTypes
<1>3. TaskTypes
  <2>1. tries \in 0 .. 3 /\ tmp \in 0 .. 3 /\ counter \in 0 .. 3 /\ upd \in Nat /\ mySeq \in Sns
    BY Caps DEF Init
  <2>2. losses \in 0 .. MaxLosses
    BY Caps DEF Init
  <2> QED BY <2>1, <2>2 DEF Init, TaskTypes
<1>4. Budget
  BY <1>1, CountFacts DEF Init, Budget
<1>5. AckInv /\ WatchInv /\ PendInv /\ WatchAhead
  BY ContainsEmpty DEF Init, AckInv, WatchInv, PendInv, WatchAhead, Pending
<1> QED BY <1>1, <1>2, <1>3, <1>4, <1>5 DEF IInv, Types

LEMMA Stutter ==
  ASSUME UNCHANGED vars
  PROVE  /\ Types => Types'
         /\ Budget => Budget'
         /\ AckInv => AckInv'
         /\ WatchInv => WatchInv'
         /\ PendInv => PendInv'
         /\ WatchAhead => WatchAhead'
         /\ Watched => Watched'
BY DEF vars, Types, QueueTypes, ConnTypes, TaskTypes, Budget, AckInv, WatchInv, Watched, PendInv,
       WatchAhead, Pending

LEMMA IInvStep ==
  ASSUME IInv, [Next]_vars
  PROVE  IInv'
<1>1. CASE Next
  BY <1>1, ConnStep, QueuesStep, TasksStep, BudgetStep, AckStep, WatchStep DEF IInv, Types
<1>2. CASE UNCHANGED vars
  BY <1>2, Stutter DEF IInv
<1> QED BY <1>1, <1>2

LEMMA IInvAlways == Spec => []IInv
<1>1. Init => IInv
  BY InitIInv
<1>2. IInv /\ [Next]_vars => IInv'
  BY IInvStep
<1> QED BY <1>1, <1>2, PTL DEF Spec

\* Every queue keeps to its size and its messages, the connection to the state
\* of the tcp service, and no more upgrades wait than there were orders, for
\* queues of any sizes.
THEOREM TypeCorrect == Spec => []TypeOK
<1>1. IInv => TypeOK
  <2> SUFFICES ASSUME IInv PROVE TypeOK
    OBVIOUS
  <2>1. Count(dataq, Asked) \in Nat /\ Count(regq, {"LOG_OUT"}) \in Nat
    BY CountFacts DEF IInv, Types
  <2>2. upd <= MaxLosses
    BY <2>1, Caps DEF IInv, Types, TaskTypes, Budget
  <2> QED BY <2>2, TypesAreTypeOK DEF IInv
<1> QED BY <1>1, IInvAlways, PTL

\* msg_id_dev_login_ind takes the device to work only for an answer to the
\* login it sent last: the sequence numbers keep the answers to earlier logins
\* apart, however many queues and packets are under way.
THEOREM OnlyAcceptedWorks == Spec => []WorkIsAccepted
<1>1. IInv => WorkIsAccepted
  BY DEF IInv, AckInv, WorkIsAccepted
<1> QED BY <1>1, IInvAlways, PTL

\* From its first login on the device keeps its heartbeat timer, or the message
\* that starts it, until the processor starts again: a full queue, an upgrade
\* that is aborted or a lost connection never leaves it without.
THEOREM WatchStays == Spec => [][Watched /\ ~SystemReset => Watched']_vars
<1>1. IInv /\ [Next]_vars => [Watched /\ ~SystemReset => Watched']_vars
  BY WatchStep, Stutter DEF IInv
<1> QED BY <1>1, IInvAlways, PTL DEF Spec

\* As long as a LOG_IN always finds room in the queue of the register service, a
\* device at work is watched, or its login is still ahead: also when an upgrade
\* ordered over UDP or the serial line before the first login is aborted and
\* takes it to work with no timer.
THEOREM AlwaysWatched == Spec /\ []Room => []WorkIsWatched
<1>1. Init => WatchAhead
  BY InitIInv
<1>2. IInv /\ Room /\ WatchAhead /\ [Next]_vars => WatchAhead'
  <2> SUFFICES ASSUME IInv, Room, WatchAhead, [Next]_vars PROVE WatchAhead'
    OBVIOUS
  <2>1. CASE SystemReset
    BY <2>1 DEF SystemReset, WatchAhead, Pending
  <2>2. CASE Next /\ ~SystemReset /\ Watched
    BY <2>2, WatchStep DEF IInv, WatchAhead
  <2>3. CASE Next /\ Pending
    <3>1. Pending' \/ rpc' = "start"
      BY <2>3, PendStep DEF IInv
    <3> QED BY <3>1 DEF WatchAhead, Watched
  <2>4. CASE UNCHANGED vars
    BY <2>4, Stutter
  <2> QED BY <2>1, <2>2, <2>3, <2>4 DEF WatchAhead
<1>3. WatchAhead => WorkIsWatched
  BY ContainsEmpty DEF WatchAhead, Pending, WorkIsWatched, LogInPending
<1> QED BY <1>1, <1>2, <1>3, IInvAlways, PTL DEF Spec

\* As long as a LOG_IN always finds room, or another one, in the queue of the
\* register service, a device that is not logged in has a login under way.
THEOREM RoomNeverForgets == Spec /\ []Room => []NeverForgotten
<1>1. Init => PendInv
  BY InitIInv
<1>2. IInv /\ Room /\ PendInv /\ [Next]_vars => PendInv'
  BY PendStep, Stutter DEF IInv
<1>3. IInv /\ PendInv => NeverForgotten
  BY ContainsEmpty DEF IInv, PendInv, Pending, NeverForgotten, LogInPending
<1> QED BY <1>1, <1>2, <1>3, IInvAlways, PTL DEF Spec

\* With fewer faults and orders from outside than the register queue has places
\* that room is always there, and the login is never forgotten.
THEOREM LogInNeverForgotten ==
  ASSUME MaxLosses < RegCap
  PROVE  Spec => []NeverForgotten
<1>1. IInv => Room
  BY BudgetLeavesRoom DEF IInv
<1> QED BY <1>1, IInvAlways, RoomNeverForgets, PTL

=============================================================================
