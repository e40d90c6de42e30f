--------------------------- MODULE MsgDealProofs ---------------------------
(* Proofs about MsgDeal: every message block and every buffer has one owner, *)
(* and the services see a Mailbox, for any tasks, queues and pools.         *)
EXTENDS MsgDeal, FiniteSetTheorems, SequenceTheorems, TLAPS

SendPcs == {"idle", "buf", "post", "freeBuf", "freeMsg"}
RecvPcs == {"idle", "wait", "handle", "drop", "freeMsg"}
HasMsg  == {"handle", "drop", "freeMsg"}

\* Where a message may be, besides the free list
Sending(t, m)   == snd[t].pc # "idle" /\ snd[t].msg = m
Receiving(t, m) == rcv[t].pc \in HasMsg /\ rcv[t].msg = m
In(q, i, m)     == i \in 1 .. Len(queue[q]) /\ queue[q][i] = m

Types ==
  /\ mtab \in [Msgs -> {NoMem} \cup [buf : Bufs, pool : Pools]]
  /\ mem \in [Bufs -> Payloads \cup {Junk}]
  /\ freeMsg \in SUBSET Msgs
  /\ freeBuf \in [Pools -> SUBSET Bufs]
  /\ queue \in [Queues -> Seq(Msgs)]
  /\ snd \in [Tasks -> [pc : SendPcs, dst : Queues \cup {None}, val : AllPayloads \cup {None},
                        msg : Msgs \cup {None}]]
  /\ rcv \in [Tasks -> [pc : RecvPcs, q : Queues \cup {None}, msg : Msgs \cup {None}]]

\* A sender has a message and knows where it goes, a receiver that waits
\* found its queue empty
SndInv == \A t \in Tasks :
  /\ snd[t].pc # "idle" => snd[t].msg \in Msgs /\ snd[t].dst \in Queues /\ snd[t].val \in AllPayloads
  /\ snd[t].pc = "buf" => snd[t].val \in Payloads
RcvInv == \A t \in Tasks :
  /\ rcv[t].pc \in HasMsg => rcv[t].msg \in Msgs
  /\ rcv[t].pc = "wait" => rcv[t].q \in Queues /\ Reader[rcv[t].q] = t /\ queue[rcv[t].q] = <<>>

\* The queues keep to their sizes
CapInv == \A q \in Queues : Len(queue[q]) <= Cap[q]

Shape == Types /\ SndInv /\ RcvInv /\ CapInv

-----------------------------------------------------------------------------
LEMMA InitShape == Init => Shape
<1> SUFFICES ASSUME Init PROVE Shape
  OBVIOUS
<1>1. Types
  BY MsgDealAssumption DEF Init, Types, NoSend, NoRecv, NoMem, SendPcs, RecvPcs
<1>2. SndInv /\ RcvInv
  BY DEF Init, SndInv, RcvInv, NoSend, NoRecv, HasMsg
<1>3. CapInv
  BY MsgDealAssumption DEF Init, CapInv
<1> QED BY <1>1, <1>2, <1>3 DEF Shape

\* Of a message without a buffer there is nothing to free
LEMMA PutMemTypes ==
  ASSUME Types, NEW m \in Msgs, PutMem(m)
  PROVE  mem' \in [Bufs -> Payloads \cup {Junk}] /\ freeBuf' \in [Pools -> SUBSET Bufs]
<1>1. CASE mtab[m] = NoMem
  <2>1. mtab[m].buf \notin Bufs
    BY <1>1, MsgDealAssumption DEF NoMem
  <2>2. mem' = mem
    BY <2>1 DEF PutMem, Types
  <2>3. mtab[m].pool \notin Pools
    BY <1>1, MsgDealAssumption DEF NoMem
  <2>4. freeBuf' = freeBuf
    BY <2>3 DEF PutMem, Types
  <2> QED BY <2>2, <2>4 DEF Types
<1>2. CASE mtab[m] \in [buf : Bufs, pool : Pools]
  BY <1>2 DEF PutMem, Types
<1> QED BY <1>1, <1>2 DEF Types

LEMMA SendShape == ASSUME Shape, NEW t \in Tasks, GetMsg(t) \/ SendStep(t) PROVE Shape'
<1> USE DEF AllPayloads, SendPcs
<1>0. /\ snd[t] \in [pc : SendPcs, dst : Queues \cup {None}, val : AllPayloads \cup {None},
                     msg : Msgs \cup {None}]
      /\ snd[t].pc # "idle" => snd[t].msg \in Msgs /\ snd[t].dst \in Queues /\ snd[t].val \in AllPayloads
      /\ snd[t].pc = "buf" => snd[t].val \in Payloads
  BY DEF Shape, Types, SndInv
<1>1. CASE GetMsg(t)
  BY <1>1 DEF GetMsg, Shape, Types, SndInv, RcvInv, CapInv, poolVars, qVars, NoMem
<1>2. CASE GetBuf(t)
  <2>1. PICK b \in freeBuf[PoolFor[snd[t].val]] :
          /\ GetMem(b, snd[t].val)
          /\ mtab' = [mtab EXCEPT ![snd[t].msg] = [buf |-> b, pool |-> PoolFor[snd[t].val]]]
    BY <1>2 DEF GetBuf
  <2>2. snd[t].msg \in Msgs /\ snd[t].val \in Payloads /\ PoolFor[snd[t].val] \in Pools
    BY <1>0, <1>2, MsgDealAssumption DEF GetBuf
  <2>3. b \in Bufs
    BY <2>2 DEF Shape, Types
  <2>4. mtab' \in [Msgs -> {NoMem} \cup [buf : Bufs, pool : Pools]]
    BY <2>1, <2>2, <2>3 DEF Shape, Types
  <2>5. mem' \in [Bufs -> Payloads \cup {Junk}] /\ freeBuf' \in [Pools -> SUBSET Bufs]
    BY <2>1, <2>2, <2>3 DEF Shape, Types, GetMem
  <2>6. snd' = [snd EXCEPT ![t].pc = "post"] /\ UNCHANGED <<freeMsg, queue, rcv>>
    BY <1>2 DEF GetBuf, qVars
  <2>7. Types'
    BY <1>0, <2>4, <2>5, <2>6 DEF Shape, Types
  <2>8. SndInv'
    BY <1>0, <1>2, <2>2, <2>6 DEF GetBuf, Shape, Types, SndInv
  <2>9. RcvInv' /\ CapInv'
    BY <2>6 DEF Shape, RcvInv, CapInv
  <2> QED BY <2>7, <2>8, <2>9 DEF Shape
<1>3. CASE NoBuf(t)
  BY <1>0, <1>3 DEF NoBuf, Shape, Types, SndInv, RcvInv, CapInv, poolVars, qVars
<1>4. CASE PostToReader(t)
  BY <1>0, <1>4, MsgDealAssumption DEF PostToReader, Waiting, Shape, Types, SndInv, RcvInv, CapInv, poolVars,
     qVars, NoSend, RecvPcs, HasMsg
<1>5. CASE Post(t)
  <2> DEFINE d == snd[t].dst
  <2>1. d \in Queues /\ snd[t].msg \in Msgs
    BY <1>0, <1>5 DEF Post
  <2>2. queue[d] \in Seq(Msgs) /\ Cap[d] \in Nat /\ Len(queue[d]) <= Cap[d] /\ Len(queue[d]) # Cap[d]
    BY <1>5, <2>1, MsgDealAssumption DEF Post, Full, Shape, Types, CapInv
  <2>3. Append(queue[d], snd[t].msg) \in Seq(Msgs) /\ Len(Append(queue[d], snd[t].msg)) <= Cap[d]
    BY <2>1, <2>2
  <2>4. queue' = [queue EXCEPT ![d] = Append(queue[d], snd[t].msg)]
    BY <1>5 DEF Post
  <2>5. queue' \in [Queues -> Seq(Msgs)] /\ CapInv'
    BY <2>1, <2>3, <2>4 DEF Shape, Types, CapInv
  <2>6. \A u \in Tasks : rcv[u].pc = "wait" => rcv[u].q # d
    BY <1>5, <2>1 DEF Post, Waiting, Shape, RcvInv
  <2>7. RcvInv'
    BY <1>5, <2>4, <2>6 DEF Post, Shape, Types, RcvInv, HasMsg
  <2> QED BY <1>0, <1>5, <2>5, <2>7 DEF Post, Shape, Types, SndInv, poolVars, NoSend
<1>6. CASE PostRefused(t)
  BY <1>0, <1>6 DEF PostRefused, Shape, Types, SndInv, RcvInv, CapInv, poolVars, qVars
<1>7. CASE SndFreeBuf(t)
  <2>1. snd[t].msg \in Msgs
    BY <1>0, <1>7 DEF SndFreeBuf
  <2>2. mem' \in [Bufs -> Payloads \cup {Junk}] /\ freeBuf' \in [Pools -> SUBSET Bufs]
    BY <1>7, <2>1, PutMemTypes DEF SndFreeBuf, Shape
  <2> QED BY <1>0, <1>7, <2>2 DEF SndFreeBuf, Shape, Types, SndInv, RcvInv, CapInv, qVars
<1>8. CASE SndFreeMsg(t)
  BY <1>0, <1>8 DEF SndFreeMsg, PutMsg, Shape, Types, SndInv, RcvInv, CapInv, poolVars, qVars, NoSend
<1> QED BY <1>1, <1>2, <1>3, <1>4, <1>5, <1>6, <1>7, <1>8 DEF SendStep
LEMMA ReceiveShape ==
  ASSUME Shape, NEW t \in Tasks, Timeout(t) \/ FreeStep(t)
  PROVE  Shape'
<1>0. /\ rcv[t] \in [pc : RecvPcs, q : Queues \cup {None}, msg : Msgs \cup {None}]
      /\ rcv[t].pc \in HasMsg => rcv[t].msg \in Msgs
  BY DEF Shape, Types, RcvInv
<1>1. CASE Timeout(t)
  BY <1>1 DEF Timeout, Shape, Types, SndInv, RcvInv, CapInv, poolVars, qVars, NoRecv, RecvPcs, HasMsg
<1>2. CASE RcvFreeBuf(t)
  <2>1. rcv[t].msg \in Msgs
    BY <1>0, <1>2 DEF RcvFreeBuf, HasMsg
  <2>2. mem' \in [Bufs -> Payloads \cup {Junk}] /\ freeBuf' \in [Pools -> SUBSET Bufs]
    BY <1>2, <2>1, PutMemTypes DEF RcvFreeBuf, Shape
  <2> QED BY <1>0, <1>2, <2>1, <2>2
          DEF RcvFreeBuf, Shape, Types, SndInv, RcvInv, CapInv, qVars, RecvPcs, HasMsg
<1>3. CASE RcvFreeMsg(t)
  BY <1>0, <1>3 DEF RcvFreeMsg, PutMsg, Shape, Types, SndInv, RcvInv, CapInv, poolVars, qVars, NoRecv,
     RecvPcs, HasMsg
<1> QED BY <1>1, <1>2, <1>3 DEF FreeStep

LEMMA QueueShape ==
  ASSUME Shape, NEW q \in Queues, Take(q, "handle") \/ Take(q, "drop") \/ Pend(q)
  PROVE  Shape'
<1>0. Reader[q] \in Tasks /\ queue[q] \in Seq(Msgs) /\ Cap[q] \in Nat /\ Len(queue[q]) <= Cap[q]
  BY MsgDealAssumption DEF Shape, Types, CapInv
<1>1. ASSUME NEW pc \in {"handle", "drop"}, Take(q, pc) PROVE Shape'
  <2>1. Head(queue[q]) \in Msgs /\ Tail(queue[q]) \in Seq(Msgs) /\ Len(Tail(queue[q])) <= Cap[q]
    BY <1>0, <1>1, HeadTailProperties DEF Take
  <2>2. queue' = [queue EXCEPT ![q] = Tail(queue[q])]
    BY <1>1 DEF Take
  <2>3. queue' \in [Queues -> Seq(Msgs)] /\ CapInv'
    BY <2>1, <2>2 DEF Shape, Types, CapInv
  <2>4. \A u \in Tasks : rcv[u].pc = "wait" => rcv[u].q # q
    BY <1>1 DEF Take, Shape, RcvInv
  <2>5. rcv' = [rcv EXCEPT ![Reader[q]] = [pc |-> pc, q |-> q, msg |-> Head(queue[q])]]
    BY <1>1 DEF Take
  <2>6. RcvInv'
    BY <1>0, <2>1, <2>2, <2>4, <2>5 DEF Shape, Types, RcvInv, HasMsg
  <2> QED BY <1>0, <1>1, <2>1, <2>3, <2>5, <2>6 DEF Take, Shape, Types, SndInv, poolVars, RecvPcs
<1>2. CASE Pend(q)
  BY <1>0, <1>2 DEF Pend, Shape, Types, SndInv, RcvInv, CapInv, poolVars, qVars, RecvPcs, HasMsg
<1> QED BY <1>1, <1>2

LEMMA ShapeStep == Shape /\ [Next]_vars => Shape'
<1> SUFFICES ASSUME Shape, [Next]_vars PROVE Shape'
  OBVIOUS
<1>1. CASE UNCHANGED vars
  BY <1>1 DEF vars, Shape, Types, SndInv, RcvInv, CapInv
<1> QED BY <1>1, SendShape, ReceiveShape, QueueShape DEF Next

-----------------------------------------------------------------------------
\* Every message is in one place
FreeApart ==
  \A m \in freeMsg : /\ \A t \in Tasks : ~Sending(t, m) /\ ~Receiving(t, m)
                     /\ \A q \in Queues, i \in Nat : ~In(q, i, m)
TasksApart ==
  \A t, u \in Tasks :
    /\ snd[t].pc # "idle" /\ snd[u].pc # "idle" /\ t # u => snd[t].msg # snd[u].msg
    /\ rcv[t].pc \in HasMsg /\ rcv[u].pc \in HasMsg /\ t # u => rcv[t].msg # rcv[u].msg
    /\ snd[t].pc # "idle" /\ rcv[u].pc \in HasMsg => snd[t].msg # rcv[u].msg
QueuesApart ==
  \A q \in Queues, i \in Nat, m \in Msgs : In(q, i, m) =>
    /\ \A t \in Tasks : ~Sending(t, m) /\ ~Receiving(t, m)
    /\ \A p \in Queues, j \in Nat : In(p, j, m) => p = q /\ j = i
Owners == FreeApart /\ TasksApart /\ QueuesApart

\* No message is nowhere
NoLeak == \A m \in Msgs : \/ m \in freeMsg
                         \/ \E t \in Tasks : Sending(t, m) \/ Receiving(t, m)
                         \/ \E q \in Queues, i \in Nat : In(q, i, m)

LEMMA SendOwners ==
  ASSUME Shape, Owners, NoLeak, NEW t \in Tasks, GetMsg(t) \/ SendStep(t)
  PROVE  Owners' /\ NoLeak'
<1> USE DEF Sending, Receiving
<1>0. /\ snd[t] \in [pc : SendPcs, dst : Queues \cup {None}, val : AllPayloads \cup {None},
                     msg : Msgs \cup {None}]
      /\ snd[t].pc # "idle" => snd[t].msg \in Msgs /\ snd[t].dst \in Queues
  BY DEF Shape, Types, SndInv
<1> USE DEF FreeApart, TasksApart, QueuesApart
<1>1. CASE GetMsg(t)
  <2>1. PICK m \in freeMsg : /\ freeMsg' = freeMsg \ {m}
                             /\ snd'[t].msg = m /\ snd'[t].pc # "idle"
    BY <1>1 DEF GetMsg, Shape, Types
  <2>2. /\ \A u \in Tasks \ {t} : snd'[u] = snd[u]
        /\ snd[t].pc = "idle" /\ UNCHANGED <<queue, rcv>>
    BY <1>1 DEF GetMsg, MaySend, Shape, Types, qVars
  <2>3. FreeApart' /\ TasksApart'
    BY <2>1, <2>2 DEF Owners, In
  <2>4. QueuesApart' /\ NoLeak'
    BY <2>1, <2>2 DEF Owners, NoLeak, In
  <2> QED BY <2>3, <2>4 DEF Owners
<1>2. CASE GetBuf(t) \/ NoBuf(t) \/ PostRefused(t) \/ SndFreeBuf(t)
  <2>1. /\ \A u \in Tasks : snd'[u].msg = snd[u].msg /\ (snd'[u].pc = "idle" <=> snd[u].pc = "idle")
        /\ UNCHANGED <<freeMsg, queue, rcv>>
    BY <1>0, <1>2 DEF GetBuf, NoBuf, PostRefused, SndFreeBuf, Shape, Types, poolVars, qVars, SendPcs
  <2> QED BY <2>1 DEF Owners, NoLeak, In
<1>3. CASE PostToReader(t)
  <2> DEFINE r == Reader[snd[t].dst]
  <2>1. /\ r \in Tasks /\ snd[t].msg \in Msgs /\ rcv[r].pc \notin HasMsg /\ snd[t].pc = "post"
        /\ \A u \in Tasks \ {r} : rcv'[u] = rcv[u]
        /\ rcv'[r].pc \in HasMsg /\ rcv'[r].msg = snd[t].msg
    BY <1>0, <1>3, MsgDealAssumption DEF PostToReader, Waiting, Shape, Types, HasMsg
  <2>2. /\ \A u \in Tasks \ {t} : snd'[u] = snd[u]
        /\ snd'[t].pc = "idle" /\ UNCHANGED <<freeMsg, queue>>
    BY <1>3 DEF PostToReader, Shape, Types, qVars, NoSend
  <2> HIDE DEF r
  <2>3. FreeApart'
    BY <2>1, <2>2 DEF Owners, In
  <2>4. TasksApart'
    BY <2>1, <2>2 DEF Owners, In
  <2>5. QueuesApart'
    BY <2>1, <2>2 DEF Owners, In
  <2>6. NoLeak'
    BY <2>1, <2>2 DEF NoLeak, In
  <2> QED BY <2>3, <2>4, <2>5, <2>6 DEF Owners
<1>4. CASE Post(t)
  <2> DEFINE d == snd[t].dst
  <2> DEFINE n == Len(queue[d])
  <2>1. d \in Queues /\ snd[t].msg \in Msgs /\ queue[d] \in Seq(Msgs)
    BY <1>0, <1>4 DEF Post, Shape, Types
  <2>2. queue' = [queue EXCEPT ![d] = Append(queue[d], snd[t].msg)]
    BY <1>4 DEF Post
  <2>3. \A q \in Queues \ {d} : queue'[q] = queue[q]
    BY <2>1, <2>2 DEF Shape, Types
  <2>4. /\ Len(queue'[d]) = n + 1 /\ n \in Nat
        /\ \A i \in 1 .. n : queue'[d][i] = queue[d][i]
        /\ queue'[d][n + 1] = snd[t].msg
    BY <2>1, <2>2 DEF Shape, Types
  <2>5. /\ \A u \in Tasks \ {t} : snd'[u] = snd[u]
        /\ snd'[t].pc = "idle" /\ snd[t].pc = "post" /\ UNCHANGED <<freeMsg, rcv>>
    BY <1>4 DEF Post, Shape, Types, NoSend
  <2> HIDE DEF d, n
  <2>6. \A q \in Queues, i \in Nat : \A m : In(q, i, m)' <=> In(q, i, m) \/ (q = d /\ i = n + 1 /\ m = snd[t].msg)
    <3> SUFFICES ASSUME NEW q \in Queues, NEW i \in Nat, NEW m
                 PROVE  In(q, i, m)' <=> In(q, i, m) \/ (q = d /\ i = n + 1 /\ m = snd[t].msg)
      OBVIOUS
    <3>1. CASE q = d
      BY <2>4, <3>1 DEF n, In
    <3>2. CASE q # d
      BY <2>3, <3>2 DEF In
    <3> QED BY <3>1, <3>2
  <2>7. FreeApart' /\ NoLeak'
    <3>1. FreeApart'
      BY <2>5, <2>6 DEF Owners
    <3>2. ASSUME NEW m \in Msgs
          PROVE  m \in freeMsg' \/ (\E u \in Tasks : Sending(u, m)' \/ Receiving(u, m)')
                 \/ \E q \in Queues, i \in Nat : In(q, i, m)'
      <4>1. CASE m = snd[t].msg
        <5>1. PICK q \in Queues, i \in Nat : q = d /\ i = n + 1
          BY <2>1, <2>4
        <5>2. In(q, i, m)'
          BY <2>6, <4>1, <5>1
        <5> QED BY <5>2
      <4>2. CASE m # snd[t].msg
        BY <2>5, <2>6, <4>2 DEF NoLeak
      <4> QED BY <4>1, <4>2
    <3> QED BY <3>1, <3>2 DEF NoLeak
  <2>8. TasksApart'
    BY <2>5 DEF Owners
  <2>9. QueuesApart'
    <3> SUFFICES ASSUME NEW q \in Queues, NEW i \in Nat, NEW m \in Msgs, In(q, i, m)'
                 PROVE  /\ \A u \in Tasks : ~Sending(u, m)' /\ ~Receiving(u, m)'
                        /\ \A p \in Queues, j \in Nat : In(p, j, m)' => p = q /\ j = i
      OBVIOUS
    <3>1. \A p \in Queues, j \in Nat : ~In(p, j, snd[t].msg)
      BY <2>1, <2>5 DEF Owners
    <3>2. CASE In(q, i, m)
      <4>1. m # snd[t].msg
        BY <3>1, <3>2
      <4>2. \A p \in Queues, j \in Nat : In(p, j, m)' => In(p, j, m)
        BY <2>6, <4>1
      <4> QED BY <2>5, <3>2, <4>2 DEF Owners
    <3>3. CASE m = snd[t].msg /\ ~In(q, i, m)
      <4>1. \A p \in Queues, j \in Nat : In(p, j, m)' => p = d /\ j = n + 1
        BY <2>6, <3>1, <3>3
      <4>2. \A u \in Tasks : ~Sending(u, m)' /\ ~Receiving(u, m)'
        BY <2>5, <3>3 DEF Owners
      <4> QED BY <4>1, <4>2
    <3> QED BY <2>6, <3>2, <3>3
  <2> QED BY <2>7, <2>8, <2>9 DEF Owners
<1>5. CASE SndFreeMsg(t)
  <2>1. /\ \A u \in Tasks \ {t} : snd'[u] = snd[u]
        /\ snd'[t].pc = "idle" /\ snd[t].pc # "idle" /\ UNCHANGED <<queue, rcv>>
        /\ freeMsg' = freeMsg \cup {snd[t].msg} /\ snd[t].msg \in Msgs
    BY <1>0, <1>5 DEF SndFreeMsg, PutMsg, Shape, Types, qVars, NoSend
  <2>2. FreeApart'
    BY <2>1 DEF Owners, In
  <2>3. TasksApart' /\ QueuesApart'
    BY <2>1 DEF Owners, In
  <2>4. NoLeak'
    BY <2>1 DEF NoLeak, In
  <2> QED BY <2>2, <2>3, <2>4 DEF Owners
<1> QED BY <1>1, <1>2, <1>3, <1>4, <1>5 DEF SendStep

LEMMA ReceiveOwners ==
  ASSUME Shape, Owners, NoLeak, NEW t \in Tasks, Timeout(t) \/ FreeStep(t)
  PROVE  Owners' /\ NoLeak'
<1> USE DEF Sending, Receiving, FreeApart, TasksApart, QueuesApart
<1>0. rcv[t] \in [pc : RecvPcs, q : Queues \cup {None}, msg : Msgs \cup {None}]
  BY DEF Shape, Types
<1>1. CASE Timeout(t) \/ RcvFreeBuf(t)
  <2>1. CASE Timeout(t)
    <3>1. /\ \A u \in Tasks \ {t} : rcv'[u] = rcv[u]
          /\ rcv'[t].pc \notin HasMsg /\ rcv[t].pc \notin HasMsg /\ UNCHANGED <<freeMsg, queue, snd>>
      BY <2>1 DEF Timeout, Shape, Types, qVars, NoRecv, HasMsg
    <3> QED BY <3>1 DEF Owners, NoLeak, In
  <2>2. CASE RcvFreeBuf(t)
    <3>1. /\ \A u \in Tasks : (rcv'[u].pc \in HasMsg <=> rcv[u].pc \in HasMsg) /\ rcv'[u].msg = rcv[u].msg
          /\ UNCHANGED <<freeMsg, queue, snd>>
      BY <1>0, <2>2 DEF RcvFreeBuf, Shape, Types, qVars, RecvPcs, HasMsg
    <3> QED BY <3>1 DEF Owners, NoLeak, In
  <2> QED BY <1>1, <2>1, <2>2
<1>2. CASE RcvFreeMsg(t)
  <2>1. /\ \A u \in Tasks \ {t} : rcv'[u] = rcv[u]
        /\ rcv'[t].pc \notin HasMsg /\ rcv[t].pc \in HasMsg /\ UNCHANGED <<queue, snd>>
        /\ freeMsg' = freeMsg \cup {rcv[t].msg} /\ rcv[t].msg \in Msgs
    BY <1>0, <1>2 DEF RcvFreeMsg, PutMsg, Shape, Types, RcvInv, qVars, NoRecv, HasMsg
  <2>2. FreeApart'
    BY <2>1 DEF Owners, In
  <2>3. TasksApart' /\ QueuesApart'
    BY <2>1 DEF Owners, In
  <2>4. NoLeak'
    BY <2>1 DEF NoLeak, In
  <2> QED BY <2>2, <2>3, <2>4 DEF Owners
<1> QED BY <1>1, <1>2 DEF FreeStep

LEMMA QueueOwners ==
  ASSUME Shape, Owners, NoLeak, NEW q \in Queues, Take(q, "handle") \/ Take(q, "drop") \/ Pend(q)
  PROVE  Owners' /\ NoLeak'
<1> USE DEF Sending, Receiving, FreeApart, TasksApart, QueuesApart
<1>0. Reader[q] \in Tasks /\ queue[q] \in Seq(Msgs)
  BY MsgDealAssumption DEF Shape, Types
<1>1. ASSUME NEW pc \in {"handle", "drop"}, Take(q, pc) PROVE Owners' /\ NoLeak'
  <2> DEFINE r == Reader[q]
  <2> DEFINE n == Len(queue[q])
  <2>1. /\ \A p \in Queues \ {q} : queue'[p] = queue[p]
        /\ n \in Nat \ {0} /\ Len(queue'[q]) = n - 1
        /\ \A i \in 1 .. n - 1 : queue'[q][i] = queue[q][i + 1]
        /\ queue[q][1] \in Msgs
    BY <1>0, <1>1 DEF Take, Shape, Types
  <2>2. /\ r \in Tasks /\ rcv[r].pc \notin HasMsg /\ \A u \in Tasks \ {r} : rcv'[u] = rcv[u]
        /\ rcv'[r].pc \in HasMsg /\ rcv'[r].msg = queue[q][1]
        /\ UNCHANGED <<freeMsg, snd>>
    BY <1>0, <1>1 DEF Take, Idle, Shape, Types, HasMsg
  <2> HIDE DEF r, n
  <2>3. \A p \in Queues, i \in Nat : \A m :
          In(p, i, m)' <=> i > 0 /\ In(p, IF p = q THEN i + 1 ELSE i, m)
    <3> SUFFICES ASSUME NEW p \in Queues, NEW i \in Nat, NEW m
                 PROVE  In(p, i, m)' <=> i > 0 /\ In(p, IF p = q THEN i + 1 ELSE i, m)
      OBVIOUS
    <3>1. CASE p = q
      BY <2>1, <3>1 DEF n, In
    <3>2. CASE p # q
      BY <2>1, <3>2 DEF In
    <3> QED BY <3>1, <3>2
  <2>4. In(q, 1, queue[q][1])
    BY <2>1 DEF n, In
  <2>5. FreeApart'
    <3> SUFFICES ASSUME NEW m \in freeMsg
                 PROVE  /\ \A u \in Tasks : ~Sending(u, m)' /\ ~Receiving(u, m)'
                        /\ \A p \in Queues, i \in Nat : ~In(p, i, m)'
      BY <2>2
    <3>1. \A p \in Queues, i \in Nat : ~In(p, i, m)
      BY DEF Owners
    <3>2. m # queue[q][1]
      BY <2>4, <3>1
    <3>3. \A p \in Queues, i \in Nat : ~In(p, i, m)'
      BY <2>3, <3>1
    <3> QED BY <2>2, <3>2, <3>3 DEF Owners
  <2>6. TasksApart'
    BY <2>1, <2>2, <2>4 DEF Owners
  <2>7. QueuesApart'
    <3> SUFFICES ASSUME NEW p \in Queues, NEW i \in Nat, NEW m \in Msgs, In(p, i, m)'
                 PROVE  /\ \A u \in Tasks : ~Sending(u, m)' /\ ~Receiving(u, m)'
                        /\ \A o \in Queues, j \in Nat : In(o, j, m)' => o = p /\ j = i
      OBVIOUS
    <3> DEFINE k == IF p = q THEN i + 1 ELSE i
    <3>1. In(p, k, m) /\ k \in Nat /\ (p = q => k # 1)
      BY <2>3
    <3>2. m # queue[q][1]
      BY <2>4, <3>1 DEF Owners
    <3>3. \A u \in Tasks : ~Sending(u, m)' /\ ~Receiving(u, m)'
      BY <2>2, <3>1, <3>2 DEF Owners
    <3>4. ASSUME NEW o \in Queues, NEW j \in Nat, In(o, j, m)' PROVE o = p /\ j = i
      <4> DEFINE l == IF o = q THEN j + 1 ELSE j
      <4>1. In(o, l, m) /\ l \in Nat
        BY <2>3, <3>4
      <4>2. o = p /\ l = k
        BY <3>1, <4>1 DEF Owners
      <4> QED BY <4>2
    <3> QED BY <3>3, <3>4
  <2>8. NoLeak'
    <3> SUFFICES ASSUME NEW m \in Msgs, m \notin freeMsg, \A u \in Tasks : ~Sending(u, m)' /\ ~Receiving(u, m)'
                 PROVE  \E p \in Queues, i \in Nat : In(p, i, m)'
      BY <2>2 DEF NoLeak
    <3>1. PICK p \in Queues, i \in Nat : In(p, i, m)
      BY <2>2 DEF NoLeak
    <3>2. p = q => i # 1
      BY <2>2, <3>1 DEF In
    <3>3. i > 0
      BY <3>1 DEF In
    <3>4. CASE p = q
      <4>1. i - 1 \in Nat /\ i - 1 > 0 /\ (i - 1) + 1 = i
        BY <3>2, <3>3, <3>4
      <4>2. In(p, i - 1, m)'
        BY <2>3, <3>1, <3>4, <4>1
      <4> QED BY <4>1, <4>2
    <3>5. CASE p # q
      BY <2>3, <3>1, <3>3, <3>5
    <3> QED BY <3>4, <3>5
  <2> QED BY <2>5, <2>6, <2>7, <2>8 DEF Owners
<1>2. CASE Pend(q)
  <2>1. /\ \A u \in Tasks : /\ rcv'[u].pc \in HasMsg <=> rcv[u].pc \in HasMsg
                            /\ rcv[u].pc \in HasMsg => rcv'[u].msg = rcv[u].msg
        /\ UNCHANGED <<freeMsg, queue, snd>>
    BY <1>0, <1>2 DEF Pend, Idle, Shape, Types, qVars, HasMsg
  <2> QED BY <2>1 DEF Owners, NoLeak, In
<1> QED BY <1>1, <1>2

-----------------------------------------------------------------------------
\* Every buffer is free or of one message
BufInv ==
  /\ \A p \in Pools : \A b \in freeBuf[p] : PoolOf[b] = p
  /\ \A m \in Msgs : HasBuf(m) => /\ mtab[m].pool = PoolOf[mtab[m].buf]
                                 /\ mtab[m].buf \notin freeBuf[mtab[m].pool]
                                 /\ mem[mtab[m].buf] \in Payloads
  /\ \A m, n \in Msgs : HasBuf(m) /\ HasBuf(n) /\ mtab[m].buf = mtab[n].buf => m = n
  /\ \A b \in Bufs : b \in freeBuf[PoolOf[b]] \/ \E m \in Msgs : HasBuf(m) /\ mtab[m].buf = b

\* What a sender has done with its message so far
MemInv == \A t \in Tasks :
  /\ snd[t].pc = "buf" => mtab[snd[t].msg] = NoMem
  /\ snd[t].pc = "post" => IF snd[t].val = Empty THEN mtab[snd[t].msg] = NoMem
                           ELSE /\ mtab[snd[t].msg] # NoMem
                                /\ mem[mtab[snd[t].msg].buf] = snd[t].val
  /\ snd[t].pc = "freeBuf" => mtab[snd[t].msg] # NoMem

LEMMA Mtab ==
  ASSUME Types, NEW m \in Msgs
  PROVE  /\ mtab[m].buf = None <=> mtab[m] = NoMem
         /\ mtab[m].buf # None => /\ mtab[m].buf \in Bufs /\ mtab[m].pool \in Pools
                                 /\ mtab[m] = [buf |-> mtab[m].buf, pool |-> mtab[m].pool]
<1>1. mtab[m] \in {NoMem} \cup [buf : Bufs, pool : Pools]
  BY DEF Types
<1>2. CASE mtab[m] = NoMem
  BY <1>2 DEF NoMem
<1>3. CASE mtab[m] \in [buf : Bufs, pool : Pools]
  BY <1>3, MsgDealAssumption DEF NoMem
<1> QED BY <1>1, <1>2, <1>3

LEMMA InitBuf == Init => BufInv /\ MemInv
<1> SUFFICES ASSUME Init PROVE BufInv /\ MemInv
  OBVIOUS
<1>1. \A m \in Msgs : ~HasBuf(m)
  BY DEF Init, HasBuf
<1>2. MemInv
  BY DEF Init, MemInv, NoSend
<1>3. \A b \in Bufs : PoolOf[b] \in Pools
  BY MsgDealAssumption
<1> QED BY <1>1, <1>2, <1>3 DEF Init, BufInv

\* A step that neither takes nor gives back a buffer
LEMMA BufKept ==
  ASSUME BufInv, UNCHANGED poolVars,
         \A m \in Msgs : /\ HasBuf(m)' <=> HasBuf(m)
                         /\ HasBuf(m) => mtab'[m] = mtab[m]
  PROVE  BufInv'
<1> HIDE DEF HasBuf
<1> QED BY DEF BufInv, poolVars

\* A buffer that is given back
LEMMA BufLost ==
  ASSUME Types, BufInv, NEW m \in Msgs, HasBuf(m), PutMem(m), mtab' = mtab,
         \A n \in Msgs : HasBuf(n)' <=> HasBuf(n) /\ n # m
  PROVE  BufInv'
<1> DEFINE b == mtab[m].buf
<1> DEFINE p == mtab[m].pool
<1>1. b \in Bufs /\ p \in Pools /\ p = PoolOf[b]
  BY Mtab DEF HasBuf, BufInv
<1>2. /\ freeBuf' = [freeBuf EXCEPT ![p] = freeBuf[p] \cup {b}]
      /\ mem' = [mem EXCEPT ![b] = Junk]
  BY DEF PutMem
<1>3. /\ freeBuf'[p] = freeBuf[p] \cup {b} /\ \A r \in Pools \ {p} : freeBuf'[r] = freeBuf[r]
      /\ \A c \in Bufs \ {b} : mem'[c] = mem[c]
  BY <1>1, <1>2 DEF Types
<1>4. \A n \in Msgs : HasBuf(n)' => /\ HasBuf(n) /\ mtab'[n] = mtab[n] /\ mtab[n].buf # b
                                   /\ mtab[n].buf \in Bufs /\ mtab[n].pool \in Pools
  <2> TAKE n \in Msgs
  <2> HAVE HasBuf(n)'
  <2>1. HasBuf(n) /\ n # m
    OBVIOUS
  <2>2. mtab[n].buf # b
    BY <2>1 DEF BufInv
  <2>3. mtab[n].buf # None
    BY <2>1 DEF HasBuf
  <2> QED BY <2>1, <2>2, <2>3, Mtab
<1>5. \A c \in Bufs : PoolOf[c] \in Pools
  BY MsgDealAssumption
<1> HIDE DEF b, p
<1>6. \A r \in Pools : \A c \in freeBuf'[r] : PoolOf[c] = r
  BY <1>1, <1>3 DEF BufInv
<1>7. \A n \in Msgs : HasBuf(n)' => /\ mtab'[n].pool = PoolOf[mtab'[n].buf]
                                   /\ mtab'[n].buf \notin freeBuf'[mtab'[n].pool]
                                   /\ mem'[mtab'[n].buf] \in Payloads
  BY <1>1, <1>3, <1>4 DEF BufInv
<1>8. \A n, o \in Msgs : HasBuf(n)' /\ HasBuf(o)' /\ mtab'[n].buf = mtab'[o].buf => n = o
  BY <1>4 DEF BufInv
<1>9. ASSUME NEW c \in Bufs
      PROVE  c \in freeBuf'[PoolOf[c]] \/ \E n \in Msgs : HasBuf(n)' /\ mtab'[n].buf = c
  <2>1. CASE c = b
    BY <1>1, <1>3, <2>1
  <2>2. CASE c \in freeBuf[PoolOf[c]]
    BY <1>3, <1>5, <2>2
  <2>3. CASE c # b /\ \E n \in Msgs : HasBuf(n) /\ mtab[n].buf = c
    BY <2>3 DEF b
  <2> QED BY <2>1, <2>2, <2>3 DEF BufInv
<1> QED BY <1>6, <1>7, <1>8, <1>9 DEF BufInv

\* A buffer that is taken for message m
LEMMA BufGained ==
  ASSUME Types, BufInv, NEW m \in Msgs, ~HasBuf(m), NEW v \in Payloads,
         NEW b \in freeBuf[PoolFor[v]], GetMem(b, v),
         mtab' = [mtab EXCEPT ![m] = [buf |-> b, pool |-> PoolFor[v]]],
         \A n \in Msgs : HasBuf(n)' <=> HasBuf(n) \/ n = m
  PROVE  BufInv'
<1> DEFINE p == PoolFor[v]
<1>1. p \in Pools /\ b \in Bufs /\ p = PoolOf[b]
  BY MsgDealAssumption DEF Types, BufInv
<1>2. /\ freeBuf'[p] = freeBuf[p] \ {b} /\ \A r \in Pools \ {p} : freeBuf'[r] = freeBuf[r]
      /\ mem'[b] = v /\ \A c \in Bufs \ {b} : mem'[c] = mem[c]
      /\ mtab'[m].buf = b /\ mtab'[m].pool = p /\ \A n \in Msgs \ {m} : mtab'[n] = mtab[n]
  BY <1>1 DEF GetMem, Types
<1>3. \A n \in Msgs \ {m} : HasBuf(n)' => /\ HasBuf(n) /\ mtab[n].buf # b
                                         /\ mtab[n].buf \in Bufs /\ mtab[n].pool \in Pools
  <2> TAKE n \in Msgs \ {m}
  <2> HAVE HasBuf(n)'
  <2>1. HasBuf(n)
    OBVIOUS
  <2>2. mtab[n].buf \in Bufs /\ mtab[n].pool \in Pools
    BY <2>1, Mtab DEF HasBuf
  <2>3. mtab[n].buf # b
    BY <1>1, <2>1, <2>2 DEF BufInv
  <2> QED BY <2>1, <2>2, <2>3
<1>4. \A c \in Bufs : PoolOf[c] \in Pools
  BY MsgDealAssumption
<1> HIDE DEF p
<1>5. \A r \in Pools : \A c \in freeBuf'[r] : PoolOf[c] = r
  BY <1>1, <1>2 DEF BufInv
<1>6. \A n \in Msgs : HasBuf(n)' => /\ mtab'[n].pool = PoolOf[mtab'[n].buf]
                                   /\ mtab'[n].buf \notin freeBuf'[mtab'[n].pool]
                                   /\ mem'[mtab'[n].buf] \in Payloads
  BY <1>1, <1>2, <1>3 DEF BufInv
<1>7. \A n, o \in Msgs : HasBuf(n)' /\ HasBuf(o)' /\ mtab'[n].buf = mtab'[o].buf => n = o
  BY <1>2, <1>3 DEF BufInv
<1>8. ASSUME NEW c \in Bufs
      PROVE  c \in freeBuf'[PoolOf[c]] \/ \E n \in Msgs : HasBuf(n)' /\ mtab'[n].buf = c
  <2>1. CASE c = b
    BY <1>2, <2>1
  <2>2. CASE c # b /\ c \in freeBuf[PoolOf[c]]
    BY <1>2, <1>4, <2>2
  <2>3. CASE \E n \in Msgs : HasBuf(n) /\ mtab[n].buf = c
    BY <1>2, <2>3
  <2> QED BY <2>1, <2>2, <2>3 DEF BufInv
<1> QED BY <1>5, <1>6, <1>7, <1>8 DEF BufInv

\* A message under way has its buffer unless it is being freed
LEMMA SenderHasBuf ==
  ASSUME Shape, Owners, MemInv, NEW t \in Tasks, snd[t].pc \in {"post", "freeBuf"},
         mtab[snd[t].msg] # NoMem
  PROVE  snd[t].msg \in Msgs /\ HasBuf(snd[t].msg)
<1>1. snd[t].msg \in Msgs
  BY DEF Shape, SndInv
<1>2. mtab[snd[t].msg].buf # None
  BY <1>1, Mtab DEF Shape
<1>3. snd[t].msg \notin freeMsg
  BY DEF Owners, FreeApart, Sending
<1>4. \A u \in Tasks : /\ ~(snd[u].pc = "freeMsg" /\ snd[u].msg = snd[t].msg)
                       /\ ~(rcv[u].pc = "freeMsg" /\ rcv[u].msg = snd[t].msg)
  BY DEF Owners, TasksApart, HasMsg
<1> QED BY <1>1, <1>2, <1>3, <1>4 DEF HasBuf

LEMMA SendBuf ==
  ASSUME Shape, Owners, BufInv, MemInv, NEW t \in Tasks, GetMsg(t) \/ SendStep(t)
  PROVE  BufInv' /\ MemInv'
<1>0. /\ snd[t] \in [pc : SendPcs, dst : Queues \cup {None}, val : AllPayloads \cup {None},
                     msg : Msgs \cup {None}]
      /\ snd[t].pc # "idle" => snd[t].msg \in Msgs /\ snd[t].dst \in Queues
      /\ snd[t].pc = "buf" => snd[t].val \in Payloads
  BY DEF Shape, Types, SndInv
<1>a. /\ snd[t].pc # "idle" => snd[t].msg \notin freeMsg
      /\ \A u \in Tasks \ {t} : snd[t].pc # "idle" /\ snd[u].pc # "idle" => snd[u].msg # snd[t].msg
      /\ \A u \in Tasks : snd[t].pc # "idle" /\ rcv[u].pc = "freeMsg" => rcv[u].msg # snd[t].msg
  BY DEF Owners, FreeApart, TasksApart, Sending, HasMsg
<1>1. CASE GetMsg(t)
  <2> PICK m \in freeMsg, q \in Queues, v \in AllPayloads :
          /\ freeMsg' = freeMsg \ {m} /\ mtab' = [mtab EXCEPT ![m] = NoMem]
          /\ snd' = [snd EXCEPT ![t] = [pc |-> IF v = Empty THEN "post" ELSE "buf",
                                       dst |-> q, val |-> v, msg |-> m]]
    BY <1>1 DEF GetMsg
  <2>1. /\ freeMsg' = freeMsg \ {m} /\ mtab' = [mtab EXCEPT ![m] = NoMem]
        /\ snd'[t].msg = m /\ snd'[t].val = v /\ snd'[t].pc = IF v = Empty THEN "post" ELSE "buf"
    BY DEF Shape, Types
  <2>2. /\ \A u \in Tasks \ {t} : snd'[u] = snd[u] /\ (snd[u].pc # "idle" => snd[u].msg # m)
        /\ snd[t].pc = "idle" /\ UNCHANGED <<poolVars, rcv>> /\ m \in Msgs
    BY <1>1 DEF GetMsg, MaySend, Shape, Types, Owners, FreeApart, Sending
  <2>3. mtab'[m] = NoMem /\ \A n \in Msgs \ {m} : mtab'[n] = mtab[n]
    BY <2>1, <2>2 DEF Shape, Types
  <2>4. \A n \in Msgs : (HasBuf(n)' <=> HasBuf(n)) /\ (HasBuf(n) => mtab'[n] = mtab[n])
    BY <2>1, <2>2, <2>3 DEF HasBuf, NoMem
  <2>5. MemInv'
    BY <2>1, <2>2, <2>3 DEF MemInv, Shape, SndInv, poolVars
  <2> QED BY <2>2, <2>4, <2>5, BufKept
<1>2. CASE GetBuf(t)
  <2> DEFINE m == snd[t].msg
  <2> DEFINE v == snd[t].val
  <2>1. PICK b \in freeBuf[PoolFor[v]] :
          GetMem(b, v) /\ mtab' = [mtab EXCEPT ![m] = [buf |-> b, pool |-> PoolFor[v]]]
    BY <1>2 DEF GetBuf
  <2>2. /\ m \in Msgs /\ v \in Payloads /\ snd[t].pc = "buf" /\ mtab[m].buf = None
        /\ UNCHANGED <<freeMsg, rcv>> /\ snd'[t].pc = "post" /\ snd'[t].msg = m /\ snd'[t].val = v
        /\ \A u \in Tasks \ {t} : snd'[u] = snd[u]
    BY <1>0, <1>2 DEF GetBuf, MemInv, NoMem, Shape, Types
  <2>3. PoolFor[v] \in Pools /\ b \in Bufs /\ PoolOf[b] = PoolFor[v]
    BY <2>2, MsgDealAssumption DEF Shape, Types, BufInv
  <2>4. /\ mtab'[m] = [buf |-> b, pool |-> PoolFor[v]] /\ \A n \in Msgs \ {m} : mtab'[n] = mtab[n]
        /\ mem'[b] = v /\ \A c \in Bufs \ {b} : mem'[c] = mem[c]
    BY <2>1, <2>2, <2>3 DEF GetMem, Shape, Types
  <2> HIDE DEF m, v
  <2>5. ~HasBuf(m) /\ \A n \in Msgs : HasBuf(n)' <=> HasBuf(n) \/ n = m
    <3>1. ~HasBuf(m)
      BY <2>2 DEF HasBuf
    <3>2. ASSUME NEW n \in Msgs PROVE HasBuf(n)' <=> HasBuf(n) \/ n = m
      <4>1. CASE n = m
        BY <1>a, <2>2, <2>3, <2>4, <4>1, MsgDealAssumption DEF HasBuf, m
      <4>2. CASE n # m
        BY <2>2, <2>4, <4>2 DEF HasBuf
      <4> QED BY <4>1, <4>2
    <3> QED BY <3>1, <3>2
  <2>6. BufInv'
    BY <2>1, <2>2, <2>5, BufGained DEF Shape
  <2>7. MemInv'
    <3>1. ASSUME NEW u \in Tasks \ {t}, snd[u].pc = "post", snd[u].val # Empty
          PROVE  mem'[mtab'[snd[u].msg].buf] = mem[mtab[snd[u].msg].buf]
      <4>1. snd[u].msg \in Msgs /\ HasBuf(snd[u].msg) /\ snd[u].msg # m
        BY <1>a, <2>2, <3>1, SenderHasBuf DEF MemInv, m
      <4>2. mtab[snd[u].msg].buf \in Bufs /\ mtab[snd[u].msg].buf # b
        <5>1. mtab[snd[u].msg].buf \in Bufs
          BY <4>1, Mtab DEF HasBuf, Shape
        <5>2. /\ mtab[snd[u].msg].pool = PoolOf[mtab[snd[u].msg].buf]
              /\ mtab[snd[u].msg].buf \notin freeBuf[mtab[snd[u].msg].pool]
          BY <4>1 DEF BufInv
        <5> QED BY <2>3, <5>1, <5>2
      <4> QED BY <2>4, <4>1, <4>2
    <3>2. \A u \in Tasks \ {t} : snd[u].pc # "idle" => mtab'[snd[u].msg] = mtab[snd[u].msg]
      BY <1>a, <2>2, <2>4 DEF Shape, SndInv, m
    <3>3. [buf |-> b, pool |-> PoolFor[v]] # NoMem /\ v # Empty
      BY <2>2, <2>3, MsgDealAssumption DEF NoMem
    <3> QED BY <2>2, <2>4, <3>1, <3>2, <3>3 DEF MemInv
  <2> QED BY <2>6, <2>7
<1>3. CASE NoBuf(t)
  <2>1. /\ \A u \in Tasks \ {t} : snd'[u] = snd[u]
        /\ snd[t].pc = "buf" /\ snd'[t].pc = "freeMsg" /\ snd'[t].msg = snd[t].msg
        /\ UNCHANGED <<poolVars, freeMsg, mtab, rcv>> /\ mtab[snd[t].msg].buf = None
    BY <1>0, <1>3 DEF NoBuf, Shape, Types, MemInv, NoMem
  <2>2. \A n \in Msgs : HasBuf(n)' <=> HasBuf(n)
    BY <2>1 DEF HasBuf
  <2>3. MemInv'
    BY <2>1 DEF MemInv, poolVars
  <2> QED BY <2>1, <2>2, <2>3, BufKept
<1>4. CASE PostToReader(t) \/ Post(t)
  <2>1. /\ \A u \in Tasks \ {t} : snd'[u] = snd[u]
        /\ snd[t].pc = "post" /\ snd'[t].pc = "idle"
        /\ UNCHANGED <<poolVars, freeMsg, mtab>>
    BY <1>4 DEF PostToReader, Post, Shape, Types, NoSend
  <2>2. \A u \in Tasks : \A n : (rcv'[u].pc = "freeMsg" /\ rcv'[u].msg = n) <=> (rcv[u].pc = "freeMsg" /\ rcv[u].msg = n)
    BY <1>4 DEF PostToReader, Post, Waiting, Shape, Types
  <2>3. \A n \in Msgs : HasBuf(n)' <=> HasBuf(n)
    BY <2>1, <2>2 DEF HasBuf
  <2>4. MemInv'
    BY <2>1 DEF MemInv, poolVars
  <2> QED BY <2>1, <2>3, <2>4, BufKept
<1>5. CASE PostRefused(t)
  <2>1. /\ \A u \in Tasks \ {t} : snd'[u] = snd[u]
        /\ snd[t].pc = "post" /\ snd'[t].msg = snd[t].msg
        /\ snd'[t].pc = IF mtab[snd[t].msg].buf # None THEN "freeBuf" ELSE "freeMsg"
        /\ UNCHANGED <<poolVars, freeMsg, mtab, rcv>>
    BY <1>0, <1>5 DEF PostRefused, Shape, Types
  <2>2. \A n \in Msgs : HasBuf(n)' <=> HasBuf(n)
    BY <2>1 DEF HasBuf
  <2>3. MemInv'
    <3>1. snd'[t].pc \notin {"buf", "post"} /\ (snd'[t].pc = "freeBuf" => mtab[snd[t].msg] # NoMem)
      BY <1>0, <2>1 DEF NoMem
    <3> QED BY <2>1, <3>1 DEF MemInv, poolVars
  <2> QED BY <2>1, <2>2, <2>3, BufKept
<1>6. CASE SndFreeBuf(t)
  <2> DEFINE m == snd[t].msg
  <2>1. /\ \A u \in Tasks \ {t} : snd'[u] = snd[u]
        /\ snd[t].pc = "freeBuf" /\ snd'[t].msg = m /\ snd'[t].pc = "freeMsg"
        /\ UNCHANGED <<freeMsg, mtab, rcv>> /\ PutMem(m)
    BY <1>0, <1>6 DEF SndFreeBuf, Shape, Types
  <2>2. m \in Msgs /\ HasBuf(m)
    BY <2>1, SenderHasBuf DEF MemInv
  <2>3. mtab[m].buf \in Bufs /\ mem' = [mem EXCEPT ![mtab[m].buf] = Junk]
    BY <2>1, <2>2, Mtab DEF HasBuf, Shape, PutMem
  <2> HIDE DEF m
  <2>4. \A n \in Msgs : HasBuf(n)' <=> HasBuf(n) /\ n # m
    BY <2>1 DEF HasBuf
  <2>5. BufInv'
    BY <2>1, <2>2, <2>4, BufLost DEF Shape
  <2>6. MemInv'
    <3>1. ASSUME NEW u \in Tasks \ {t}, snd[u].pc = "post", snd[u].val # Empty
          PROVE  mem'[mtab[snd[u].msg].buf] = mem[mtab[snd[u].msg].buf]
      <4>1. snd[u].msg \in Msgs /\ HasBuf(snd[u].msg) /\ snd[u].msg # m
        BY <1>a, <2>1, <3>1, SenderHasBuf DEF MemInv, m
      <4>2. mtab[snd[u].msg].buf \in Bufs /\ mtab[snd[u].msg].buf # mtab[m].buf
        BY <2>2, <4>1, Mtab DEF HasBuf, BufInv, Shape
      <4> QED BY <2>3, <4>2 DEF Shape, Types
    <3> QED BY <2>1, <3>1 DEF MemInv
  <2> QED BY <2>5, <2>6
<1>7. CASE SndFreeMsg(t)
  <2> DEFINE m == snd[t].msg
  <2>1. /\ \A u \in Tasks \ {t} : snd'[u] = snd[u]
        /\ snd[t].pc = "freeMsg" /\ snd'[t].pc = "idle" /\ m \in Msgs
        /\ freeMsg' = freeMsg \cup {m} /\ mtab' = [mtab EXCEPT ![m] = NoMem]
        /\ UNCHANGED <<poolVars, rcv>>
    BY <1>0, <1>7 DEF SndFreeMsg, PutMsg, Shape, Types, NoSend
  <2>2. \A n \in Msgs \ {m} : mtab'[n] = mtab[n]
    BY <2>1 DEF Shape, Types
  <2> HIDE DEF m
  <2>3. \A n \in Msgs : (HasBuf(n)' <=> HasBuf(n)) /\ (HasBuf(n) => mtab'[n] = mtab[n])
    BY <2>1, <2>2 DEF HasBuf, m
  <2>4. MemInv'
    BY <1>a, <2>1, <2>2 DEF MemInv, poolVars, Shape, SndInv, m
  <2> QED BY <2>1, <2>3, <2>4, BufKept
<1> QED BY <1>1, <1>2, <1>3, <1>4, <1>5, <1>6, <1>7 DEF SendStep

LEMMA ReceiveBuf ==
  ASSUME Shape, Owners, BufInv, MemInv, NEW t \in Tasks, Timeout(t) \/ FreeStep(t)
  PROVE  BufInv' /\ MemInv'
<1>0. /\ rcv[t] \in [pc : RecvPcs, q : Queues \cup {None}, msg : Msgs \cup {None}]
      /\ rcv[t].pc \in HasMsg => rcv[t].msg \in Msgs
  BY DEF Shape, Types, RcvInv
<1>a. rcv[t].pc \in HasMsg =>
        /\ rcv[t].msg \notin freeMsg
        /\ \A u \in Tasks : snd[u].pc # "idle" => snd[u].msg # rcv[t].msg
        /\ \A u \in Tasks \ {t} : rcv[u].pc = "freeMsg" => rcv[u].msg # rcv[t].msg
  BY DEF Owners, FreeApart, TasksApart, Receiving, HasMsg
<1>1. CASE Timeout(t)
  <2>1. /\ \A u \in Tasks \ {t} : rcv'[u] = rcv[u]
        /\ rcv[t].pc = "wait" /\ rcv'[t].pc = "idle" /\ UNCHANGED <<poolVars, freeMsg, mtab, snd>>
    BY <1>1 DEF Timeout, Shape, Types, NoRecv
  <2>2. \A n \in Msgs : HasBuf(n)' <=> HasBuf(n)
    BY <2>1 DEF HasBuf
  <2>3. MemInv'
    BY <2>1 DEF MemInv, poolVars
  <2> QED BY <2>1, <2>2, <2>3, BufKept
<1>2. CASE RcvFreeBuf(t)
  <2> DEFINE m == rcv[t].msg
  <2>1. /\ \A u \in Tasks \ {t} : rcv'[u] = rcv[u]
        /\ rcv[t].pc \in {"handle", "drop"} /\ rcv'[t].msg = m /\ rcv'[t].pc = "freeMsg"
        /\ UNCHANGED <<freeMsg, mtab, snd>> /\ PutMem(m) /\ mtab[m].buf # None
    BY <1>0, <1>2 DEF RcvFreeBuf, Shape, Types
  <2>2. m \in Msgs /\ HasBuf(m)
    BY <1>0, <1>a, <2>1 DEF HasBuf, HasMsg
  <2>3. mtab[m].buf \in Bufs /\ mem' = [mem EXCEPT ![mtab[m].buf] = Junk]
    BY <2>1, <2>2, Mtab DEF Shape, PutMem
  <2> HIDE DEF m
  <2>4. \A n \in Msgs : HasBuf(n)' <=> HasBuf(n) /\ n # m
    BY <2>1 DEF HasBuf
  <2>5. BufInv'
    BY <2>1, <2>2, <2>4, BufLost DEF Shape
  <2>6. MemInv'
    <3>1. ASSUME NEW u \in Tasks, snd[u].pc = "post", snd[u].val # Empty
          PROVE  mem'[mtab[snd[u].msg].buf] = mem[mtab[snd[u].msg].buf]
      <4>1. snd[u].msg \in Msgs /\ HasBuf(snd[u].msg) /\ snd[u].msg # m
        BY <1>a, <2>1, <3>1, SenderHasBuf DEF MemInv, m, HasMsg
      <4>2. mtab[snd[u].msg].buf \in Bufs /\ mtab[snd[u].msg].buf # mtab[m].buf
        BY <2>2, <4>1, Mtab DEF HasBuf, BufInv, Shape
      <4> QED BY <2>3, <4>2 DEF Shape, Types
    <3> QED BY <2>1, <3>1 DEF MemInv
  <2> QED BY <2>5, <2>6
<1>3. CASE RcvFreeMsg(t)
  <2> DEFINE m == rcv[t].msg
  <2>1. /\ \A u \in Tasks \ {t} : rcv'[u] = rcv[u]
        /\ rcv[t].pc \in HasMsg /\ rcv'[t].pc = "idle" /\ m \in Msgs
        /\ rcv[t].pc = "freeMsg" \/ mtab[m].buf = None
        /\ freeMsg' = freeMsg \cup {m} /\ mtab' = [mtab EXCEPT ![m] = NoMem]
        /\ UNCHANGED <<poolVars, snd>>
    BY <1>0, <1>3 DEF RcvFreeMsg, PutMsg, Shape, Types, NoRecv, HasMsg
  <2>2. \A n \in Msgs \ {m} : mtab'[n] = mtab[n]
    BY <2>1 DEF Shape, Types
  <2> HIDE DEF m
  <2>3. \A n \in Msgs : (HasBuf(n)' <=> HasBuf(n)) /\ (HasBuf(n) => mtab'[n] = mtab[n])
    BY <2>1, <2>2 DEF HasBuf, m
  <2>4. MemInv'
    BY <1>a, <2>1, <2>2 DEF MemInv, poolVars, Shape, SndInv, m
  <2> QED BY <2>1, <2>3, <2>4, BufKept
<1> QED BY <1>1, <1>2, <1>3 DEF FreeStep

LEMMA QueueBuf ==
  ASSUME Shape, Owners, BufInv, MemInv, NEW q \in Queues, Take(q, "handle") \/ Take(q, "drop") \/ Pend(q)
  PROVE  BufInv' /\ MemInv'
<1>1. Reader[q] \in Tasks
  BY MsgDealAssumption
<1>2. /\ \A u \in Tasks \ {Reader[q]} : rcv'[u] = rcv[u]
      /\ rcv[Reader[q]].pc = "idle" /\ rcv'[Reader[q]].pc \in {"handle", "drop", "wait"}
      /\ UNCHANGED <<poolVars, freeMsg, mtab, snd>>
  BY <1>1 DEF Take, Pend, Idle, Shape, Types
<1>3. \A n \in Msgs : HasBuf(n)' <=> HasBuf(n)
  BY <1>2 DEF HasBuf
<1>4. MemInv'
  BY <1>2 DEF MemInv, poolVars
<1> QED BY <1>2, <1>3, <1>4, BufKept

-----------------------------------------------------------------------------
\* Every message in a queue has an OS_MSG of the pool
CountInv == /\ IsFiniteSet(Queued) /\ osMsg \in Nat
            /\ osMsg + Cardinality(Queued) = OsMsgs

LEMMA InitCount == Init => CountInv
<1> SUFFICES ASSUME Init PROVE CountInv
  OBVIOUS
<1>1. Queued = {}
  BY DEF Init, Queued
<1> QED BY <1>1, FS_EmptySet, MsgDealAssumption DEF Init, CountInv

LEMMA SendCount ==
  ASSUME Shape, CountInv, NEW t \in Tasks, GetMsg(t) \/ SendStep(t)
  PROVE  CountInv'
<1>1. CASE Post(t)
  <2> DEFINE d == snd[t].dst
  <2> DEFINE n == Len(queue[d])
  <2>1. d \in Queues /\ snd[t].msg \in Msgs /\ queue[d] \in Seq(Msgs) /\ n \in Nat
    BY <1>1 DEF Post, Shape, Types, SndInv
  <2>2. queue' = [queue EXCEPT ![d] = Append(queue[d], snd[t].msg)] /\ osMsg' = osMsg - 1 /\ osMsg # 0
    BY <1>1 DEF Post, Full
  <2>3. DOMAIN queue'[d] = 1 .. n + 1 /\ DOMAIN queue[d] = 1 .. n /\ \A q \in Queues \ {d} : queue'[q] = queue[q]
    BY <2>1, <2>2 DEF Shape, Types
  <2> HIDE DEF d, n
  <2>4. Queued' = Queued \cup {<<d, n + 1>>} /\ <<d, n + 1>> \notin Queued
    BY <2>1, <2>3 DEF Queued
  <2>5. IsFiniteSet(Queued') /\ Cardinality(Queued') = Cardinality(Queued) + 1 /\ Cardinality(Queued) \in Nat
    BY <2>4, FS_AddElement, FS_CardinalityType DEF CountInv
  <2> QED BY <2>2, <2>5, MsgDealAssumption DEF CountInv
<1>2. CASE ~Post(t)
  <2>1. UNCHANGED qVars
    BY <1>2 DEF GetMsg, SendStep, GetBuf, NoBuf, PostToReader, PostRefused, SndFreeBuf, SndFreeMsg
  <2> QED BY <2>1 DEF CountInv, Queued, qVars
<1> QED BY <1>1, <1>2

LEMMA QueueCount ==
  ASSUME Shape, CountInv, NEW q \in Queues, Take(q, "handle") \/ Take(q, "drop") \/ Pend(q)
  PROVE  CountInv'
<1>1. CASE Take(q, "handle") \/ Take(q, "drop")
  <2> DEFINE n == Len(queue[q])
  <2>1. queue[q] \in Seq(Msgs) /\ queue[q] # <<>> /\ n \in Nat \ {0}
    BY <1>1 DEF Take, Shape, Types
  <2>2. queue' = [queue EXCEPT ![q] = Tail(queue[q])] /\ osMsg' = osMsg + 1
    BY <1>1 DEF Take
  <2>3. DOMAIN queue'[q] = 1 .. n - 1 /\ DOMAIN queue[q] = 1 .. n /\ \A p \in Queues \ {q} : queue'[p] = queue[p]
    BY <2>1, <2>2 DEF Shape, Types
  <2> HIDE DEF n
  <2>4. Queued' = Queued \ {<<q, n>>} /\ <<q, n>> \in Queued
    BY <2>1, <2>3 DEF Queued
  <2>5. IsFiniteSet(Queued') /\ Cardinality(Queued') = Cardinality(Queued) - 1 /\ Cardinality(Queued) \in Nat
    BY <2>4, FS_RemoveElement, FS_CardinalityType DEF CountInv
  <2> QED BY <2>2, <2>5, MsgDealAssumption DEF CountInv
<1>2. CASE Pend(q)
  BY <1>2 DEF Pend, CountInv, Queued, qVars
<1> QED BY <1>1, <1>2

-----------------------------------------------------------------------------
\* The inductive invariant: what the two properties need and what a step
\* needs to keep it
IInv == Shape /\ Owners /\ NoLeak /\ BufInv /\ MemInv /\ CountInv

LEMMA InitIInv == Init => IInv
<1> SUFFICES ASSUME Init PROVE IInv
  OBVIOUS
<1>1. Owners /\ NoLeak
  BY DEF Init, NoSend, NoRecv, Owners, FreeApart, TasksApart, QueuesApart, NoLeak, Sending, Receiving, In, HasMsg
<1> QED BY <1>1, InitShape, InitBuf, InitCount DEF IInv

LEMMA NextIInv == IInv /\ [Next]_vars => IInv'
<1> SUFFICES ASSUME IInv, [Next]_vars PROVE IInv'
  OBVIOUS
<1>0. Shape /\ Owners /\ NoLeak /\ BufInv /\ MemInv /\ CountInv /\ Shape'
  BY ShapeStep DEF IInv
<1>1. ASSUME NEW t \in Tasks, GetMsg(t) \/ SendStep(t) PROVE IInv'
  BY <1>0, <1>1, SendOwners, SendBuf, SendCount DEF IInv
<1>2. ASSUME NEW t \in Tasks, Timeout(t) \/ FreeStep(t) PROVE IInv'
  <2>1. UNCHANGED qVars
    BY <1>2 DEF Timeout, FreeStep, RcvFreeBuf, RcvFreeMsg
  <2>2. CountInv'
    BY <1>0, <2>1 DEF CountInv, Queued, qVars
  <2> QED BY <1>0, <1>2, <2>2, ReceiveOwners, ReceiveBuf DEF IInv
<1>3. ASSUME NEW q \in Queues, Take(q, "handle") \/ Take(q, "drop") \/ Pend(q) PROVE IInv'
  BY <1>0, <1>3, QueueOwners, QueueBuf, QueueCount DEF IInv
<1>4. CASE UNCHANGED vars
  <2>1. Owners' /\ NoLeak'
    BY <1>0, <1>4 DEF vars, Owners, FreeApart, TasksApart, QueuesApart, NoLeak, Sending, Receiving, In
  <2>2. BufInv' /\ MemInv'
    BY <1>0, <1>4 DEF vars, BufInv, MemInv, HasBuf
  <2>3. CountInv'
    BY <1>0, <1>4 DEF vars, CountInv, Queued
  <2> QED BY <1>0, <2>1, <2>2, <2>3 DEF IInv
<1> QED BY <1>1, <1>2, <1>3, <1>4 DEF Next

LEMMA Invariance == Spec => []IInv
BY InitIInv, NextIInv, PTL DEF Spec

\* No step gives a block, a queue or a task a value it may not have, and
\* neither a queue nor the pool of OS_MSG goes past its size.
THEOREM TypeCorrect == Spec => []TypeOK
<1>1. IInv => TypeOK
  <2> SUFFICES ASSUME IInv PROVE TypeOK
    OBVIOUS
  <2>1. osMsg \in 0 .. OsMsgs
    BY FS_CardinalityType, MsgDealAssumption DEF IInv, CountInv
  <2> QED BY <2>1 DEF IInv, Shape, Types, CapInv, TypeOK, SendPcs, RecvPcs
<1> QED BY <1>1, Invariance, PTL

LEMMA AtMostOne ==
  ASSUME NEW S, \A x, y \in S : x = y
  PROVE  Cardinality(S) = IF S = {} THEN 0 ELSE 1
<1>1. CASE S = {}
  BY <1>1, FS_EmptySet
<1>2. CASE S # {}
  <2>1. PICK x \in S : TRUE
    BY <1>2
  <2>2. S = {x}
    BY <2>1
  <2> QED BY <1>2, <2>2, FS_Singleton
<1> QED BY <1>1, <1>2

LEMMA MsgOwner == IInv => MsgOneOwner
<1> SUFFICES ASSUME IInv, NEW m \in Msgs
             PROVE  (IF m \in freeMsg THEN 1 ELSE 0)
                      + Cardinality({t \in SndMsgs : snd[t].msg = m})
                      + Cardinality({t \in RcvMsgs : rcv[t].msg = m})
                      + Cardinality({s \in Queued : queue[s[1]][s[2]] = m}) = 1
  BY DEF MsgOneOwner
<1> DEFINE A == {t \in SndMsgs : snd[t].msg = m}
<1> DEFINE B == {t \in RcvMsgs : rcv[t].msg = m}
<1> DEFINE C == {s \in Queued : queue[s[1]][s[2]] = m}
<1>1. \A t : /\ t \in A <=> t \in Tasks /\ Sending(t, m)
             /\ t \in B <=> t \in Tasks /\ Receiving(t, m)
  BY DEF SndMsgs, RcvMsgs, Sending, Receiving, HasMsg
<1>2. ASSUME NEW q \in Queues, NEW i \in Nat PROVE In(q, i, m) <=> <<q, i>> \in C
  <2>1. queue[q] \in Seq(Msgs) /\ DOMAIN queue[q] = 1 .. Len(queue[q])
    BY DEF IInv, Shape, Types
  <2> QED BY <2>1 DEF In, Queued
<1>3. ASSUME NEW s \in C PROVE \E q \in Queues, i \in Nat : s = <<q, i>> /\ In(q, i, m)
  <2>1. PICK q \in Queues : s \in {q} \X DOMAIN queue[q]
    BY DEF Queued
  <2>2. queue[q] \in Seq(Msgs) /\ DOMAIN queue[q] = 1 .. Len(queue[q])
    BY DEF IInv, Shape, Types
  <2>3. s = <<q, s[2]>> /\ s[2] \in Nat
    BY <2>1, <2>2
  <2> QED BY <1>2, <2>3
<1> HIDE DEF A, B, C
<1>4. /\ m \in freeMsg => A = {} /\ B = {} /\ C = {}
      /\ C # {} => A = {} /\ B = {}
  <2>1. m \in freeMsg => A = {} /\ B = {} /\ C = {}
    BY <1>1, <1>3 DEF IInv, Owners, FreeApart
  <2>2. C # {} => A = {} /\ B = {}
    BY <1>1, <1>3 DEF IInv, Owners, QueuesApart
  <2> QED BY <2>1, <2>2
<1>5. A # {} => B = {}
  BY <1>1 DEF IInv, Owners, TasksApart, Sending, Receiving
<1>6. /\ \A t, u \in A : t = u
      /\ \A t, u \in B : t = u
  BY <1>1 DEF IInv, Owners, TasksApart, Sending, Receiving
<1>7. \A r, s \in C : r = s
  BY <1>3 DEF IInv, Owners, QueuesApart
<1>8. m \in freeMsg \/ A # {} \/ B # {} \/ C # {}
  BY <1>1, <1>2 DEF IInv, NoLeak
<1>9. /\ Cardinality(A) = IF A = {} THEN 0 ELSE 1
      /\ Cardinality(B) = IF B = {} THEN 0 ELSE 1
      /\ Cardinality(C) = IF C = {} THEN 0 ELSE 1
  BY <1>6, <1>7, AtMostOne
<1>10. (IF m \in freeMsg THEN 1 ELSE 0) + Cardinality(A) + Cardinality(B) + Cardinality(C) = 1
  BY <1>4, <1>5, <1>8, <1>9
<1> QED BY <1>10 DEF A, B, C

LEMMA BufOwner == IInv => BufOneOwner
<1> SUFFICES ASSUME IInv, NEW b \in Bufs
             PROVE  /\ \A p \in Pools : b \in freeBuf[p] => p = PoolOf[b]
                    /\ (IF b \in freeBuf[PoolOf[b]] THEN 1 ELSE 0)
                         + Cardinality({m \in Msgs : HasBuf(m) /\ mtab[m].buf = b}) = 1
  BY DEF BufOneOwner
<1> DEFINE A == {m \in Msgs : HasBuf(m) /\ mtab[m].buf = b}
<1>1. \A p \in Pools : b \in freeBuf[p] => p = PoolOf[b]
  BY DEF IInv, BufInv
<1>2. \A m, n \in A : m = n
  BY DEF IInv, BufInv
<1>3. b \in freeBuf[PoolOf[b]] <=> A = {}
  BY DEF IInv, BufInv
<1> HIDE DEF A
<1>4. Cardinality(A) = IF A = {} THEN 0 ELSE 1
  BY <1>2, AtMostOne
<1>5. (IF b \in freeBuf[PoolOf[b]] THEN 1 ELSE 0) + Cardinality(A) = 1
  BY <1>3, <1>4
<1> QED BY <1>1, <1>5 DEF A

\* Whichever resource runs out in MsgDeal_Send, and whoever preempts whom,
\* no message block and no buffer leaks or is freed twice or into a wrong
\* partition.
THEOREM EveryBlockOwned == Spec => []OneOwner
<1>1. IInv => OneOwner
  BY MsgOwner, BufOwner DEF OneOwner
<1> QED BY <1>1, Invariance, PTL

-----------------------------------------------------------------------------
(* MsgDeal implements Mailbox: whatever the partitions and the shared pool   *)
(* do, a service receives the messages it was sent, whole, once, in order.  *)

\* The refinement mapping of MsgDeal!Box
Boxes == [q \in Queues |-> [i \in DOMAIN queue[q] |-> Content(queue[q][i])]]
Reqs  == [t \in Tasks |-> IF snd[t].pc \in {"buf", "post"} THEN <<snd[t].dst, snd[t].val>> ELSE None]
Gots  == [t \in Tasks |-> IF rcv[t].pc = "handle" THEN Content(rcv[t].msg) ELSE None]

\* A message that is not being sent, freed or free: queued, or with a handler
Settled(m) == /\ m \in Msgs /\ m \notin freeMsg /\ (HasBuf(m) \/ mtab[m].buf = None)
              /\ \A t \in Tasks : ~Sending(t, m)

LEMMA QueuedSettled ==
  ASSUME IInv, NEW q \in Queues, NEW i \in Nat, NEW m, In(q, i, m)
  PROVE  Settled(m) /\ \A t \in Tasks : ~Receiving(t, m)
<1>1. m \in Msgs
  BY DEF IInv, Shape, Types, In
<1>2. m \notin freeMsg
  BY DEF IInv, Owners, FreeApart
<1>3. \A t \in Tasks : ~Sending(t, m) /\ ~Receiving(t, m)
  BY <1>1 DEF IInv, Owners, QueuesApart
<1>4. HasBuf(m) \/ mtab[m].buf = None
  BY <1>2, <1>3 DEF HasBuf, Sending, Receiving, HasMsg
<1> QED BY <1>1, <1>2, <1>3, <1>4 DEF Settled

LEMMA HandledSettled ==
  ASSUME IInv, NEW t \in Tasks, rcv[t].pc = "handle"
  PROVE  Settled(rcv[t].msg) /\ \A u \in Tasks \ {t} : ~Receiving(u, rcv[t].msg)
<1> DEFINE m == rcv[t].msg
<1>1. m \in Msgs
  BY DEF IInv, Shape, RcvInv, HasMsg
<1>2. m \notin freeMsg
  BY DEF IInv, Owners, FreeApart, Receiving, HasMsg
<1>3. (\A u \in Tasks : ~Sending(u, m)) /\ (\A u \in Tasks \ {t} : ~Receiving(u, m))
  BY DEF IInv, Owners, TasksApart, Sending, Receiving, HasMsg
<1> HIDE DEF m
<1>4. \A u \in Tasks : /\ ~(snd[u].pc = "freeMsg" /\ snd[u].msg = m)
                       /\ ~(rcv[u].pc = "freeMsg" /\ rcv[u].msg = m)
  BY <1>3 DEF Sending, Receiving, HasMsg
<1>5. HasBuf(m) \/ mtab[m].buf = None
  BY <1>2, <1>4 DEF HasBuf
<1> QED BY <1>1, <1>2, <1>3, <1>5 DEF Settled, m

LEMMA ContentType ==
  ASSUME IInv, NEW m, Settled(m)
  PROVE  Content(m) \in AllPayloads
BY DEF IInv, BufInv, Settled, Content, AllPayloads

\* Only its handler changes what a settled message holds
LEMMA SendContent ==
  ASSUME IInv, NEW t \in Tasks, GetMsg(t) \/ SendStep(t), NEW m, Settled(m)
  PROVE  Content(m)' = Content(m)
<1>0. m \in Msgs /\ m \notin freeMsg /\ (HasBuf(m) \/ mtab[m].buf = None)
      /\ (snd[t].pc # "idle" => snd[t].msg # m /\ snd[t].msg \in Msgs)
  BY DEF Settled, Sending, IInv, Shape, SndInv
<1>1. CASE GetMsg(t)
  BY <1>0, <1>1 DEF GetMsg, poolVars, Content, IInv, Shape, Types
<1>2. CASE GetBuf(t)
  <2>1. PICK b \in freeBuf[PoolFor[snd[t].val]] :
          /\ GetMem(b, snd[t].val)
          /\ mtab' = [mtab EXCEPT ![snd[t].msg] = [buf |-> b, pool |-> PoolFor[snd[t].val]]]
    BY <1>2 DEF GetBuf
  <2>2. mtab'[m] = mtab[m]
    BY <1>0, <1>2, <2>1 DEF GetBuf, IInv, Shape, Types
  <2>3. PoolFor[snd[t].val] \in Pools
    BY <1>2, MsgDealAssumption DEF GetBuf, IInv, Shape, SndInv
  <2>4. b \in Bufs /\ PoolOf[b] = PoolFor[snd[t].val]
    BY <2>3 DEF IInv, Shape, Types, BufInv
  <2>5. CASE HasBuf(m)
    <3>1. mtab[m].buf # b
      BY <1>0, <2>4, <2>5 DEF IInv, BufInv
    <3>2. mtab[m].buf \in Bufs
      BY <1>0, <2>5, Mtab DEF HasBuf, IInv, Shape
    <3>3. mem'[mtab[m].buf] = mem[mtab[m].buf]
      BY <2>1, <3>1, <3>2 DEF GetMem, IInv, Shape, Types
    <3> QED BY <2>2, <3>3 DEF Content
  <2>6. CASE mtab[m].buf = None
    BY <2>2, <2>6 DEF Content
  <2> QED BY <1>0, <2>5, <2>6
<1>3. CASE NoBuf(t) \/ PostToReader(t) \/ Post(t) \/ PostRefused(t)
  BY <1>3 DEF NoBuf, PostToReader, Post, PostRefused, poolVars, Content
<1>4. CASE SndFreeBuf(t)
  <2> DEFINE n == snd[t].msg
  <2>1. snd[t].pc = "freeBuf" /\ PutMem(n) /\ mtab' = mtab
    BY <1>4 DEF SndFreeBuf
  <2>2. n \in Msgs /\ HasBuf(n) /\ n # m
    BY <1>0, <2>1, SenderHasBuf DEF IInv, MemInv
  <2>3. mem' = [mem EXCEPT ![mtab[n].buf] = Junk]
    BY <2>1 DEF PutMem
  <2> HIDE DEF n
  <2>4. CASE HasBuf(m)
    <3>1. mtab[m].buf # mtab[n].buf
      BY <1>0, <2>2, <2>4 DEF IInv, BufInv
    <3>2. mtab[m].buf \in Bufs
      BY <1>0, <2>4, Mtab DEF HasBuf, IInv, Shape
    <3> QED BY <2>1, <2>3, <3>1, <3>2 DEF Content, IInv, Shape, Types
  <2>5. CASE mtab[m].buf = None
    BY <2>1, <2>5 DEF Content
  <2> QED BY <1>0, <2>4, <2>5
<1>5. CASE SndFreeMsg(t)
  BY <1>0, <1>5 DEF SndFreeMsg, PutMsg, poolVars, Content, IInv, Shape, Types
<1> QED BY <1>1, <1>2, <1>3, <1>4, <1>5 DEF SendStep

LEMMA ReceiveContent ==
  ASSUME IInv, NEW t \in Tasks, Timeout(t) \/ FreeStep(t), NEW m, Settled(m), ~Receiving(t, m)
  PROVE  Content(m)' = Content(m)
<1>0. /\ m \in Msgs /\ m \notin freeMsg /\ (HasBuf(m) \/ mtab[m].buf = None)
      /\ rcv[t].pc \in HasMsg => rcv[t].msg # m /\ rcv[t].msg \in Msgs
  BY DEF Settled, Receiving, IInv, Shape, RcvInv
<1>1. CASE Timeout(t)
  BY <1>1 DEF Timeout, poolVars, Content
<1>2. CASE RcvFreeBuf(t)
  <2> DEFINE n == rcv[t].msg
  <2>1. rcv[t].pc \in {"handle", "drop"} /\ PutMem(n) /\ mtab' = mtab /\ mtab[n].buf # None
    BY <1>2 DEF RcvFreeBuf
  <2>2. n \in Msgs /\ n # m
    BY <1>0, <2>1 DEF HasMsg
  <2>3. HasBuf(n)
    BY <2>1 DEF HasBuf, IInv, Owners, FreeApart, TasksApart, Receiving, HasMsg
  <2>4. mem' = [mem EXCEPT ![mtab[n].buf] = Junk]
    BY <2>1 DEF PutMem
  <2> HIDE DEF n
  <2>5. CASE HasBuf(m)
    <3>1. mtab[m].buf # mtab[n].buf
      BY <1>0, <2>2, <2>3, <2>5 DEF IInv, BufInv
    <3>2. mtab[m].buf \in Bufs
      BY <1>0, <2>5, Mtab DEF HasBuf, IInv, Shape
    <3> QED BY <2>1, <2>4, <3>1, <3>2 DEF Content, IInv, Shape, Types
  <2>6. CASE mtab[m].buf = None
    BY <2>1, <2>6 DEF Content
  <2> QED BY <1>0, <2>5, <2>6
<1>3. CASE RcvFreeMsg(t)
  <2>1. rcv[t].pc \in HasMsg /\ PutMsg(rcv[t].msg) /\ mem' = mem
    BY <1>3 DEF RcvFreeMsg, HasMsg, poolVars
  <2> QED BY <1>0, <2>1 DEF PutMsg, Content, IInv, Shape, Types
<1> QED BY <1>1, <1>2, <1>3 DEF FreeStep

-----------------------------------------------------------------------------
LEMMA BoxType ==
  ASSUME IInv, NEW q \in Queues
  PROVE  /\ queue[q] \in Seq(Msgs)
         /\ Boxes[q] \in Seq(AllPayloads) /\ Len(Boxes[q]) = Len(queue[q])
         /\ \A i \in 1 .. Len(queue[q]) : In(q, i, queue[q][i]) /\ Boxes[q][i] = Content(queue[q][i])
<1> DEFINE n == Len(queue[q])
<1>1. queue[q] \in Seq(Msgs) /\ n \in Nat /\ DOMAIN queue[q] = 1 .. n
  BY DEF IInv, Shape, Types
<1>2. \A i \in 1 .. n : In(q, i, queue[q][i])
  BY DEF In
<1>3. \A i \in 1 .. n : Content(queue[q][i]) \in AllPayloads
  BY <1>1, <1>2, QueuedSettled, ContentType
<1>4. Boxes[q] = [i \in 1 .. n |-> Content(queue[q][i])]
  BY <1>1 DEF Boxes
<1> HIDE DEF n
<1>5. Boxes[q] \in Seq(AllPayloads) /\ Len(Boxes[q]) = n
  BY <1>1, <1>3, <1>4
<1> QED BY <1>1, <1>2, <1>4, <1>5 DEF n

\* The queues and what is in them stay
LEMMA BoxesKept ==
  ASSUME IInv, queue' = queue,
         \A q \in Queues, i \in Nat : \A m : In(q, i, m) => Content(m)' = Content(m)
  PROVE  Boxes' = Boxes
<1>1. ASSUME NEW q \in Queues
      PROVE  Boxes'[q] = [i \in DOMAIN queue[q] |-> Content(queue[q][i])]
  <2>1. queue[q] \in Seq(Msgs) /\ DOMAIN queue[q] = 1 .. Len(queue[q])
    BY DEF IInv, Shape, Types
  <2>2. \A i \in DOMAIN queue[q] : Content(queue[q][i])' = Content(queue[q][i])
    BY <2>1 DEF In
  <2> QED BY <2>2 DEF Boxes
<1> QED BY <1>1 DEF Boxes

LEMMA GotsKept ==
  ASSUME IInv, rcv' = rcv,
         \A t \in Tasks : \A m : rcv[t].pc = "handle" /\ rcv[t].msg = m => Content(m)' = Content(m)
  PROVE  Gots' = Gots
BY DEF Gots

LEMMA SendRefines ==
  ASSUME IInv, NEW t \in Tasks, GetMsg(t) \/ SendStep(t)
  PROVE  \/ Box!Request(t) \/ Box!Refuse(t) \/ Box!Accept(t) \/ Box!Hand(t)
         \/ UNCHANGED <<Boxes, Reqs, Gots>>
<1>0. /\ snd[t] \in [pc : SendPcs, dst : Queues \cup {None}, val : AllPayloads \cup {None},
                     msg : Msgs \cup {None}]
      /\ snd[t].pc # "idle" => snd[t].msg \in Msgs /\ snd[t].dst \in Queues /\ snd[t].val \in AllPayloads
  BY DEF IInv, Shape, Types, SndInv
<1>1. \A q \in Queues, i \in Nat : \A m : In(q, i, m) => Content(m)' = Content(m)
  BY QueuedSettled, SendContent
<1>2. \A u \in Tasks : \A m : rcv[u].pc = "handle" /\ rcv[u].msg = m => Content(m)' = Content(m)
  BY HandledSettled, SendContent
<1>3. snd[t].pc \in {"buf", "post"} => Reqs[t] = <<snd[t].dst, snd[t].val>> /\ Reqs[t] # None
  BY <1>0, MsgDealAssumption DEF Reqs, AllPayloads
<1>4. CASE GetMsg(t)
  <2>1. PICK m \in freeMsg, q \in Queues, v \in AllPayloads :
          snd' = [snd EXCEPT ![t] = [pc |-> IF v = Empty THEN "post" ELSE "buf", dst |-> q, val |-> v, msg |-> m]]
    BY <1>4 DEF GetMsg
  <2>2. /\ snd'[t].pc \in {"buf", "post"} /\ snd'[t].dst = q /\ snd'[t].val = v
        /\ \A u \in Tasks \ {t} : snd'[u] = snd[u]
    BY <2>1 DEF IInv, Shape, Types
  <2>3. UNCHANGED <<queue, rcv>> /\ snd[t].pc = "idle"
    BY <1>4 DEF GetMsg, MaySend, qVars
  <2>4. Reqs' = [Reqs EXCEPT ![t] = <<q, v>>] /\ Reqs[t] = None
    BY <2>2, <2>3 DEF Reqs
  <2>5. Boxes' = Boxes /\ Gots' = Gots
    BY <1>1, <1>2, <2>3, BoxesKept, GotsKept
  <2> QED BY <2>4, <2>5 DEF Box!Request, Boxes, Reqs, Gots
<1>5. CASE NoBuf(t) \/ PostRefused(t)
  <2>1. /\ snd[t].pc \in {"buf", "post"} /\ snd'[t].pc \notin {"buf", "post"}
        /\ \A u \in Tasks \ {t} : snd'[u] = snd[u]
        /\ UNCHANGED <<queue, rcv>>
    BY <1>0, <1>5 DEF NoBuf, PostRefused, IInv, Shape, Types, qVars
  <2>2. Reqs' = [Reqs EXCEPT ![t] = None]
    BY <2>1 DEF Reqs
  <2>3. Boxes' = Boxes /\ Gots' = Gots
    BY <1>1, <1>2, <2>1, BoxesKept, GotsKept
  <2> QED BY <1>3, <2>1, <2>2, <2>3 DEF Box!Refuse, Boxes, Reqs, Gots
<1>6. CASE GetBuf(t) \/ SndFreeBuf(t) \/ SndFreeMsg(t)
  <2>1. /\ snd'[t].pc \in {"buf", "post"} <=> snd[t].pc \in {"buf", "post"}
        /\ snd[t].pc \in {"buf", "post"} => snd'[t].dst = snd[t].dst /\ snd'[t].val = snd[t].val
        /\ \A u \in Tasks \ {t} : snd'[u] = snd[u]
        /\ UNCHANGED <<queue, rcv>>
    BY <1>0, <1>6 DEF GetBuf, SndFreeBuf, SndFreeMsg, IInv, Shape, Types, qVars, NoSend
  <2>2. Reqs' = Reqs
    BY <2>1 DEF Reqs
  <2>3. Boxes' = Boxes /\ Gots' = Gots
    BY <1>1, <1>2, <2>1, BoxesKept, GotsKept
  <2> QED BY <2>2, <2>3
<1>7. ASSUME PostToReader(t) \/ Post(t)
      PROVE  /\ snd[t].pc = "post" /\ UNCHANGED <<mtab, mem>>
             /\ Reqs' = [Reqs EXCEPT ![t] = None]
             /\ Content(snd[t].msg) = snd[t].val
  <2>1. /\ snd[t].pc = "post" /\ snd'[t].pc = "idle" /\ UNCHANGED <<mtab, mem>>
        /\ \A u \in Tasks \ {t} : snd'[u] = snd[u]
    BY <1>7 DEF PostToReader, Post, poolVars, IInv, Shape, Types, NoSend
  <2>2. Reqs' = [Reqs EXCEPT ![t] = None]
    BY <2>1 DEF Reqs
  <2>3. Content(snd[t].msg) = snd[t].val
    <3>1. CASE snd[t].val = Empty
      BY <1>0, <2>1, <3>1 DEF IInv, MemInv, Content, NoMem
    <3>2. CASE snd[t].val # Empty
      <4>1. mtab[snd[t].msg] # NoMem /\ mem[mtab[snd[t].msg].buf] = snd[t].val
        BY <2>1, <3>2 DEF IInv, MemInv
      <4>2. mtab[snd[t].msg].buf # None
        BY <1>0, <2>1, <4>1, Mtab DEF IInv, Shape
      <4> QED BY <4>1, <4>2 DEF Content
    <3> QED BY <3>1, <3>2
  <2> QED BY <2>1, <2>2, <2>3
<1>8. CASE PostToReader(t)
  <2> DEFINE d == snd[t].dst
  <2> DEFINE r == Reader[d]
  <2>1. snd[t].pc = "post" /\ d \in Queues /\ r \in Tasks
    BY <1>0, <1>7, <1>8, MsgDealAssumption
  <2>2. /\ rcv[r].pc = "wait" /\ rcv[r].q = d /\ UNCHANGED queue
        /\ rcv' = [rcv EXCEPT ![r] = [pc |-> "handle", q |-> d, msg |-> snd[t].msg]]
    BY <1>8 DEF PostToReader, Waiting, qVars
  <2>3. /\ rcv'[r].pc = "handle" /\ rcv'[r].msg = snd[t].msg
        /\ \A u \in Tasks \ {r} : rcv'[u] = rcv[u]
    BY <2>1, <2>2 DEF IInv, Shape, Types
  <2>4. queue[d] = <<>>
    BY <2>1, <2>2 DEF IInv, Shape, RcvInv
  <2> HIDE DEF r
  <2>5. Boxes[d] = <<>>
    BY <2>1, <2>4 DEF Boxes
  <2>6. Gots[r] = None
    BY <2>1, <2>2 DEF Gots
  <2>7. Gots' = [Gots EXCEPT ![r] = snd[t].val]
    <3>1. \A m : Content(m)' = Content(m)
      BY <1>7, <1>8 DEF Content
    <3>2. Gots'[r] = snd[t].val
      BY <1>7, <1>8, <2>1, <2>3 DEF Gots, Content
    <3>3. \A u \in Tasks \ {r} : Gots'[u] = Gots[u]
      BY <2>3, <1>7, <1>8 DEF Gots, Content
    <3> QED BY <3>2, <3>3 DEF Gots
  <2>8. Boxes' = Boxes
    BY <1>1, <2>2, BoxesKept
  <2>9. Reqs[t] = <<d, snd[t].val>> /\ Reqs[t] # None
    BY <1>3, <2>1
  <2> HIDE DEF d
  <2>10. Reqs[t][1] = d /\ Reqs[t][2] = snd[t].val /\ r = Reader[d]
    BY <2>9 DEF r
  <2>11. Reqs' = [Reqs EXCEPT ![t] = None]
    BY <1>7, <1>8
  <2>12. Box!Hand(t)
    BY <2>5, <2>6, <2>7, <2>8, <2>9, <2>10, <2>11 DEF Box!Hand, Boxes, Reqs, Gots
  <2> QED BY <2>12
<1>9. CASE Post(t)
  <2> DEFINE d == snd[t].dst
  <2> DEFINE n == Len(queue[d])
  <2>1. snd[t].pc = "post" /\ d \in Queues /\ snd[t].msg \in Msgs /\ snd[t].val \in AllPayloads
    BY <1>0, <1>7, <1>9
  <2>2. queue' = [queue EXCEPT ![d] = Append(queue[d], snd[t].msg)] /\ UNCHANGED rcv
    BY <1>9 DEF Post
  <2>3. /\ queue[d] \in Seq(Msgs) /\ n \in Nat
        /\ DOMAIN queue'[d] = 1 .. n + 1 /\ queue'[d][n + 1] = snd[t].msg
        /\ \A i \in 1 .. n : queue'[d][i] = queue[d][i]
        /\ \A q \in Queues \ {d} : queue'[q] = queue[q]
    BY <2>1, <2>2 DEF IInv, Shape, Types
  <2>4. \A m : Content(m)' = Content(m)
    BY <1>7, <1>9 DEF Content
  <2>5. /\ Boxes[d] \in Seq(AllPayloads) /\ Len(Boxes[d]) = n
        /\ \A i \in 1 .. n : Boxes[d][i] = Content(queue[d][i])
    BY <2>1, BoxType
  <2> HIDE DEF d, n
  <2>6. Boxes'[d] = [i \in 1 .. n + 1 |-> IF i = n + 1 THEN snd[t].val ELSE Boxes[d][i]]
    <3>1. Boxes'[d] = [i \in 1 .. n + 1 |-> Content(queue'[d][i])]
      BY <1>7, <1>9, <2>1, <2>3 DEF Boxes, Content
    <3>2. ASSUME NEW i \in 1 .. n + 1
          PROVE  Content(queue'[d][i]) = IF i = n + 1 THEN snd[t].val ELSE Boxes[d][i]
      <4>1. CASE i = n + 1
        BY <1>7, <1>9, <2>3, <4>1
      <4>2. CASE i # n + 1
        <5>1. i \in 1 .. n
          BY <2>3, <4>2
        <5> QED BY <2>3, <2>5, <4>2, <5>1
      <4> QED BY <4>1, <4>2
    <3> QED BY <3>1, <3>2
  <2>7. Boxes'[d] = Append(Boxes[d], snd[t].val)
    <3>1. Append(Boxes[d], snd[t].val) = [i \in 1 .. n + 1 |-> IF i = n + 1 THEN snd[t].val ELSE Boxes[d][i]]
      BY <2>1, <2>3, <2>5
    <3> QED BY <2>6, <3>1
  <2>8. ASSUME NEW q \in Queues \ {d} PROVE Boxes'[q] = Boxes[q]
    BY <1>7, <1>9, <2>3 DEF Boxes, Content
  <2>9. Boxes' = [Boxes EXCEPT ![d] = Append(Boxes[d], snd[t].val)]
    BY <2>7, <2>8 DEF Boxes
  <2>10. Gots' = Gots
    BY <1>2, <2>2, GotsKept
  <2>11. Reqs[t] = <<d, snd[t].val>> /\ Reqs[t] # None
    BY <1>3, <2>1 DEF d
  <2>12. Reqs[t][1] = d /\ Reqs[t][2] = snd[t].val
    BY <2>11
  <2>13. Reqs' = [Reqs EXCEPT ![t] = None]
    BY <1>7, <1>9
  <2>14. Box!Accept(t)
    BY <2>9, <2>10, <2>11, <2>12, <2>13 DEF Box!Accept, Boxes, Reqs, Gots
  <2> QED BY <2>14
<1> QED BY <1>4, <1>5, <1>6, <1>8, <1>9 DEF SendStep

LEMMA ReceiveRefines ==
  ASSUME IInv, NEW t \in Tasks, Timeout(t) \/ FreeStep(t)
  PROVE  Box!Done(t) \/ UNCHANGED <<Boxes, Reqs, Gots>>
<1>0. rcv[t] \in [pc : RecvPcs, q : Queues \cup {None}, msg : Msgs \cup {None}]
  BY DEF IInv, Shape, Types
<1>1. queue' = queue /\ snd' = snd
  BY DEF Timeout, FreeStep, RcvFreeBuf, RcvFreeMsg, qVars
<1>2. Boxes' = Boxes
  <2>1. \A q \in Queues, i \in Nat : \A m : In(q, i, m) => Content(m)' = Content(m)
    BY QueuedSettled, ReceiveContent
  <2> QED BY <1>1, <2>1, BoxesKept
<1>3. Reqs' = Reqs
  BY <1>1 DEF Reqs
<1>4. rcv'[t].pc # "handle" /\ \A u \in Tasks \ {t} : rcv'[u] = rcv[u]
  BY <1>0 DEF Timeout, FreeStep, RcvFreeBuf, RcvFreeMsg, NoRecv, IInv, Shape, Types
<1>5. \A u \in Tasks \ {t} : \A m : rcv[u].pc = "handle" /\ rcv[u].msg = m => Content(m)' = Content(m)
  BY HandledSettled, ReceiveContent
<1>6. Gots' = [Gots EXCEPT ![t] = None]
  <2>1. ASSUME NEW u \in Tasks \ {t} PROVE Gots'[u] = Gots[u]
    BY <1>4, <1>5 DEF Gots
  <2>2. Gots'[t] = None
    BY <1>4 DEF Gots
  <2> QED BY <2>1, <2>2 DEF Gots
<1>7. CASE rcv[t].pc = "handle"
  <2>1. Gots[t] \in AllPayloads
    BY <1>7, HandledSettled, ContentType DEF Gots
  <2>2. Gots[t] # None
    BY <2>1, MsgDealAssumption DEF AllPayloads
  <2>3. Box!Done(t)
    BY <1>2, <1>3, <1>6, <2>2 DEF Box!Done, Boxes, Reqs, Gots
  <2> QED BY <2>3
<1>8. CASE rcv[t].pc # "handle"
  <2>1. Gots[t] = None
    BY <1>8 DEF Gots
  <2>2. Gots' = Gots
    BY <1>6, <2>1 DEF Gots
  <2> QED BY <1>2, <1>3, <2>2
<1> QED BY <1>7, <1>8

LEMMA QueueRefines ==
  ASSUME IInv, NEW q \in Queues, Take(q, "handle") \/ Take(q, "drop") \/ Pend(q)
  PROVE  Box!Take(q) \/ Box!Discard(q) \/ UNCHANGED <<Boxes, Reqs, Gots>>
<1> DEFINE r == Reader[q]
<1>0. r \in Tasks /\ snd' = snd /\ mtab' = mtab /\ mem' = mem /\ rcv[r].pc = "idle"
  BY MsgDealAssumption DEF Take, Pend, Idle, poolVars
<1>1. Reqs' = Reqs
  BY <1>0 DEF Reqs
<1>2. Gots[r] = None
  BY <1>0 DEF Gots
<1>3. ASSUME NEW pc \in {"handle", "drop"}, Take(q, pc)
      PROVE  /\ Boxes[q] # <<>> /\ Boxes' = [Boxes EXCEPT ![q] = Tail(Boxes[q])]
             /\ Gots' = IF pc = "handle" THEN [Gots EXCEPT ![r] = Head(Boxes[q])] ELSE Gots
  <2> DEFINE n == Len(queue[q])
  <2>1. /\ queue[q] \in Seq(Msgs) /\ n \in Nat \ {0} /\ queue' = [queue EXCEPT ![q] = Tail(queue[q])]
        /\ rcv' = [rcv EXCEPT ![r] = [pc |-> pc, q |-> q, msg |-> Head(queue[q])]]
    BY <1>3 DEF Take, IInv, Shape, Types
  <2>2. /\ DOMAIN queue'[q] = 1 .. n - 1 /\ \A i \in 1 .. n - 1 : queue'[q][i] = queue[q][i + 1]
        /\ \A p \in Queues \ {q} : queue'[p] = queue[p]
        /\ Head(queue[q]) = queue[q][1]
    BY <2>1 DEF IInv, Shape, Types
  <2>3. /\ rcv'[r].pc = pc /\ rcv'[r].msg = queue[q][1]
        /\ \A u \in Tasks \ {r} : rcv'[u] = rcv[u]
    BY <1>0, <2>1, <2>2 DEF IInv, Shape, Types
  <2>4. /\ Boxes[q] \in Seq(AllPayloads) /\ Len(Boxes[q]) = n
        /\ \A i \in 1 .. n : Boxes[q][i] = Content(queue[q][i])
    BY BoxType
  <2> HIDE DEF n, r
  <2>5. Boxes'[q] = [i \in 1 .. n - 1 |-> Boxes[q][i + 1]]
    <3>1. Boxes'[q] = [i \in 1 .. n - 1 |-> Content(queue'[q][i])]
      BY <1>0, <2>2 DEF Boxes, Content
    <3>2. ASSUME NEW i \in 1 .. n - 1 PROVE Content(queue'[q][i]) = Boxes[q][i + 1]
      BY <2>1, <2>2, <2>4
    <3> QED BY <3>1, <3>2
  <2>6. Tail(Boxes[q]) = [i \in 1 .. n - 1 |-> Boxes[q][i + 1]] /\ Head(Boxes[q]) = Boxes[q][1]
    BY <2>1, <2>4
  <2>7. ASSUME NEW p \in Queues \ {q} PROVE Boxes'[p] = Boxes[p]
    BY <1>0, <2>2 DEF Boxes, Content
  <2>8. Boxes' = [Boxes EXCEPT ![q] = Tail(Boxes[q])]
    BY <2>5, <2>6, <2>7 DEF Boxes
  <2>9. ASSUME NEW u \in Tasks \ {r} PROVE Gots'[u] = Gots[u]
    BY <1>0, <2>3 DEF Gots, Content
  <2>10. Gots'[r] = IF pc = "handle" THEN Head(Boxes[q]) ELSE None
    <3>1. 1 \in 1 .. n
      BY <2>1
    <3>2. Head(Boxes[q]) = Content(queue[q][1])
      BY <2>4, <2>6, <3>1
    <3> QED BY <1>0, <2>3, <3>2 DEF Gots, Content
  <2>11. Gots' = IF pc = "handle" THEN [Gots EXCEPT ![r] = Head(Boxes[q])] ELSE Gots
    BY <1>0, <1>2, <2>9, <2>10 DEF Gots
  <2> QED BY <2>1, <2>4, <2>8, <2>11
<1> HIDE DEF r
<1>4. CASE Take(q, "handle")
  <2>1. Box!Take(q)
    BY <1>1, <1>2, <1>3, <1>4 DEF Box!Take, Boxes, Reqs, Gots, r
  <2> QED BY <2>1
<1>5. CASE Take(q, "drop")
  <2>1. Box!Discard(q)
    BY <1>1, <1>3, <1>5 DEF Box!Discard, Boxes, Reqs, Gots
  <2> QED BY <2>1
<1>6. CASE Pend(q)
  <2>1. /\ queue' = queue /\ rcv'[r].pc # "handle" /\ \A u \in Tasks \ {r} : rcv'[u] = rcv[u]
    BY <1>0, <1>6 DEF Pend, qVars, IInv, Shape, Types, r
  <2>2. Boxes' = Boxes
    BY <1>0, <2>1 DEF Boxes, Content
  <2>3. Gots' = Gots
    BY <1>0, <2>1 DEF Gots, Content
  <2> QED BY <1>1, <2>2, <2>3
<1> QED BY <1>4, <1>5, <1>6

\* Between two services the partitions, the shared pool of OS_MSG and the
\* blocks they pass are not seen: a message that was accepted is received
\* once, whole, after those that came before it.
THEOREM MsgDealIsMailbox == Spec => ImplementsMailbox
<1>1. Init => Box!Init
  <2> SUFFICES ASSUME Init PROVE Box!Init
    OBVIOUS
  <2>1. Boxes = [q \in Queues |-> <<>>]
    BY DEF Init, Boxes
  <2>2. Reqs = [t \in Tasks |-> None] /\ Gots = [t \in Tasks |-> None]
    BY DEF Init, Reqs, Gots, NoSend, NoRecv
  <2> QED BY <2>1, <2>2 DEF Box!Init, Boxes, Reqs, Gots
<1>2. IInv /\ [Next]_vars => [Box!Next]_(Box!vars)
  <2> SUFFICES ASSUME IInv, [Next]_vars PROVE Box!Next \/ UNCHANGED <<Boxes, Reqs, Gots>>
    BY DEF Box!vars, Boxes, Reqs, Gots
  <2>1. CASE UNCHANGED vars
    BY <2>1 DEF vars, Boxes, Reqs, Gots, Content
  <2>2. ASSUME NEW t \in Tasks, GetMsg(t) \/ SendStep(t)
        PROVE  Box!Next \/ UNCHANGED <<Boxes, Reqs, Gots>>
    BY <2>2, SendRefines DEF Box!Next
  <2>3. ASSUME NEW t \in Tasks, Timeout(t) \/ FreeStep(t)
        PROVE  Box!Next \/ UNCHANGED <<Boxes, Reqs, Gots>>
    BY <2>3, ReceiveRefines DEF Box!Next
  <2>4. ASSUME NEW q \in Queues, Take(q, "handle") \/ Take(q, "drop") \/ Pend(q)
        PROVE  Box!Next \/ UNCHANGED <<Boxes, Reqs, Gots>>
    BY <2>4, QueueRefines DEF Box!Next
  <2> QED BY <2>1, <2>2, <2>3, <2>4 DEF Next
<1> QED BY <1>1, <1>2, Invariance, PTL DEF Spec, ImplementsMailbox, Box!Spec

=============================================================================
