------------------------------ MODULE MsgDeal ------------------------------
(***************************************************************************)
(* Message passing between the services (modules/hl_msg): MsgDeal_Send      *)
(* takes a MSG_BUF_t from its partition, a buffer from the partition for    *)
(* the length, copies, and posts the pointer to the OS_Q of the receiver,   *)
(* which frees both.  Any step may find its resource exhausted: partitions, *)
(* the queue, and the pool of OS_MSG that all queues (lwIP's too) share.   *)
(* uC/OS-III preempts between any two kernel calls.                        *)
(*                                                                         *)
(* Length and contents of a payload are one value; Junk is what a buffer    *)
(* holds while it is free (the partition links its free blocks through      *)
(* them).                                                                  *)
(***************************************************************************)
EXTENDS Integers, Sequences, FiniteSets

CONSTANTS Tasks,     \* services, the timer task, interrupt handlers
          Queues,
          Reader,    \* the task that receives from a queue
          Cap,       \* size of each queue
          OsMsgs,    \* OS_CFG_MSG_POOL_SIZE
          Msgs,      \* blocks of the MSG_BUF_t partition
          Bufs,      \* blocks of the payload partitions
          Pools,     \* rows of MEM_Tab
          PoolOf,    \* the partition a buffer was created in
          Payloads,  \* payloads of non-zero length
          PoolFor,   \* GetMemIdxByLen of their length
          Empty,     \* the payload of length 0
          Junk, None

ASSUME MsgDealAssumption ==
  /\ Reader \in [Queues -> Tasks]
  /\ Cap \in [Queues -> Nat \ {0}] /\ OsMsgs \in Nat
  /\ PoolOf \in [Bufs -> Pools] /\ PoolFor \in [Payloads -> Pools]
  /\ Junk \notin Payloads /\ Empty \notin Payloads /\ Empty # Junk
  /\ None \notin Msgs \cup Bufs \cup Pools \cup Payloads \cup Queues \cup {Empty}
  /\ None \notin Queues \X (Payloads \cup {Empty})

VARIABLES mtab,    \* contents of the MSG_BUF_t blocks
          mem,     \* contents of the buffers
          freeMsg, \* free list of the MSG_BUF_t partition
          freeBuf, \* free list of each payload partition
          queue,   \* OS_MSG_Q: messages of each OS_Q
          osMsg,   \* NbrFree of OSMsgPool
          snd,     \* MsgDeal_Send of each task
          rcv      \* MsgDeal_Recv, handler and MsgDeal_Free of each task

poolVars == <<mem, freeBuf>>
qVars    == <<queue, osMsg>>
vars     == <<mtab, mem, freeMsg, freeBuf, queue, osMsg, snd, rcv>>

AllPayloads == Payloads \cup {Empty}
NoMem  == [buf |-> None, pool |-> None]
NoSend == [pc |-> "idle", dst |-> None, val |-> None, msg |-> None]
NoRecv == [pc |-> "idle", q |-> None, msg |-> None]

TypeOK ==
  /\ mtab \in [Msgs -> {NoMem} \cup [buf : Bufs, pool : Pools]]
  /\ mem \in [Bufs -> Payloads \cup {Junk}]
  /\ freeMsg \in SUBSET Msgs
  /\ freeBuf \in [Pools -> SUBSET Bufs]
  /\ queue \in [Queues -> Seq(Msgs)] /\ \A q \in Queues : Len(queue[q]) <= Cap[q]
  /\ osMsg \in 0 .. OsMsgs
  /\ snd \in [Tasks -> [pc : {"idle", "buf", "post", "freeBuf", "freeMsg"},
                        dst : Queues \cup {None}, val : AllPayloads \cup {None},
                        msg : Msgs \cup {None}]]
  /\ rcv \in [Tasks -> [pc : {"idle", "wait", "handle", "drop", "freeMsg"},
                        q : Queues \cup {None}, msg : Msgs \cup {None}]]

Init ==
  /\ mtab = [m \in Msgs |-> NoMem]
  /\ mem = [b \in Bufs |-> Junk]
  /\ freeMsg = Msgs
  /\ freeBuf = [p \in Pools |-> {b \in Bufs : PoolOf[b] = p}]
  /\ queue = [q \in Queues |-> <<>>]
  /\ osMsg = OsMsgs
  /\ snd = [t \in Tasks |-> NoSend]
  /\ rcv = [t \in Tasks |-> NoRecv]

-----------------------------------------------------------------------------
(* MsgMem_Malloc, MsgMem_Free, HL_MALLOC, HL_Free                          *)

GetMem(b, v) == /\ freeBuf' = [freeBuf EXCEPT ![PoolFor[v]] = @ \ {b}]
                /\ mem' = [mem EXCEPT ![b] = v]

\* HL_Free(msg->reserved, msg->buf), which leaves the message as it is
PutMem(m) == /\ freeBuf' = [freeBuf EXCEPT ![mtab[m].pool] = @ \cup {mtab[m].buf}]
             /\ mem' = [mem EXCEPT ![mtab[m].buf] = Junk]

\* the block becomes a link of the free list
PutMsg(m) == /\ freeMsg' = freeMsg \cup {m}
             /\ mtab' = [mtab EXCEPT ![m] = NoMem]

-----------------------------------------------------------------------------
(* MsgDeal_Send.  A task sends between two receptions or from a handler.    *)

MaySend(t) == snd[t].pc = "idle" /\ rcv[t].pc \in {"idle", "handle"}

GetMsg(t) ==
  /\ MaySend(t)
  /\ \E m \in freeMsg, q \in Queues, v \in AllPayloads :
       /\ freeMsg' = freeMsg \ {m}
       /\ mtab' = [mtab EXCEPT ![m] = NoMem]
       /\ snd' = [snd EXCEPT ![t] = [pc |-> IF v = Empty THEN "post" ELSE "buf",
                                     dst |-> q, val |-> v, msg |-> m]]
  /\ UNCHANGED <<poolVars, qVars, rcv>>

\* Fault: MsgDeal_Send does not note in msg->reserved which partition it is.
GetBufUnmarked(t) ==
  /\ snd[t].pc = "buf"
  /\ \E b \in freeBuf[PoolFor[snd[t].val]] :
       /\ GetMem(b, snd[t].val)
       /\ mtab' = [mtab EXCEPT ![snd[t].msg] = [buf |-> b, pool |-> None]]
  /\ snd' = [snd EXCEPT ![t].pc = "post"]
  /\ UNCHANGED <<freeMsg, qVars, rcv>>

GetBuf(t) ==
  /\ snd[t].pc = "buf"
  /\ \E b \in freeBuf[PoolFor[snd[t].val]] :
       /\ GetMem(b, snd[t].val)
       /\ mtab' = [mtab EXCEPT ![snd[t].msg] = [buf |-> b, pool |-> PoolFor[snd[t].val]]]
  /\ snd' = [snd EXCEPT ![t].pc = "post"]
  /\ UNCHANGED <<freeMsg, qVars, rcv>>

\* Fault: returns -2 at once and keeps the message block.
NoBufLeak(t) ==
  /\ snd[t].pc = "buf" /\ freeBuf[PoolFor[snd[t].val]] = {}
  /\ snd' = [snd EXCEPT ![t] = NoSend]
  /\ UNCHANGED <<mtab, poolVars, freeMsg, qVars, rcv>>

\* Fault: waits for a buffer instead of giving up.
NoBufRetried(t) ==
  /\ snd[t].pc = "buf" /\ freeBuf[PoolFor[snd[t].val]] = {}
  /\ UNCHANGED vars

NoBuf(t) ==
  /\ snd[t].pc = "buf" /\ freeBuf[PoolFor[snd[t].val]] = {}
  /\ snd' = [snd EXCEPT ![t].pc = "freeMsg"]
  /\ UNCHANGED <<mtab, poolVars, freeMsg, qVars, rcv>>

Waiting(q) == rcv[Reader[q]].pc = "wait" /\ rcv[Reader[q]].q = q
Full(q)    == Len(queue[q]) = Cap[q] \/ osMsg = 0

\* OSQPost gives the message to a task that pends on the queue, without an
\* OS_MSG.
PostToReader(t) ==
  /\ snd[t].pc = "post" /\ Waiting(snd[t].dst)
  /\ rcv' = [rcv EXCEPT ![Reader[snd[t].dst]] =
               [pc |-> "handle", q |-> snd[t].dst, msg |-> snd[t].msg]]
  /\ snd' = [snd EXCEPT ![t] = NoSend]
  /\ UNCHANGED <<mtab, poolVars, freeMsg, qVars>>

\* Fault: OS_OPT_POST_LIFO.
PostLifo(t) ==
  /\ snd[t].pc = "post" /\ ~Waiting(snd[t].dst) /\ ~Full(snd[t].dst)
  /\ queue' = [queue EXCEPT ![snd[t].dst] = <<snd[t].msg>> \o @]
  /\ osMsg' = osMsg - 1
  /\ snd' = [snd EXCEPT ![t] = NoSend]
  /\ UNCHANGED <<mtab, poolVars, freeMsg, rcv>>

Post(t) ==
  /\ snd[t].pc = "post" /\ ~Waiting(snd[t].dst) /\ ~Full(snd[t].dst)
  /\ queue' = [queue EXCEPT ![snd[t].dst] = Append(@, snd[t].msg)]
  /\ osMsg' = osMsg - 1
  /\ snd' = [snd EXCEPT ![t] = NoSend]
  /\ UNCHANGED <<mtab, poolVars, freeMsg, rcv>>

PostRefused(t) ==
  /\ snd[t].pc = "post" /\ ~Waiting(snd[t].dst) /\ Full(snd[t].dst)
  /\ snd' = [snd EXCEPT ![t].pc = IF mtab[snd[t].msg].buf # None THEN "freeBuf" ELSE "freeMsg"]
  /\ UNCHANGED <<mtab, poolVars, freeMsg, qVars, rcv>>

SndFreeBuf(t) ==
  /\ snd[t].pc = "freeBuf"
  /\ PutMem(snd[t].msg)
  /\ snd' = [snd EXCEPT ![t].pc = "freeMsg"]
  /\ UNCHANGED <<mtab, freeMsg, qVars, rcv>>

SndFreeMsg(t) ==
  /\ snd[t].pc = "freeMsg"
  /\ PutMsg(snd[t].msg)
  /\ snd' = [snd EXCEPT ![t] = NoSend]
  /\ UNCHANGED <<poolVars, qVars, rcv>>

-----------------------------------------------------------------------------
(* MsgDeal_Recv, MsgDeal_Clr, MsgDeal_Free                                 *)

Idle(t) == snd[t].pc = "idle" /\ rcv[t].pc = "idle"

\* MsgDeal_Recv hands a message to the handler, MsgDeal_Clr drops it.
Take(q, pc) ==
  /\ Idle(Reader[q]) /\ queue[q] # <<>>
  /\ rcv' = [rcv EXCEPT ![Reader[q]] = [pc |-> pc, q |-> q, msg |-> Head(queue[q])]]
  /\ queue' = [queue EXCEPT ![q] = Tail(@)]
  /\ osMsg' = osMsg + 1
  /\ UNCHANGED <<mtab, poolVars, freeMsg, snd>>

Pend(q) ==
  /\ Idle(Reader[q]) /\ queue[q] = <<>>
  /\ rcv' = [rcv EXCEPT ![Reader[q]] = [pc |-> "wait", q |-> q, msg |-> None]]
  /\ UNCHANGED <<mtab, poolVars, freeMsg, qVars, snd>>

Timeout(t) ==
  /\ rcv[t].pc = "wait"
  /\ rcv' = [rcv EXCEPT ![t] = NoRecv]
  /\ UNCHANGED <<mtab, poolVars, freeMsg, qVars, snd>>

\* MsgDeal_Free and the body of MsgDeal_Clr are the same two calls.
RcvFreeBuf(t) ==
  /\ snd[t].pc = "idle"
  /\ rcv[t].pc \in {"handle", "drop"} /\ mtab[rcv[t].msg].buf # None
  /\ PutMem(rcv[t].msg)
  /\ rcv' = [rcv EXCEPT ![t].pc = "freeMsg"]
  /\ UNCHANGED <<mtab, freeMsg, qVars, snd>>

RcvFreeMsg(t) ==
  /\ snd[t].pc = "idle"
  /\ \/ rcv[t].pc = "freeMsg"
     \/ rcv[t].pc \in {"handle", "drop"} /\ mtab[rcv[t].msg].buf = None
  /\ PutMsg(rcv[t].msg)
  /\ rcv' = [rcv EXCEPT ![t] = NoRecv]
  /\ UNCHANGED <<poolVars, qVars, snd>>

SendStep(t) == \/ GetBuf(t) \/ NoBuf(t) \/ PostToReader(t) \/ Post(t) \/ PostRefused(t)
               \/ SndFreeBuf(t) \/ SndFreeMsg(t)
FreeStep(t) == RcvFreeBuf(t) \/ RcvFreeMsg(t)

Next ==
  \/ \E t \in Tasks : GetMsg(t) \/ SendStep(t) \/ Timeout(t) \/ FreeStep(t)
  \/ \E q \in Queues : Take(q, "handle") \/ Take(q, "drop") \/ Pend(q)

Spec == Init /\ [][Next]_vars

\* Every task gets its turn.  A handler ends, however often it sends, and
\* every service keeps returning to its queue.
FairSpec ==
  /\ Spec
  /\ \A t \in Tasks : WF_vars(SendStep(t)) /\ SF_vars(FreeStep(t)) /\ WF_vars(Timeout(t))
  /\ \A q \in Queues : SF_vars(Take(q, "handle"))

-----------------------------------------------------------------------------
\* Blocks a task or a queue still refers to.
SndMsgs == {t \in Tasks : snd[t].pc # "idle"}
RcvMsgs == {t \in Tasks : rcv[t].pc \in {"handle", "drop", "freeMsg"}}
Queued  == UNION {{q} \X DOMAIN queue[q] : q \in Queues}

\* Every message block has exactly one owner: the free list, a sender, a
\* place in one queue, or a receiver.
MsgOneOwner ==
  \A m \in Msgs :
    (IF m \in freeMsg THEN 1 ELSE 0)
      + Cardinality({t \in SndMsgs : snd[t].msg = m})
      + Cardinality({t \in RcvMsgs : rcv[t].msg = m})
      + Cardinality({s \in Queued : queue[s[1]][s[2]] = m}) = 1

\* The message's buffer was not freed yet.
HasBuf(m) ==
  /\ m \notin freeMsg /\ mtab[m].buf # None
  /\ \A t \in Tasks : ~(snd[t].pc = "freeMsg" /\ snd[t].msg = m)
  /\ \A t \in Tasks : ~(rcv[t].pc = "freeMsg" /\ rcv[t].msg = m)

\* Every buffer is free, in the partition it came from, or belongs to
\* exactly one message.
BufOneOwner ==
  \A b \in Bufs :
    /\ \A p \in Pools : b \in freeBuf[p] => p = PoolOf[b]
    /\ (IF b \in freeBuf[PoolOf[b]] THEN 1 ELSE 0)
         + Cardinality({m \in Msgs : HasBuf(m) /\ mtab[m].buf = b}) = 1

\* No message block and no buffer leaks or is freed twice or to the wrong
\* partition, whichever resource ran out in MsgDeal_Send.
OneOwner == MsgOneOwner /\ BufOneOwner

\* A message that was posted is received, as long as its reader returns to
\* the queue.
Received == \A m \in Msgs, q \in Queues :
              (\E i \in DOMAIN queue[q] : queue[q][i] = m)
                ~> (\A i \in DOMAIN queue[q] : queue[q][i] # m)

Content(m) == IF mtab[m].buf = None THEN Empty ELSE mem[mtab[m].buf]

\* The services see nothing of partitions and shared pools: messages arrive
\* as they were sent, once and in order.
Box == INSTANCE Mailbox WITH
  Payloads <- AllPayloads,
  box <- [q \in Queues |-> [i \in DOMAIN queue[q] |-> Content(queue[q][i])]],
  req <- [t \in Tasks |-> IF snd[t].pc \in {"buf", "post"} THEN <<snd[t].dst, snd[t].val>>
                                                           ELSE None],
  got <- [t \in Tasks |-> IF rcv[t].pc = "handle" THEN Content(rcv[t].msg) ELSE None]
ImplementsMailbox == Box!Spec

=============================================================================
