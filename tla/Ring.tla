-------------------------------- MODULE Ring --------------------------------
(***************************************************************************)
(* The receive queue of the shell (shell/queue.c) between UART4_IRQHandler, *)
(* which pushes, and the shell task, which pops.  The interrupt may come    *)
(* between any two accesses of the task and runs to its end.  No lock and   *)
(* no critical section protects the queue.                                  *)
(***************************************************************************)
EXTENDS Integers, Sequences

CONSTANTS Size,     \* QUEUE_SIZE
          MaxSent   \* bound on the characters that come

ASSUME RingAssumption == Size \in Nat \ {0, 1} /\ MaxSent \in Nat

VARIABLES data, front, rear,  \* queue_t
          sent,               \* characters that came; the n-th is the number n
          pc, got             \* where the shell task is, what it has read

vars == <<data, front, rear, sent, pc, got>>

Slots == 0 .. Size - 1

Init ==
  /\ data = [i \in Slots |-> 0] /\ front = 0 /\ rear = 0
  /\ sent = 0 /\ pc = "start" /\ got = <<>>

Following(i) == (i + 1) % Size

Full == Following(rear) = front

\* Fault: the character is stored before rear moves
PushBehind ==
  /\ sent < MaxSent /\ ~Full
  /\ sent' = sent + 1
  /\ data' = [data EXCEPT ![rear] = sent']
  /\ rear' = Following(rear)
  /\ UNCHANGED <<front, pc, got>>

\* UART4_IRQHandler: rear moves before the character is there, which the task
\* cannot see; the answer of queue_push is ignored
Push ==
  /\ sent < MaxSent /\ ~Full
  /\ sent' = sent + 1
  /\ rear' = Following(rear)
  /\ data' = [data EXCEPT ![rear'] = sent']
  /\ UNCHANGED <<front, pc, got>>

PushFull ==
  /\ sent < MaxSent /\ Full
  /\ sent' = sent + 1
  /\ UNCHANGED <<data, front, rear, pc, got>>

\* shell_queue_init, in two steps
InitFront ==
  /\ pc = "start"
  /\ front' = 0 /\ pc' = "init"
  /\ UNCHANGED <<data, rear, sent, got>>

InitRear ==
  /\ pc = "init"
  /\ rear' = 0 /\ pc' = "poll"
  /\ UNCHANGED <<data, front, sent, got>>

\* Fault: the queue is not asked whether it is empty
PopBlind ==
  /\ pc = "poll"
  /\ pc' = "front"
  /\ UNCHANGED <<data, front, rear, sent, got>>

\* queue_pop: not empty; front moves; the character is read
PopTest ==
  /\ pc = "poll" /\ rear # front
  /\ pc' = "front"
  /\ UNCHANGED <<data, front, rear, sent, got>>

PopFront ==
  /\ pc = "front"
  /\ front' = Following(front) /\ pc' = "read"
  /\ UNCHANGED <<data, rear, sent, got>>

PopRead ==
  /\ pc = "read"
  /\ got' = Append(got, data[front]) /\ pc' = "poll"
  /\ UNCHANGED <<data, front, rear, sent>>

Next == \/ Push \/ PushFull \/ InitFront \/ InitRear
        \/ PopTest \/ PopFront \/ PopRead

Spec == Init /\ [][Next]_vars

-----------------------------------------------------------------------------
\* Types, and a character is popped only when one waits
TypeOK ==
  /\ data \in [Slots -> 0 .. sent] /\ front \in Slots /\ rear \in Slots
  /\ sent \in 0 .. MaxSent
  /\ pc \in {"start", "init", "poll", "front", "read"} /\ got \in Seq(Nat)
  /\ pc \in {"start", "init"} => front = 0 /\ got = <<>>
  /\ pc = "front" => rear # front

\* Characters that wait, and the slot of the i-th of them
Count   == IF front <= rear THEN rear - front ELSE rear - front + Size
Slot(i) == IF front + i < Size THEN front + i ELSE front + i - Size

\* The slot that front points at belongs to the character being read: it has
\* left the queue and may not be overwritten yet
Waiting == [i \in 1 .. Count |-> data[Slot(i)]]
Taken   == IF pc = "read" THEN Append(got, data[front]) ELSE got

Abstract == INSTANCE Fifo WITH Cap   <- Size - 1,
                               queue <- Waiting,
                               out   <- Taken,
                               ready <- pc \notin {"start", "init"}

\* The queue without a lock is a queue: however the interrupt and the task
\* meet, no character is read twice, out of order, half written or after it
\* was overwritten, and one is lost only when the queue is full (queue.c:9-40)
ImplementsFifo == Abstract!Spec
=============================================================================
