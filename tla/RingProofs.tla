----------------------------- MODULE RingProofs -----------------------------
(***************************************************************************)
(* The receive queue of the shell implements the bounded FIFO, for queues   *)
(* of every size and every number of characters.                            *)
(***************************************************************************)
EXTENDS Ring, SequenceTheorems, TLAPS

\* What the remainder does to a position: one further, or back to the start.
LEMMA FollowingFact ==
  \A i \in Slots : Following(i) = IF i + 1 = Size THEN 0 ELSE i + 1
<1> SUFFICES ASSUME NEW i \in Slots PROVE Following(i) = IF i + 1 = Size THEN 0 ELSE i + 1
  OBVIOUS
<1>1. Size \in Nat /\ Size > 1 /\ i \in Int /\ 0 <= i /\ i + 1 <= Size
  BY RingAssumption DEF Slots
<1>2. CASE i + 1 = Size
  BY <1>1, <1>2 DEF Following
<1>3. CASE i + 1 < Size
  BY <1>1, <1>3 DEF Following
<1> QED BY <1>1, <1>2, <1>3

LEMMA InitType == Init => TypeOK
BY RingAssumption DEF Init, TypeOK, Slots

\* TypeOK is inductive: an interrupt does not empty the queue under a pop
\* that has found a character.
LEMMA TypeStep == TypeOK /\ [Next]_vars => TypeOK'
<1> SUFFICES ASSUME TypeOK, [Next]_vars PROVE TypeOK'
  OBVIOUS
<1>0. Size \in Nat /\ Size > 1 /\ MaxSent \in Nat /\ sent \in Nat
  BY RingAssumption DEF TypeOK
<1>1. CASE Push
  <2>0. rear \in Slots /\ Following(rear) = IF rear + 1 = Size THEN 0 ELSE rear + 1
    BY FollowingFact DEF TypeOK
  <2>1. Following(rear) \in Slots /\ Following(rear) # front
    BY <1>0, <1>1, <2>0 DEF Push, Full, Slots
  <2>2. data' \in [Slots -> 0 .. sent']
    BY <1>0, <1>1, <2>1 DEF TypeOK, Push
  <2> QED BY <1>0, <1>1, <2>1, <2>2 DEF TypeOK, Push
<1>2. CASE PushFull
  <2>1. data' \in [Slots -> 0 .. sent']
    BY <1>0, <1>2 DEF TypeOK, PushFull
  <2> QED BY <1>0, <1>2, <2>1 DEF TypeOK, PushFull
<1>3. CASE InitFront
  BY <1>0, <1>3 DEF TypeOK, InitFront, Slots
<1>4. CASE InitRear
  BY <1>0, <1>4 DEF TypeOK, InitRear, Slots
<1>5. CASE PopTest
  BY <1>5 DEF TypeOK, PopTest
<1>6. CASE PopFront
  <2>0. front \in Slots /\ Following(front) = IF front + 1 = Size THEN 0 ELSE front + 1
    BY FollowingFact DEF TypeOK
  <2>1. Following(front) \in Slots
    BY <1>0, <2>0 DEF Slots
  <2> QED BY <1>6, <2>1 DEF TypeOK, PopFront
<1>7. CASE PopRead
  <2>1. data[front] \in Nat
    BY <1>0 DEF TypeOK
  <2> QED BY <1>7, <2>1 DEF TypeOK, PopRead
<1>8. CASE UNCHANGED vars
  BY <1>8 DEF TypeOK, vars, Slots
<1> QED BY <1>1, <1>2, <1>3, <1>4, <1>5, <1>6, <1>7, <1>8 DEF Next

\* The positions stay inside the array, and queue_pop moves front only while a
\* character waits, whatever the interrupt does in between.
THEOREM TypeCorrect == Spec => []TypeOK
BY InitType, TypeStep, PTL DEF Spec

-----------------------------------------------------------------------------
\* Slots of waiting characters are inside the array and differ from each other
\* and from the slot at front.
LEMMA SlotFacts ==
  ASSUME TypeOK
  PROVE  /\ Count \in Nat /\ Count < Size
         /\ Waiting \in Seq(Nat) /\ Len(Waiting) = Count
         /\ \A i \in 1 .. Count : Slot(i) \in Slots /\ Slot(i) # front
<1>1. Size \in Nat /\ Size > 1 /\ front \in Slots /\ rear \in Slots /\ sent \in Nat
  BY RingAssumption DEF TypeOK
<1>2. Count \in Nat /\ Count < Size
  BY <1>1 DEF Count, Slots
<1>3. \A i \in 1 .. Count : Slot(i) \in Slots /\ Slot(i) # front
  BY <1>1, <1>2 DEF Slot, Slots
<1>4. \A i \in 1 .. Count : data[Slot(i)] \in Nat
  BY <1>1, <1>3 DEF TypeOK
<1>5. Waiting \in [1 .. Count -> Nat]
  BY <1>4 DEF Waiting
<1>6. Waiting \in Seq(Nat) /\ Len(Waiting) = Count
  BY <1>2, <1>5
<1> QED BY <1>2, <1>3, <1>6

\* A pushed character is the last of those that wait, and no other slot in use
\* changes: not the one a pop is reading either.
LEMMA PushRefines == TypeOK /\ Push => Abstract!Put
<1> SUFFICES ASSUME TypeOK, Push PROVE Abstract!Put
  OBVIOUS
<1>1. Size \in Nat /\ Size > 1 /\ front \in Slots /\ rear \in Slots /\ sent \in Nat
  BY RingAssumption DEF TypeOK
<1>2. /\ front' = front /\ rear' = Following(rear) /\ rear' # front /\ rear' \in Slots
      /\ rear' = IF rear + 1 = Size THEN 0 ELSE rear + 1
  BY <1>1, FollowingFact DEF Push, Full, Slots
<1>3. Count < Size - 1 /\ Count' = Count + 1
  BY <1>1, <1>2 DEF Count, Slots
<1>4. Count \in Nat
  BY SlotFacts
<1>5. \A i \in 1 .. Count : Slot(i)' = Slot(i) /\ Slot(i) # rear'
  BY <1>1, <1>2, <1>3, <1>4 DEF Slot, Count, Slots
<1>6. \A i \in Nat : i = Count + 1 => Slot(i)' = rear'
  BY <1>1, <1>2, <1>3, <1>4 DEF Slot, Count, Slots
<1>7. /\ \A i \in 1 .. Count : data'[Slot(i)'] = data[Slot(i)]
      /\ data'[rear'] = sent' /\ data'[front] = data[front]
  BY <1>1, <1>2, <1>5, SlotFacts DEF Push, TypeOK
<1>8. Waiting' = [i \in 1 .. Count + 1 |-> data'[Slot(i)']]
  BY <1>3 DEF Waiting
<1>9. Waiting' = Append(Waiting, sent')
  <2>1. Waiting \in Seq(Nat) /\ Len(Waiting) = Count /\ sent' \in Nat
    BY <1>1, SlotFacts DEF Push
  <2>2. \A i \in 1 .. Count : Waiting[i] = data[Slot(i)] /\ Waiting[i] \in Nat
    BY <1>4, <2>1 DEF Waiting
  <2>3. \A i \in 1 .. Count + 1 : data'[Slot(i)'] = IF i <= Count THEN Waiting[i] ELSE sent'
    <3> SUFFICES ASSUME NEW i \in 1 .. Count + 1
                 PROVE  data'[Slot(i)'] = IF i <= Count THEN Waiting[i] ELSE sent'
      OBVIOUS
    <3>1. CASE i <= Count
      <4>1. i \in 1 .. Count
        BY <1>4, <3>1
      <4> QED BY <3>1, <4>1, <1>7, <2>2
    <3>2. CASE i = Count + 1
      <4>1. i \in Nat /\ ~(i <= Count)
        BY <1>4, <3>2
      <4>2. Slot(i)' = rear'
        BY <1>6, <3>2, <4>1
      <4> QED BY <1>7, <4>1, <4>2
    <3> QED BY <1>4, <3>1, <3>2
  <2>4. Waiting' \in [1 .. Count + 1 -> Nat]
    BY <1>4, <1>8, <2>1, <2>2, <2>3
  <2>5. Waiting' \in Seq(Nat) /\ Len(Waiting') = Count + 1
    BY <1>4, <2>4
  <2>6. /\ Append(Waiting, sent') \in Seq(Nat) /\ Len(Append(Waiting, sent')) = Count + 1
        /\ \A i \in 1 .. Count : Append(Waiting, sent')[i] = Waiting[i]
        /\ Append(Waiting, sent')[Count + 1] = sent'
    BY <2>1, AppendProperties
  <2>7. \A i \in 1 .. Count + 1 : Waiting'[i] = Append(Waiting, sent')[i]
    BY <1>4, <1>8, <2>3, <2>6
  <2> QED BY <2>5, <2>6, <2>7, SeqEqual
<1>10. UNCHANGED <<Taken, pc>>
  BY <1>2, <1>7 DEF Push, Taken
<1>11. sent < MaxSent /\ sent' = sent + 1
  BY DEF Push
<1> QED BY <1>3, <1>9, <1>10, <1>11, SlotFacts DEF Abstract!Put

LEMMA PushFullRefines == TypeOK /\ PushFull => Abstract!Lose
<1> SUFFICES ASSUME TypeOK, PushFull PROVE Abstract!Lose
  OBVIOUS
<1>1. Size \in Nat /\ Size > 1 /\ front \in Slots /\ rear \in Slots
  BY RingAssumption DEF TypeOK
<1>2. Count = Size - 1
  BY <1>1, FollowingFact DEF PushFull, Full, Count, Slots
<1>3. UNCHANGED <<Waiting, Taken, pc>>
  BY DEF PushFull, Waiting, Count, Slot, Taken
<1> QED BY <1>2, <1>3, SlotFacts DEF Abstract!Lose, PushFull

\* queue_init empties the queue although the interrupt is already enabled.
LEMMA InitRearRefines == TypeOK /\ InitRear => Abstract!SetUp
<1> SUFFICES ASSUME TypeOK, InitRear PROVE Abstract!SetUp
  OBVIOUS
<1>1. front' = 0 /\ rear' = 0 /\ Count' = 0
  BY DEF InitRear, TypeOK, Count
<1>2. Waiting' = <<>>
  BY <1>1 DEF Waiting
<1>3. Taken' = Taken
  BY DEF InitRear, Taken
<1> QED BY <1>2, <1>3 DEF Abstract!SetUp, InitRear

\* queue_pop takes the first character when front moves, before it is read.
LEMMA PopFrontRefines == TypeOK /\ PopFront => Abstract!Get
<1> SUFFICES ASSUME TypeOK, PopFront PROVE Abstract!Get
  OBVIOUS
<1>1. Size \in Nat /\ Size > 1 /\ front \in Slots /\ rear \in Slots /\ rear # front
  BY RingAssumption DEF TypeOK, PopFront
<1>2. front' = IF front + 1 = Size THEN 0 ELSE front + 1
  BY <1>1, FollowingFact DEF PopFront
<1>3. UNCHANGED <<data, rear, sent, got>>
  BY DEF PopFront
<1>4. Count \in Nat /\ Count > 0 /\ Count' = Count - 1
  BY <1>1, <1>2, <1>3 DEF Count, Slots
<1>5. Slot(1) = front'
  BY <1>1, <1>2 DEF Slot, Slots
<1>6. \A i \in 1 .. Count - 1 : Slot(i)' = Slot(i + 1)
  BY <1>1, <1>2, <1>4 DEF Slot, Count, Slots
<1>7. Waiting \in Seq(Nat) /\ Len(Waiting) = Count
  BY SlotFacts
<1>8. Waiting # <<>> /\ Head(Waiting) = data[front']
  BY <1>4, <1>5, <1>7 DEF Waiting
<1>9. Waiting' = Tail(Waiting)
  <2>1. Waiting' = [i \in 1 .. Count - 1 |-> data[Slot(i)']]
    BY <1>3, <1>4 DEF Waiting
  <2>2. /\ Tail(Waiting) \in Seq(Nat) /\ Len(Tail(Waiting)) = Count - 1
        /\ \A i \in 1 .. Count - 1 : Tail(Waiting)[i] = Waiting[i + 1]
    BY <1>7, <1>8, HeadTailProperties
  <2>3. \A i \in 1 .. Count - 1 : data[Slot(i)'] = Waiting[i + 1] /\ Waiting[i + 1] \in Nat
    <3> TAKE i \in 1 .. Count - 1
    <3>1. i + 1 \in 1 .. Count
      BY <1>4
    <3>2. Waiting[i + 1] = data[Slot(i + 1)]
      BY <3>1 DEF Waiting
    <3>3. Waiting[i + 1] \in Nat
      BY <1>7, <3>1
    <3> QED BY <1>6, <3>2, <3>3
  <2>4. Waiting' \in [1 .. Count - 1 -> Nat]
    BY <2>1, <2>3
  <2>5. Waiting' \in Seq(Nat) /\ Len(Waiting') = Count - 1
    BY <1>4, <2>4
  <2>6. \A i \in 1 .. Count - 1 : Waiting'[i] = Tail(Waiting)[i]
    BY <2>1, <2>2, <2>3
  <2> QED BY <2>2, <2>5, <2>6, SeqEqual
<1>10. Taken' = Append(Taken, Head(Waiting))
  BY <1>3, <1>8 DEF Taken, PopFront
<1> QED BY <1>3, <1>8, <1>9, <1>10 DEF Abstract!Get, PopFront

\* The character read is the one taken when front moved.
LEMMA PopReadRefines == PopRead => UNCHANGED Abstract!vars
BY DEF PopRead, Abstract!vars, Waiting, Taken, Count, Slot

\* Every step is a step of the queue or changes nothing of it.
LEMMA StepRefines == TypeOK /\ [Next]_vars => [Abstract!Next]_(Abstract!vars)
<1> SUFFICES ASSUME TypeOK, [Next]_vars PROVE [Abstract!Next]_(Abstract!vars)
  OBVIOUS
<1>1. CASE InitFront
  BY <1>1 DEF InitFront, TypeOK, Abstract!vars, Waiting, Taken, Count, Slot
<1>2. CASE PopTest
  BY <1>2 DEF PopTest, Abstract!vars, Waiting, Taken, Count, Slot
<1>3. CASE UNCHANGED vars
  BY <1>3 DEF vars, Abstract!vars, Waiting, Taken, Count, Slot
<1> QED BY <1>1, <1>2, <1>3, PushRefines, PushFullRefines, InitRearRefines, PopFrontRefines,
           PopReadRefines DEF Next, Abstract!Next

LEMMA InitRefines == Init => Abstract!Init
<1> SUFFICES ASSUME Init PROVE Abstract!Init
  OBVIOUS
<1>1. Count = 0
  BY DEF Init, Count
<1>2. Waiting = <<>>
  BY <1>1 DEF Waiting
<1> QED BY <1>2 DEF Init, Abstract!Init, Taken

\* A queue without a lock between an interrupt that pushes and a task that pops
\* is a FIFO of QUEUE_SIZE - 1 characters, whenever the interrupt comes.
THEOREM QueueIsFifo == Spec => ImplementsFifo
<1>1. Init => Abstract!Init
  BY InitRefines
<1>2. TypeOK /\ [Next]_vars => [Abstract!Next]_(Abstract!vars)
  BY StepRefines
<1> QED BY <1>1, <1>2, TypeCorrect, PTL DEF Spec, ImplementsFifo, Abstract!Spec
=============================================================================
