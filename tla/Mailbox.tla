------------------------------ MODULE Mailbox ------------------------------
(***************************************************************************)
(* What MsgDeal promises the services: bounded queues of messages, in which *)
(* a message that was accepted stays as it was sent, in order, until the    *)
(* reader of the queue takes it, once; a message may also be refused.      *)
(***************************************************************************)
EXTENDS Sequences

CONSTANTS Tasks, Queues, Payloads, Reader, None

VARIABLES box, \* accepted messages of each queue
          req, \* what each task is sending
          got  \* what each task took and is handling

vars == <<box, req, got>>

Init == /\ box = [q \in Queues |-> <<>>]
        /\ req = [t \in Tasks |-> None]
        /\ got = [t \in Tasks |-> None]

Request(t) == /\ req[t] = None
              /\ \E q \in Queues, v \in Payloads : req' = [req EXCEPT ![t] = <<q, v>>]
              /\ UNCHANGED <<box, got>>

Refuse(t) == /\ req[t] # None
             /\ req' = [req EXCEPT ![t] = None]
             /\ UNCHANGED <<box, got>>

Accept(t) == /\ req[t] # None
             /\ box' = [box EXCEPT ![req[t][1]] = Append(@, req[t][2])]
             /\ req' = [req EXCEPT ![t] = None]
             /\ UNCHANGED got

\* The reader was waiting at the empty queue.
Hand(t) == /\ req[t] # None
           /\ box[req[t][1]] = <<>> /\ got[Reader[req[t][1]]] = None
           /\ got' = [got EXCEPT ![Reader[req[t][1]]] = req[t][2]]
           /\ req' = [req EXCEPT ![t] = None]
           /\ UNCHANGED box

Take(q) == /\ box[q] # <<>> /\ got[Reader[q]] = None
           /\ got' = [got EXCEPT ![Reader[q]] = Head(box[q])]
           /\ box' = [box EXCEPT ![q] = Tail(@)]
           /\ UNCHANGED req

\* MsgDeal_Clr.
Discard(q) == /\ box[q] # <<>>
              /\ box' = [box EXCEPT ![q] = Tail(@)]
              /\ UNCHANGED <<req, got>>

Done(t) == /\ got[t] # None
           /\ got' = [got EXCEPT ![t] = None]
           /\ UNCHANGED <<box, req>>

Next == \/ \E t \in Tasks : Request(t) \/ Refuse(t) \/ Accept(t) \/ Hand(t) \/ Done(t)
        \/ \E q \in Queues : Take(q) \/ Discard(q)

Spec == Init /\ [][Next]_vars
=============================================================================
