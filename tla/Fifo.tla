-------------------------------- MODULE Fifo --------------------------------
(***************************************************************************)
(* What the shell expects of its receive queue: characters come out in the *)
(* order they came in, each once, and one is lost only when Cap of them    *)
(* wait or before the queue is set up.  The n-th character is the number n. *)
(***************************************************************************)
EXTENDS Naturals, Sequences

CONSTANTS Cap,      \* characters that may wait
          MaxSent   \* bound on the characters that come

VARIABLES queue, sent, out, ready

vars == <<queue, sent, out, ready>>

Init == queue = <<>> /\ sent = 0 /\ out = <<>> /\ ready = FALSE

Put ==
  /\ sent < MaxSent /\ Len(queue) < Cap
  /\ sent' = sent + 1 /\ queue' = Append(queue, sent')
  /\ UNCHANGED <<out, ready>>

Lose ==
  /\ sent < MaxSent /\ Len(queue) = Cap
  /\ sent' = sent + 1
  /\ UNCHANGED <<queue, out, ready>>

\* What came before is dropped
SetUp ==
  /\ ~ready /\ ready' = TRUE /\ queue' = <<>>
  /\ UNCHANGED <<sent, out>>

Get ==
  /\ ready /\ queue # <<>>
  /\ out' = Append(out, Head(queue)) /\ queue' = Tail(queue)
  /\ UNCHANGED <<sent, ready>>

Next == Put \/ Lose \/ SetUp \/ Get

Spec == Init /\ [][Next]_vars
=============================================================================
