----------------------------- MODULE MCMsgDeal -----------------------------
(* Small instances of MsgDeal: a service that reads two queues (its own and *)
(* its acknowledgements), and a task that only sends.                      *)
EXTENDS MsgDeal
CONSTANTS t1, t2, q1, q2, m1, m2, m3, b1, b2, b3, small, big, s1, s2, l1

OneReader  == [q \in Queues |-> t1]
CapTwoOne  == [q \in Queues |-> IF q = q1 THEN 2 ELSE 1]
MCPoolOf   == [b \in Bufs |-> IF b \in {b1, b2} THEN small ELSE big]
MCPoolFor  == [v \in Payloads |-> IF v = l1 THEN big ELSE small]

=============================================================================
