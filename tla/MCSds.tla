------------------------------- MODULE MCSds -------------------------------
(* Small instances of Sds: a single task (the bootloader, or an application *)
(* whose setters never overlap) and two tasks whose setters use one lock or *)
(* two.                                                                    *)
EXTENDS Sds
CONSTANTS t1, t2, v1, v2, Datalock, DAlock

MCDefault == [i \in Items |-> v1]
OneLock   == [t \in Tasks |-> Datalock]
TwoLocks  == [t \in Tasks |-> IF t = t1 THEN Datalock ELSE DAlock]

\* Bounds of the run with two rows: only row 0 takes new values or damage; the
\* other is written and loaded around it.
Rows == \A i \in Items \ {0} : ram[i] = Default[i] /\ Sound(i)

=============================================================================
