---------------------------- MODULE StableStore ----------------------------
(***************************************************************************)
(* What Stable Data Storage promises its users: every row has one working  *)
(* copy, which setters change, and one stored value, which survives a      *)
(* power failure and is replaced as a whole by the working copy.  Of a row  *)
(* that a flash operation damaged unnoticed it promises nothing until the   *)
(* damaged copy is erased again.                                            *)
(***************************************************************************)
CONSTANTS Items, Vals, Default

VARIABLES stored, \* what a restart reads back
          weak,   \* the rows with a damaged copy
          work    \* what the program reads

vars == <<stored, weak, work>>

Init == stored = Default /\ weak = {} /\ work = Default

\* The assignment between SDS_Edit and SDS_Save.
Edit(i) == /\ \E v \in Vals : work' = [work EXCEPT ![i] = v]
           /\ UNCHANGED <<stored, weak>>

\* The instant of SDS_Poll at which the new value replaces the old one.
Commit(i) == /\ stored' = [stored EXCEPT ![i] = work[i]]
             /\ UNCHANGED <<weak, work>>

\* An erase, or a repair, failed unnoticed; the value is still there.
Weaken(i) == /\ weak' = weak \cup {i}
             /\ UNCHANGED <<stored, work>>

\* Any later flash operation on such a row may change or lose its value; one
\* that erases the damaged copy makes the row sound again.
Shake(i) == /\ i \in weak
            /\ \E v \in Vals : stored' = [stored EXCEPT ![i] = v]
            /\ weak' \in {weak, weak \ {i}}
            /\ UNCHANGED work

\* A power failure: unsaved changes are lost, nothing else is.
Restart == /\ work' = stored
           /\ UNCHANGED <<stored, weak>>

Next == Restart \/ \E i \in Items : Edit(i) \/ Commit(i) \/ Weaken(i) \/ Shake(i)

Spec == Init /\ [][Next]_vars
=============================================================================
