----------------------------- MODULE Rendezvous -----------------------------
(***************************************************************************)
(* What a reusable barrier promises: a process passes it only when all have *)
(* entered it, and before the count starts again all have passed as many.   *)
(***************************************************************************)
EXTENDS Naturals

CONSTANT Proc
VARIABLES entered, passed      \* per process: barriers entered, and passed

Init == /\ entered = [p \in Proc |-> 0]
        /\ passed = [p \in Proc |-> 0]

Enter(p) == /\ entered[p] = passed[p]
            /\ entered' = [entered EXCEPT ![p] = @ + 1]
            /\ UNCHANGED passed

Pass(p) == /\ passed[p] < entered[p]
           /\ \A q \in Proc : entered[q] > passed[p]
           /\ passed' = [passed EXCEPT ![p] = @ + 1]
           /\ UNCHANGED entered

Restart == /\ \A p, q \in Proc : entered[p] = passed[q]
           /\ Init'

Next == Restart \/ \E p \in Proc : Enter(p) \/ Pass(p)
Spec == Init /\ [][Next]_<<entered, passed>>
=============================================================================
