------------------------------ MODULE MBarrier ------------------------------
(***************************************************************************)
(* The shared-memory barriers of src/tirx_kernels/tirx_lite/pipeline.py:    *)
(* the phases completed, the arrivals still expected in the current phase,  *)
(* and the transfers announced but not landed (negative while they land     *)
(* before they are announced). A phase completes, and the barrier rearms    *)
(* itself, when both reach 0. A waiter gives only the parity of a phase.    *)
(***************************************************************************)
EXTENDS Integers

Armed(count) == [turn |-> 0, pending |-> count, tx |-> 0, count |-> count]

Settled(b) == IF b.pending = 0 /\ b.tx = 0
              THEN [b EXCEPT !.turn = @ + 1, !.pending = b.count]
              ELSE b

Arrive(b) == Settled([b EXCEPT !.pending = @ - 1])
ArriveExpect(b, transfers) == Arrive([b EXCEPT !.tx = @ + transfers])
Landed(b) == Settled([b EXCEPT !.tx = @ - 1])

(* A wait for phase n (from 0) polls its parity: it returns when the current *)
(* phase has the other one. Phase -1, which empty_phase_offset = 1 asks for  *)
(* first, is over from the start.                                           *)
Passed(b, n) == b.turn % 2 # n % 2

(* The phases a waiter for n cannot mistake: n itself, and the next one.     *)
Unmistaken(b, n) == b.turn \in {n, n + 1}
=============================================================================
