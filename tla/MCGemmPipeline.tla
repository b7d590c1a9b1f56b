--------------------------- MODULE MCGemmPipeline ---------------------------
(* GemmPipeline for TLC: a ring of two stages that goes round twice in one   *)
(* task; one of a single stage with two tasks and the exit, so that packets  *)
(* and accumulators go round too; and a task that does not fill its last lap. *)
EXTENDS GemmPipeline

Aligned == {[depth |-> 2, blocks |-> 4, tasks |-> 1], [depth |-> 1, blocks |-> 2, tasks |-> 2]}
Unaligned == {[depth |-> 2, blocks |-> 1, tasks |-> 1]}
=============================================================================
