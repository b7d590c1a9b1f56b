---------------------------- MODULE ReduceScatter ----------------------------
(***************************************************************************)
(* What the fused kernel promises, without queues, semaphores or clusters:  *)
(* every rank contributes its part of every tile, the owner of a tile sums  *)
(* it once all ranks have contributed, and nobody's data is erased for the  *)
(* next launch before every rank has completed this one.                    *)
(***************************************************************************)
EXTENDS Integers

CONSTANTS
  Rank,            \* the ranks
  Stored,          \* what one rank contributes in a launch
  Share,           \* the shares a rank reduces in a launch
  SourceOf(_, _)   \* SourceOf(r, x): the contribution share x of rank r sums

VARIABLES phase, contributed, reduced
vars == <<phase, contributed, reduced>>

Init ==
  /\ phase = [r \in Rank |-> "fresh"]
  /\ contributed = [r \in Rank |-> {}]
  /\ reduced = [r \in Rank |-> [x \in Share |-> {}]]

(* Every rank is fresh: the launch may begin everywhere. *)
Begin ==
  /\ \A r \in Rank : phase[r] = "fresh"
  /\ phase' = [r \in Rank |-> "active"]
  /\ UNCHANGED <<contributed, reduced>>

Contribute(r, p) ==
  /\ phase[r] = "active" /\ p \notin contributed[r]
  /\ contributed' = [contributed EXCEPT ![r] = @ \cup {p}]
  /\ UNCHANGED <<phase, reduced>>

(* All or nothing: a share is summed over every rank, and only once. *)
Reduce(r, x) ==
  /\ phase[r] = "active" /\ reduced[r][x] = {}
  /\ \A q \in Rank : SourceOf(r, x) \in contributed[q]
  /\ reduced' = [reduced EXCEPT ![r][x] = Rank]
  /\ UNCHANGED <<phase, contributed>>

Complete(r) ==
  /\ phase[r] = "active"
  /\ contributed[r] = Stored /\ \A x \in Share : reduced[r][x] = Rank
  /\ phase' = [phase EXCEPT ![r] = "complete"]
  /\ UNCHANGED <<contributed, reduced>>

(* Erasing a rank's data waits until no rank can still sum it. *)
Erase(r) ==
  /\ phase[r] = "complete" /\ \A q \in Rank : phase[q] # "active"
  /\ phase' = [phase EXCEPT ![r] = "fresh"]
  /\ contributed' = [contributed EXCEPT ![r] = {}]
  /\ reduced' = [reduced EXCEPT ![r] = [x \in Share |-> {}]]

Next ==
  \/ Begin
  \/ \E r \in Rank : Complete(r) \/ Erase(r)
  \/ \E r \in Rank, p \in Stored : Contribute(r, p)
  \/ \E r \in Rank, x \in Share : Reduce(r, x)

Spec == Init /\ [][Next]_vars
=============================================================================
