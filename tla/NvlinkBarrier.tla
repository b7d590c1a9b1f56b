--------------------------- MODULE NvlinkBarrier ---------------------------
(***************************************************************************)
(* The barrier between ranks of the DeepEP kernels (nvlink_barrier of       *)
(* src/tirx_kernels/ported/deepep/dispatch.py and combine.py). Every rank   *)
(* has two signal words that its peers write and a counter that outlives    *)
(* the kernels. The counter's low bit says which word this barrier uses,    *)
(* the next bit whether the word goes up to the number of ranks or back to  *)
(* zero; a rank waits for exactly that value.                               *)
(***************************************************************************)
EXTENDS Integers, FiniteSets

CONSTANTS
  Rank,
  BARRIERS      \* bound: the barriers of a run

ASSUME RankAssumption == IsFiniteSet(Rank)
ASSUME BarriersAssumption == BARRIERS \in Nat

VARIABLES
  counter,      \* per rank: the barriers it has counted
  signal,       \* per rank and phase: its signal word
  spot,         \* per rank: where SM 0 is: outside, telling the peers, waiting
  told          \* per rank: the peers it has told of this barrier

barrierVars == <<counter, signal, spot, told>>

Phase(n) == n % 2
Sign(n) == (n % 4) \div 2
Delta(n) == IF Sign(n) = 0 THEN 1 ELSE -1
PeersOnly(n) == IF Sign(n) = 0 THEN Cardinality(Rank) - 1 ELSE 0
Target(n) == IF Sign(n) = 0 THEN Cardinality(Rank) ELSE 0

(* The status is read once, before the counter moves.                        *)
Begin(r) ==
  /\ spot[r] = "out" /\ counter[r] < BARRIERS
  /\ spot' = [spot EXCEPT ![r] = "tell"]
  /\ told' = [told EXCEPT ![r] = {}]
  /\ UNCHANGED <<counter, signal>>

(* Thread q of SM 0 adds to the word of rank q; the threads go their own way.*)
Tell(r, q) ==
  /\ spot[r] = "tell" /\ q \notin told[r]
  /\ signal' = [signal EXCEPT ![q][Phase(counter[r])] = @ + Delta(counter[r])]
  /\ told' = [told EXCEPT ![r] = @ \cup {q}]
  /\ UNCHANGED <<counter, spot>>

CountUp(r) ==
  /\ spot[r] = "tell" /\ told[r] = Rank
  /\ counter' = [counter EXCEPT ![r] = @ + 1]
  /\ spot' = [spot EXCEPT ![r] = "wait"]
  /\ UNCHANGED <<signal, told>>

Signalled(r) == signal[r][Phase(counter[r] - 1)] = Target(counter[r] - 1)
Pass(r) ==
  /\ spot[r] = "wait" /\ Signalled(r)
  /\ spot' = [spot EXCEPT ![r] = "out"]
  /\ UNCHANGED <<counter, signal, told>>

BarrierInit ==
  /\ counter = [r \in Rank |-> 0]
  /\ signal = [r \in Rank |-> [p \in 0 .. 1 |-> 0]]
  /\ spot = [r \in Rank |-> "out"]
  /\ told = [r \in Rank |-> {}]

RankStep(r) == Begin(r) \/ CountUp(r) \/ Pass(r) \/ \E q \in Rank : Tell(r, q)
AllOut == \A r \in Rank : spot[r] = "out" /\ counter[r] = BARRIERS
Finished == AllOut /\ UNCHANGED barrierVars
BarrierNext == Finished \/ \E r \in Rank : RankStep(r)
BarrierSpec == BarrierInit /\ [][BarrierNext]_barrierVars
-----------------------------------------------------------------------------
(* Types of the barrier's state. A word never leaves 0 .. number of ranks:   *)
(* no signal of one use of the word meets one of the next.                  *)
BarrierTypeOK ==
  /\ counter \in [Rank -> 0 .. BARRIERS]
  /\ signal \in [Rank -> [0 .. 1 -> 0 .. Cardinality(Rank)]]
  /\ spot \in [Rank -> {"out", "tell", "wait"}]
  /\ told \in [Rank -> SUBSET Rank]

(* The barriers a rank has passed, and those it has told rank q of.          *)
Passed(r) == counter[r] - IF spot[r] = "wait" THEN 1 ELSE 0
Sent(r, q) == counter[r] + IF spot[r] = "tell" /\ q \in told[r] THEN 1 ELSE 0

(* A rank passes a barrier only after every rank told it of that barrier.    *)
PassedAfterAll == \A q, r \in Rank : Sent(q, r) >= Passed(r)

(* The barrier of the ranks is the abstract one: a rank enters it with its   *)
(* first signal.                                                            *)
Meeting == INSTANCE Rendezvous
  WITH Proc <- Rank,
       entered <- [r \in Rank |-> counter[r] + IF spot[r] = "tell" /\ told[r] # {} THEN 1 ELSE 0],
       passed <- [r \in Rank |-> Passed(r)]
RanksMeet == Meeting!Spec
=============================================================================
