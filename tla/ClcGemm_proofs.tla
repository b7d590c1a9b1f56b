--------------------------- MODULE ClcGemm_proofs ---------------------------
(***************************************************************************)
(* The roles of a cluster agree on its tiles, for any number of tiles and    *)
(* any look-ahead, with one consumer or two. Two counts carry the argument.  *)
(* FIN completes a round when every role has decoded its answer, so nobody   *)
(* is more than one answer ahead of anybody (RoundInv): an answer is not     *)
(* overwritten before all have it, and a parity is never mistaken. And an    *)
(* accumulator is taken again only when both consumers have read it          *)
(* (TmemInv). With that the n-th tile of every role is the n-th answer       *)
(* (TileInv), and the cluster ends when all have decoded that there is none. *)
(***************************************************************************)
EXTENDS ClcGemm, FiniteSetTheorems, SequenceTheorems, TLAPS

Bar(t, p, x, n) == [turn |-> t, pending |-> p, tx |-> x, count |-> n]
BarRecord == [turn : Int, pending : Int, tx : Int, count : Int]
Place == {"cancel", "expect", "decode", "load", "acquire", "issue", "wait", "read",
          "bye", "byewait", "sync", "free", "left"}
Answer == Tile \cup {Drained}
AgentRecord == [place : Place, tile : Answer, next : Answer, seen : Nat, uses : Nat]
RoleTypes == kernel \in Kernels /\ bar \in [Barrier -> BarRecord] /\ agent \in [Agent -> AgentRecord]
AnswerTypes ==
  /\ request \in [to : SUBSET CTA, answer : Answer] /\ handle \in [CTA -> Answer]
  /\ given \in SUBSET Tile
DataTypes ==
  /\ loads \in [CTA -> Seq(Answer)] /\ queue \in [WG -> Seq(Slot)] /\ mmaDone \in [WG -> Nat]
  /\ acc = [s \in Slot |-> acc[s]] /\ stored \in SUBSET (CTA \X WG \X Answer)
ClusterTypes == RoleTypes /\ AnswerTypes /\ DataTypes

Seen(a) == agent[a].seen
At(a) == agent[a].place
Uses(a) == agent[a].uses
Over == {"bye", "byewait", "sync", "free", "left"}
PlacesOf(a) ==
  CASE a = <<"sched", 0>> -> {"cancel", "expect", "decode", "sync", "left"}
    [] a = <<"sched", 1>> -> {"expect", "decode", "sync", "left"}
    [] a[1] = "load" -> {"load", "decode", "sync", "left"}
    [] a[1] = "mma" -> {"decode", "acquire", "issue", "sync", "left"}
    [] OTHER -> {"decode", "wait", "read"} \cup Over

(* An agent by itself: the places of its kind, and the accumulators it used   *)
(* against the answers it decoded.                                          *)
LaneInv(a) ==
  /\ At(a) \in PlacesOf(a)
  /\ a[1] = "mma" => Uses(a) = Seen(a) - (IF At(a) \in {"acquire", "issue"} THEN 1 ELSE 0)
  /\ a[1] = "con" => Uses(a) = Seen(a) - (IF At(a) \in {"wait", "read"} THEN 1 ELSE 0)

(* Rounds: FIN counts those that all have decoded, and who has decoded one   *)
(* more; an answer is there once it was announced and delivered.             *)
Rounds == bar[FIN].turn
Ahead == {a \in Agent : Seen(a) = Rounds + 1}
FinInv ==
  /\ \A a \in Agent : Seen(a) \in {Rounds, Rounds + 1}
  /\ bar[FIN] = Bar(Rounds, FinishArrivals - Cardinality(Ahead), 0, FinishArrivals)
  /\ Ahead # Agent
  /\ At(<<"sched", 0>>) \in {"expect", "decode"} => Seen(<<"sched", 0>>) = Rounds
Issued == Seen(<<"sched", 0>>) + (IF At(<<"sched", 0>>) \in {"expect", "decode"} THEN 1 ELSE 0)
Expected(c) == Seen(<<"sched", c>>) + (IF At(<<"sched", c>>) = "decode" THEN 1 ELSE 0)
Delivered(c) == Issued - (IF c \in request.to THEN 1 ELSE 0)
ArrInv(c) ==
  /\ Expected(c) - Delivered(c) \in -1 .. 1
  /\ bar[ARR(c)] = Bar(IF Expected(c) > Delivered(c) THEN Delivered(c) ELSE Expected(c),
                       IF Expected(c) > Delivered(c) THEN 0 ELSE 1,
                       Expected(c) - Delivered(c), 1)
  /\ \A a \in Agent : CtaOf(a) = c => Seen(a) <= bar[ARR(c)].turn
RoundInv == FinInv /\ \A c \in CTA : ArrInv(c)

(* Accumulators: how often slot s was used among the first n uses; what the  *)
(* MMA warp has acquired, the tensor core finished and the consumers read.   *)
Owner(s) == IF OVERLAP THEN 0 ELSE s
UsesOf(s, n) == IF OVERLAP THEN (n + 1 - s) \div 2 ELSE n
Acquired(i) == Uses(<<"mma", i>>) + (IF At(<<"mma", i>>) = "issue" THEN 1 ELSE 0)
Read(c, i) == Uses(<<"con", c, i>>)
MmaInv(i) ==
  /\ mmaDone[i] <= Uses(<<"mma", i>>)
  /\ Len(queue[i]) = Uses(<<"mma", i>>) - mmaDone[i]
  /\ \A k \in 1 .. Len(queue[i]) : queue[i][k] = SlotOf(i, mmaDone[i] + k - 1)
  /\ \A c \in CTA : /\ Read(c, i) <= mmaDone[i] /\ Acquired(i) <= Read(c, i) + TMEM_PHASE_DEPTH
                    /\ At(<<"con", c, i>>) = "read" => Read(c, i) < mmaDone[i]
                    /\ Uses(<<"mma", i>>) <= Len(loads[c])
  /\ \A n \in Nat : n < mmaDone[i] /\ Uses(<<"mma", i>>) <= n + TMEM_PHASE_DEPTH =>
       acc[SlotOf(i, n)] = <<loads[0][n + 1], loads[1][n + 1]>>
Freed(c, s) == UsesOf(s, Read(c, Owner(s)))
SlotInv(s) ==
  /\ \A c \in CTA : bar[TFULL(c, s)] = Bar(UsesOf(s, mmaDone[Owner(s)]), 1, 0, 1)
  /\ bar[TEMPTY(s)] = Bar(IF Freed(0, s) < Freed(1, s) THEN Freed(0, s) ELSE Freed(1, s),
                          IF Freed(0, s) = Freed(1, s) THEN 2 ELSE 1, 0, 2)
TmemInv == (\A i \in WG : MmaInv(i)) /\ (\A s \in Slot : SlotInv(s))

(* The end: a consumer is gone when it has heard of its peer, or with all.   *)
Waved(c) == At(<<"con", c, 0>>) \in {"byewait", "free", "left"}
EndInv ==
  /\ OVERLAP => \A a \in Agent : At(a) # "sync"
  /\ ~OVERLAP => /\ \A a \in Agent : At(a) \notin {"bye", "byewait"}
                 /\ (\E a \in Agent : At(a) \in {"free", "left"}) =>
                      \A a \in Agent : At(a) \in {"free", "left"}
  /\ \A c \in CTA :
       /\ bar[BYE(c)] = Bar(IF OVERLAP /\ Waved(1 - c) THEN 1 ELSE 0, 1, 0, 1)
       /\ OVERLAP /\ At(<<"con", c, 0>>) \in {"free", "left"} => Waved(1 - c)

(* Tiles: T[n] is the tile the cluster works on in round n, or Drained.      *)
TileOfAgent(a, T) ==
  /\ At(a) \in Over => T[Seen(a)] = Drained
  /\ At(a) \in {"cancel", "expect", "load", "decode"} => T[Seen(a)] # Drained
  /\ Seen(a) > 0 => agent[a].next = T[Seen(a)]
  /\ a[1] = "load" =>
       /\ At(a) = "load" => agent[a].tile = T[Seen(a)]
       /\ Len(loads[a[2]]) = Seen(a) + (IF At(a) = "decode" THEN 1 ELSE 0)
       /\ \A n \in 1 .. Len(loads[a[2]]) : loads[a[2]][n] = T[n - 1]
  /\ a[1] = "con" /\ At(a) \notin Over => agent[a].tile = T[Uses(a)]
AnswerInv(T) ==
  /\ T[0] = 0 /\ request.answer = IF Issued > 0 THEN T[Issued] ELSE Drained
  /\ \A c \in CTA : handle[c] = IF Delivered(c) > 0 THEN T[Delivered(c)] ELSE Drained
  /\ given = {T[n] : n \in 0 .. Issued} \ {Drained}
  /\ \A n \in 0 .. Issued - 1 : T[n] # Drained /\ \A m \in n + 1 .. Issued : T[m] # T[n]
StoredInv(T) ==
  \A c \in CTA, i \in WG, t \in Answer :
    <<c, i, t>> \in stored <=> \E n \in 0 .. Read(c, i) - 1 : t = T[n]
TileInv(T) == AnswerInv(T) /\ StoredInv(T) /\ \A a \in Agent : TileOfAgent(a, T)

ControlInv == ClusterTypes /\ RoundInv /\ TmemInv /\ EndInv /\ \A a \in Agent : LaneInv(a)
ClcInv == ControlInv /\ \E T \in [Nat -> Answer] : TileInv(T)

----------------------------------------------------------------------------
(* The kernel is fixed, and with it everything that depends on it alone.     *)
LEMMA Fixed ==
  ASSUME kernel' = kernel
  PROVE  /\ WG' = WG /\ OVERLAP' = OVERLAP /\ TMEM_PHASE_DEPTH' = TMEM_PHASE_DEPTH
         /\ Tile' = Tile /\ Answer' = Answer /\ AgentRecord' = AgentRecord
         /\ Agent' = Agent /\ Barrier' = Barrier /\ FinishArrivals' = FinishArrivals /\ End' = End
         /\ \A s : Owner(s)' = Owner(s) /\ \A n : UsesOf(s, n)' = UsesOf(s, n)
         /\ \A i, n : SlotOf(i, n)' = SlotOf(i, n)
<1>1. WG' = WG /\ OVERLAP' = OVERLAP /\ Tile' = Tile /\ NUM_CONSUMER' = NUM_CONSUMER
  BY DEF WG, OVERLAP, Tile, TILES, NUM_CONSUMER
<1>2. TMEM_PHASE_DEPTH' = TMEM_PHASE_DEPTH /\ Answer' = Answer /\ FinishArrivals' = FinishArrivals
      /\ End' = End /\ Agent' = Agent
  BY <1>1 DEF TMEM_PHASE_DEPTH, Answer, FinishArrivals, End, Agent
<1>3. AgentRecord' = AgentRecord
  BY <1>2 DEF AgentRecord
<1>4. Barrier' = Barrier
  BY DEF Barrier, FIN, ARR, TFULL, TEMPTY, BYE
<1>5. \A s : Owner(s)' = Owner(s) /\ \A n : UsesOf(s, n)' = UsesOf(s, n)
  BY <1>1 DEF Owner, UsesOf
<1>6. \A i, n : SlotOf(i, n)' = SlotOf(i, n)
  BY <1>1, <1>2 DEF SlotOf
<1>. QED BY <1>1, <1>2, <1>3, <1>4, <1>5, <1>6

LEMMA Sizes ==
  ASSUME kernel \in Kernels
  PROVE  /\ NUM_CONSUMER \in 1 .. 2 /\ (OVERLAP <=> NUM_CONSUMER = 1)
         /\ WG = IF OVERLAP THEN {0} ELSE {0, 1}
         /\ TMEM_PHASE_DEPTH = IF OVERLAP THEN 2 ELSE 1
         /\ FinishArrivals = IF OVERLAP THEN 7 ELSE 10
         /\ 0 \in Tile /\ Drained \notin Tile /\ Tile \subseteq Nat
         /\ CTA = {0, 1} /\ Slot = {0, 1} /\ 0 \in WG /\ WG \subseteq Nat
<1>1. NUM_CONSUMER \in 1 .. 2 /\ TILES \in Nat \ {0}
  BY KernelsAssumption DEF NUM_CONSUMER, TILES
<1>2. /\ 0 \in Tile /\ Drained \notin Tile /\ Tile \subseteq Nat /\ CTA = {0, 1} /\ Slot = {0, 1}
  BY <1>1, SMT DEF Tile, Drained, CTA, Slot
<1>3. CASE NUM_CONSUMER = 1
  <2>1. OVERLAP /\ WG = {0} /\ TMEM_PHASE_DEPTH = 2 /\ FinishArrivals = 7
    BY <1>3, SMT DEF OVERLAP, WG, TMEM_PHASE_DEPTH, FinishArrivals
  <2>. QED BY <1>1, <1>2, <1>3, <2>1
<1>4. CASE NUM_CONSUMER = 2
  <2>1. ~OVERLAP /\ WG = {0, 1} /\ TMEM_PHASE_DEPTH = 1 /\ FinishArrivals = 10
    BY <1>4, SMT DEF OVERLAP, WG, TMEM_PHASE_DEPTH, FinishArrivals
  <2>. QED BY <1>1, <1>2, <1>4, <2>1
<1>. QED BY <1>1, <1>3, <1>4, SMT

(* Agents and barriers go by their names.                                    *)
LEMMA AgentNames ==
  ASSUME kernel \in Kernels
  PROVE  /\ \A a \in Agent : \/ \E c \in CTA : a = <<"sched", c>> \/ a = <<"load", c>>
                             \/ \E i \in WG : a = <<"mma", i>>
                             \/ \E c \in CTA, i \in WG : a = <<"con", c, i>>
         /\ \A c \in CTA : <<"sched", c>> \in Agent /\ <<"load", c>> \in Agent
         /\ \A i \in WG : <<"mma", i>> \in Agent
         /\ \A c \in CTA, i \in WG : <<"con", c, i>> \in Agent
BY DEF Agent

LEMMA Ctas ==
  ASSUME kernel \in Kernels
  PROVE  /\ \A a \in Agent : CtaOf(a) \in CTA
         /\ \A c : CtaOf(<<"sched", c>>) = c /\ CtaOf(<<"load", c>>) = c
         /\ \A i : CtaOf(<<"mma", i>>) = 0
         /\ \A c, i : CtaOf(<<"con", c, i>>) = c
<1>1. /\ \A c : CtaOf(<<"sched", c>>) = c /\ CtaOf(<<"load", c>>) = c
      /\ \A i : CtaOf(<<"mma", i>>) = 0
      /\ \A c, i : CtaOf(<<"con", c, i>>) = c
  BY DEF CtaOf
<1>. QED BY <1>1, AgentNames, Sizes

LEMMA BarNames ==
  /\ \A c \in CTA : ARR(c) \in Barrier /\ BYE(c) \in Barrier
  /\ FIN \in Barrier
  /\ \A s \in Slot : TEMPTY(s) \in Barrier /\ \A c \in CTA : TFULL(c, s) \in Barrier
  /\ \A b \in Barrier : \/ \E c \in CTA : b = ARR(c) \/ b = BYE(c)
                        \/ b = FIN
                        \/ \E s \in Slot : b = TEMPTY(s) \/ \E c \in CTA : b = TFULL(c, s)
BY DEF Barrier

LEMMA BarApart ==
  /\ \A c, d : /\ ARR(c) = ARR(d) => c = d
               /\ BYE(c) = BYE(d) => c = d
               /\ ARR(c) # BYE(d)
  /\ \A c : ARR(c) # FIN /\ BYE(c) # FIN
  /\ \A c, d, s, t : TFULL(c, s) = TFULL(d, t) => c = d /\ s = t
  /\ \A s, t : TEMPTY(s) = TEMPTY(t) => s = t
  /\ \A c, d, s : TFULL(c, s) # ARR(d) /\ TFULL(c, s) # BYE(d)
  /\ \A c, s : TFULL(c, s) # FIN
  /\ \A c, s, t : TFULL(c, s) # TEMPTY(t)
  /\ \A c, s : TEMPTY(s) # ARR(c) /\ TEMPTY(s) # BYE(c)
  /\ \A s : TEMPTY(s) # FIN
<1>1. /\ \A c : ARR(c)[1] = "arr" /\ ARR(c)[2] = c /\ BYE(c)[1] = "bye" /\ BYE(c)[2] = c
      /\ FIN[1] = "fin"
      /\ \A s : TEMPTY(s)[1] = "tempty" /\ TEMPTY(s)[2] = s
      /\ \A c, s : TFULL(c, s)[1] = "tfull" /\ TFULL(c, s)[2] = c /\ TFULL(c, s)[3] = s
  BY DEF ARR, BYE, FIN, TEMPTY, TFULL
<1>. QED BY <1>1

LEMMA AgentApart ==
  /\ \A c, d, i : <<"sched", c>> # <<"load", d>> /\ <<"sched", c>> # <<"mma", i>> /\ <<"load", c>> # <<"mma", i>>
  /\ \A c, d, i : /\ <<"sched", c>> # <<"con", d, i>> /\ <<"load", c>> # <<"con", d, i>>
  /\ \A c, i, j : <<"mma", j>> # <<"con", c, i>>
  /\ \A c, d : /\ <<"sched", c>> = <<"sched", d>> => c = d
               /\ <<"load", c>> = <<"load", d>> => c = d
               /\ <<"mma", c>> = <<"mma", d>> => c = d
  /\ \A c, d, i, j : <<"con", c, i>> = <<"con", d, j>> => c = d /\ i = j
<1>1. /\ \A c : <<"sched", c>>[1] = "sched" /\ <<"load", c>>[1] = "load" /\ <<"mma", c>>[1] = "mma"
      /\ \A c, i : <<"con", c, i>>[1] = "con"
  OBVIOUS
<1>2. /\ \A c, d, i : <<"sched", c>> # <<"con", d, i>> /\ <<"load", c>> # <<"con", d, i>>
      /\ \A c, i, j : <<"mma", j>> # <<"con", c, i>>
  BY <1>1
<1>. QED BY <1>2

(* What an agent's name says.                                                *)
LEMMA Kinds ==
  /\ \A c : <<"sched", c>>[1] = "sched" /\ <<"sched", c>>[2] = c
  /\ \A c : <<"load", c>>[1] = "load" /\ <<"load", c>>[2] = c
  /\ \A c : <<"mma", c>>[1] = "mma" /\ <<"mma", c>>[2] = c
  /\ \A c, i : <<"con", c, i>>[1] = "con" /\ <<"con", c, i>>[2] = c /\ <<"con", c, i>>[3] = i
OBVIOUS

LEMMA KindOf ==
  ASSUME kernel \in Kernels, NEW a \in Agent
  PROVE  /\ a[1] = "sched" => \E c \in CTA : a = <<"sched", c>>
         /\ a[1] = "load" => \E c \in CTA : a = <<"load", c>>
         /\ a[1] = "mma" => \E i \in WG : a = <<"mma", i>>
         /\ a[1] = "con" => \E c \in CTA, i \in WG : a = <<"con", c, i>>
BY AgentNames, Kinds

LEMMA AgentCount ==
  ASSUME kernel \in Kernels
  PROVE  IsFiniteSet(Agent) /\ Cardinality(Agent) = FinishArrivals
<1>1. \A S, x, n : IsFiniteSet(S) /\ Cardinality(S) = n /\ n \in Nat /\ x \notin S =>
        IsFiniteSet(S \cup {x}) /\ Cardinality(S \cup {x}) = n + 1
  BY FS_AddElement
<1>. DEFINE A1 == {<<"sched", 0>>}
            A2 == A1 \cup {<<"sched", 1>>}
            A3 == A2 \cup {<<"load", 0>>}
            A4 == A3 \cup {<<"load", 1>>}
            A5 == A4 \cup {<<"mma", 0>>}
            A6 == A5 \cup {<<"con", 0, 0>>}
            A7 == A6 \cup {<<"con", 1, 0>>}
            A8 == A7 \cup {<<"mma", 1>>}
            A9 == A8 \cup {<<"con", 0, 1>>}
            A10 == A9 \cup {<<"con", 1, 1>>}
<1>2. IsFiniteSet(A1) /\ Cardinality(A1) = 1
  BY FS_Singleton
<1>3. IsFiniteSet(A2) /\ Cardinality(A2) = 2
  <2>1. <<"sched", 1>> \notin A1
    BY AgentApart
  <2>. HIDE DEF A1
  <2>. QED BY <1>1, <1>2, <2>1
<1>4. IsFiniteSet(A3) /\ Cardinality(A3) = 3
  <2>1. <<"load", 0>> \notin A2
    BY AgentApart
  <2>. HIDE DEF A2
  <2>. QED BY <1>1, <1>3, <2>1
<1>5. IsFiniteSet(A4) /\ Cardinality(A4) = 4
  <2>1. <<"load", 1>> \notin A3
    BY AgentApart
  <2>. HIDE DEF A3
  <2>. QED BY <1>1, <1>4, <2>1
<1>6. IsFiniteSet(A5) /\ Cardinality(A5) = 5
  <2>1. <<"mma", 0>> \notin A4
    BY AgentApart
  <2>. HIDE DEF A4
  <2>. QED BY <1>1, <1>5, <2>1
<1>7. IsFiniteSet(A6) /\ Cardinality(A6) = 6
  <2>1. <<"con", 0, 0>> \notin A5
    BY AgentApart
  <2>. HIDE DEF A5
  <2>. QED BY <1>1, <1>6, <2>1
<1>8. IsFiniteSet(A7) /\ Cardinality(A7) = 7
  <2>1. <<"con", 1, 0>> \notin A6
    BY AgentApart
  <2>. HIDE DEF A6
  <2>. QED BY <1>1, <1>7, <2>1
<1>9. IsFiniteSet(A8) /\ Cardinality(A8) = 8
  <2>1. <<"mma", 1>> \notin A7
    BY AgentApart
  <2>. HIDE DEF A7
  <2>. QED BY <1>1, <1>8, <2>1
<1>10. IsFiniteSet(A9) /\ Cardinality(A9) = 9
  <2>1. <<"con", 0, 1>> \notin A8
    BY AgentApart
  <2>. HIDE DEF A8
  <2>. QED BY <1>1, <1>9, <2>1
<1>11. IsFiniteSet(A10) /\ Cardinality(A10) = 10
  <2>1. <<"con", 1, 1>> \notin A9
    BY AgentApart
  <2>. HIDE DEF A9
  <2>. QED BY <1>1, <1>10, <2>1
<1>12. CASE OVERLAP
  <2>1. Agent = A7
    BY <1>12, Sizes DEF Agent
  <2>. QED BY <2>1, <1>8, <1>12, Sizes
<1>13. CASE ~OVERLAP
  <2>1. Agent = A10
    BY <1>13, Sizes DEF Agent
  <2>. QED BY <2>1, <1>11, <1>13, Sizes
<1>. QED BY <1>12, <1>13

(* The barrier operations.                                                   *)
LEMMA BarSteps ==
  ASSUME NEW t \in Int, NEW p \in Int, NEW x \in Int, NEW n \in Int
  PROVE  /\ Arrive(Bar(t, p, x, n)) = IF p = 1 /\ x = 0 THEN Bar(t + 1, n, 0, n) ELSE Bar(t, p - 1, x, n)
         /\ Landed(Bar(t, p, x, n)) = IF p = 0 /\ x = 1 THEN Bar(t + 1, n, 0, n) ELSE Bar(t, p, x - 1, n)
         /\ ArriveExpect(Bar(t, p, x, n), 1) =
              IF p = 1 /\ x = -1 THEN Bar(t + 1, n, 0, n) ELSE Bar(t, p - 1, x + 1, n)
         /\ \A m : Passed(Bar(t, p, x, n), m) <=> t % 2 # m % 2
         /\ Bar(t, p, x, n).turn = t /\ Bar(t, p, x, n).tx = x
<1>1. \A p1, x1 \in Int : Settled(Bar(t, p1, x1, n)) =
         IF p1 = 0 /\ x1 = 0 THEN Bar(t + 1, n, 0, n) ELSE Bar(t, p1, x1, n)
  <2>. TAKE p1, x1 \in Int
  <2>1. CASE p1 = 0 /\ x1 = 0
    <3>1. Settled(Bar(t, p1, x1, n)) =
            [Bar(t, p1, x1, n) EXCEPT !.turn = Bar(t, p1, x1, n).turn + 1, !.pending = n]
      BY <2>1 DEF Settled, Bar
    <3>. QED BY <2>1, <3>1 DEF Bar
  <2>2. CASE ~(p1 = 0 /\ x1 = 0)
    BY <2>2 DEF Settled, Bar
  <2>. QED BY <2>1, <2>2
<1>2. \A d \in Int : /\ [Bar(t, p, x, n) EXCEPT !.pending = d] = Bar(t, d, x, n)
                    /\ [Bar(t, p, x, n) EXCEPT !.tx = d] = Bar(t, p, d, n)
  BY DEF Bar
<1>4. Bar(t, p, x, n).pending = p /\ Bar(t, p, x, n).turn = t /\ Bar(t, p, x, n).tx = x
  BY DEF Bar
<1>5. Arrive(Bar(t, p, x, n)) = Settled(Bar(t, p - 1, x, n))
  BY <1>2, <1>4 DEF Arrive
<1>6. Landed(Bar(t, p, x, n)) = Settled(Bar(t, p, x - 1, n))
  BY <1>2, <1>4 DEF Landed
<1>7. ArriveExpect(Bar(t, p, x, n), 1) = Settled(Bar(t, p - 1, x + 1, n))
  <2>1. ArriveExpect(Bar(t, p, x, n), 1) = Arrive(Bar(t, p, x + 1, n))
    BY <1>2, <1>4 DEF ArriveExpect
  <2>2. /\ [Bar(t, p, x + 1, n) EXCEPT !.pending = p - 1] = Bar(t, p - 1, x + 1, n)
        /\ Bar(t, p, x + 1, n).pending = p
    BY DEF Bar
  <2>. QED BY <2>1, <2>2 DEF Arrive
<1>8. \A m : Passed(Bar(t, p, x, n), m) <=> t % 2 # m % 2
  BY <1>4 DEF Passed
<1>. QED BY <1>1, <1>4, <1>5, <1>6, <1>7, <1>8

(* The same, one operation at a time.                                        *)
LEMMA BarArrives ==
  /\ \A t, n \in Int : Arrive(Bar(t, 1, 0, n)) = Bar(t + 1, n, 0, n)
  /\ \A t, p, n \in Int : p # 1 => Arrive(Bar(t, p, 0, n)) = Bar(t, p - 1, 0, n)
<1>1. ASSUME NEW t \in Int, NEW p \in Int, NEW n \in Int
      PROVE  Arrive(Bar(t, p, 0, n)) = IF p = 1 /\ 0 = 0 THEN Bar(t + 1, n, 0, n) ELSE Bar(t, p - 1, 0, n)
  <2>1. 0 \in Int
    OBVIOUS
  <2>. QED BY <1>1, <2>1, BarSteps
<1>2. 1 \in Int
  OBVIOUS
<1>. QED BY <1>1, <1>2

LEMMA BarExpects ==
  ASSUME NEW t \in Int, NEW x \in Int
  PROVE  ArriveExpect(Bar(t, 1, x, 1), 1) = IF x = -1 THEN Bar(t + 1, 1, 0, 1) ELSE Bar(t, 0, x + 1, 1)
<1>1. 1 \in Int /\ 1 - 1 = 0
  OBVIOUS
<1>2. ArriveExpect(Bar(t, 1, x, 1), 1) =
        IF 1 = 1 /\ x = -1 THEN Bar(t + 1, 1, 0, 1) ELSE Bar(t, 1 - 1, x + 1, 1)
  BY <1>1, BarSteps
<1>. QED BY <1>1, <1>2

LEMMA BarTypes ==
  ASSUME NEW b \in BarRecord
  PROVE  Arrive(b) \in BarRecord /\ Landed(b) \in BarRecord /\ ArriveExpect(b, 1) \in BarRecord
<1>1. PICK t \in Int, p \in Int, x \in Int, n \in Int : b = Bar(t, p, x, n)
  BY DEF BarRecord, Bar
<1>2. \A t1, p1, x1, n1 \in Int : Bar(t1, p1, x1, n1) \in BarRecord
  BY DEF BarRecord, Bar
<1>3. /\ Arrive(b) = IF p = 1 /\ x = 0 THEN Bar(t + 1, n, 0, n) ELSE Bar(t, p - 1, x, n)
      /\ Landed(b) = IF p = 0 /\ x = 1 THEN Bar(t + 1, n, 0, n) ELSE Bar(t, p, x - 1, n)
      /\ ArriveExpect(b, 1) = IF p = 1 /\ x = -1 THEN Bar(t + 1, n, 0, n) ELSE Bar(t, p - 1, x + 1, n)
  <2>1. /\ Arrive(Bar(t, p, x, n)) = IF p = 1 /\ x = 0 THEN Bar(t + 1, n, 0, n) ELSE Bar(t, p - 1, x, n)
        /\ Landed(Bar(t, p, x, n)) = IF p = 0 /\ x = 1 THEN Bar(t + 1, n, 0, n) ELSE Bar(t, p, x - 1, n)
        /\ ArriveExpect(Bar(t, p, x, n), 1) =
              IF p = 1 /\ x = -1 THEN Bar(t + 1, n, 0, n) ELSE Bar(t, p - 1, x + 1, n)
    BY BarSteps
  <2>. QED BY <1>1, <2>1
<1>. QED BY <1>2, <1>3

(* A wait for phase n cannot be mistaken while the phase is n or n + 1.      *)
LEMMA Parity ==
  ASSUME NEW t \in Int, NEW n \in Int, t \in {n, n + 1}
  PROVE  t % 2 # n % 2 <=> t = n + 1
<1>1. \A m \in Int : (m + 1) % 2 # m % 2
  OBVIOUS
<1>. QED BY <1>1

----------------------------------------------------------------------------
(* Types.                                                                    *)
(* A step of one agent.                                                      *)
LEMMA OneMoves ==
  ASSUME RoleTypes, NEW a \in Agent, NEW r \in AgentRecord, agent' = [agent EXCEPT ![a] = r]
  PROVE  /\ agent' \in [Agent -> AgentRecord]
         /\ agent'[a] = r /\ \A x \in Agent \ {a} : agent'[x] = agent[x]
BY DEF RoleTypes

LEMMA MovedAgent ==
  ASSUME RoleTypes, NEW a \in Agent, NEW p \in Place, agent' = Moved(a, p)
  PROVE  /\ agent' \in [Agent -> AgentRecord]
         /\ \A x \in Agent \ {a} : agent'[x] = agent[x]
         /\ At(a)' = p /\ Seen(a)' = Seen(a) /\ Uses(a)' = Uses(a)
         /\ agent'[a].tile = agent[a].tile /\ agent'[a].next = agent[a].next
<1>1. agent[a] \in AgentRecord
  BY DEF RoleTypes
<1>2. [agent[a] EXCEPT !.place = p] \in AgentRecord
  BY <1>1 DEF AgentRecord
<1>3. agent' = [agent EXCEPT ![a] = [agent[a] EXCEPT !.place = p]]
  BY DEF Moved
<1>4. [agent[a] EXCEPT !.place = p].place = p
  BY <1>1 DEF AgentRecord
<1>5. agent'[a] = [agent[a] EXCEPT !.place = p] /\ agent' \in [Agent -> AgentRecord]
      /\ \A x \in Agent \ {a} : agent'[x] = agent[x]
  BY <1>2, <1>3, OneMoves
<1>. QED BY <1>1, <1>4, <1>5 DEF At, Seen, Uses, AgentRecord

LEMMA AgentTyped ==
  ASSUME RoleTypes
  PROVE  \A a \in Agent : /\ agent[a] \in AgentRecord /\ At(a) \in Place /\ Seen(a) \in Nat /\ Uses(a) \in Nat
                          /\ agent[a].tile \in Answer /\ agent[a].next \in Answer
BY DEF RoleTypes, AgentRecord, At, Seen, Uses

(* One field of an agent's record is changed.                                *)
LEMMA Fields ==
  ASSUME NEW r \in AgentRecord
  PROVE  /\ \A v \in Place : LET n == [r EXCEPT !.place = v] IN
              /\ n \in AgentRecord /\ n.place = v /\ n.tile = r.tile /\ n.next = r.next
              /\ n.seen = r.seen /\ n.uses = r.uses
         /\ \A v \in Answer : LET n == [r EXCEPT !.tile = v] IN
              /\ n \in AgentRecord /\ n.place = r.place /\ n.tile = v /\ n.next = r.next
              /\ n.seen = r.seen /\ n.uses = r.uses
         /\ \A v \in Answer : LET n == [r EXCEPT !.next = v] IN
              /\ n \in AgentRecord /\ n.place = r.place /\ n.tile = r.tile /\ n.next = v
              /\ n.seen = r.seen /\ n.uses = r.uses
         /\ \A v \in Nat : LET n == [r EXCEPT !.seen = v] IN
              /\ n \in AgentRecord /\ n.place = r.place /\ n.tile = r.tile /\ n.next = r.next
              /\ n.seen = v /\ n.uses = r.uses
         /\ \A v \in Nat : LET n == [r EXCEPT !.uses = v] IN
              /\ n \in AgentRecord /\ n.place = r.place /\ n.tile = r.tile /\ n.next = r.next
              /\ n.seen = r.seen /\ n.uses = v
         /\ r.seen + 1 \in Nat /\ r.uses + 1 \in Nat /\ r.tile \in Answer /\ r.next \in Answer
BY DEF AgentRecord

(* What the steps do to the agent that takes them.                           *)
LEMMA ConsumeAgent ==
  ASSUME ClusterTypes, NEW a \in Agent, Consume(a)
  PROVE  LET answer == handle[CtaOf(a)] IN
         /\ agent' \in [Agent -> AgentRecord]
         /\ \A x \in Agent \ {a} : agent'[x] = agent[x]
         /\ answer \in Answer /\ At(a) = "decode" /\ Passed(bar[ARR(CtaOf(a))], Seen(a))
         /\ At(a)' = Decoded(a, answer) /\ Seen(a)' = Seen(a) + 1 /\ Uses(a)' = Uses(a)
         /\ agent'[a].next = answer
         /\ agent'[a].tile = IF a[1] = "load" /\ answer # Drained THEN answer ELSE agent[a].tile
<1>. DEFINE r == agent[a]
            answer == handle[CtaOf(a)]
            n == [r EXCEPT !.place = Decoded(a, answer), !.next = answer, !.seen = @ + 1,
                           !.tile = IF a[1] = "load" /\ answer # Drained THEN answer ELSE @]
            tile == IF a[1] = "load" /\ answer # Drained THEN answer ELSE r.tile
<1>1. answer \in Answer /\ r \in AgentRecord
  BY Ctas DEF ClusterTypes, AnswerTypes, RoleTypes
<1>2. Decoded(a, answer) \in Place
  BY DEF Decoded, GoesOn, End, Place
<1>3. tile \in Answer
  BY <1>1 DEF AgentRecord
<1>4. /\ n.place = Decoded(a, answer) /\ n.next = answer /\ n.seen = r.seen + 1 /\ n.tile = tile
      /\ n.uses = r.uses /\ n \in AgentRecord
  <2>. DEFINE n1 == [r EXCEPT !.place = Decoded(a, answer)]
              n2 == [n1 EXCEPT !.next = answer]
              n3 == [n2 EXCEPT !.seen = r.seen + 1]
              n4 == [n3 EXCEPT !.tile = tile]
  <2>1. n = n4
    OBVIOUS
  <2>. HIDE DEF answer, r, tile, n
  <2>2. /\ n1 \in AgentRecord /\ n1.place = Decoded(a, answer)
        /\ n1.seen = r.seen /\ n1.uses = r.uses /\ r.seen + 1 \in Nat
    BY <1>1, <1>2, Fields
  <2>. HIDE DEF n1
  <2>3. /\ n2 \in AgentRecord /\ n2.place = n1.place /\ n2.next = answer
        /\ n2.seen = n1.seen /\ n2.uses = n1.uses
    BY <1>1, <2>2, Fields
  <2>. HIDE DEF n2
  <2>4. /\ n3 \in AgentRecord /\ n3.place = n2.place /\ n3.next = n2.next
        /\ n3.seen = r.seen + 1 /\ n3.uses = n2.uses
    BY <2>2, <2>3, Fields
  <2>. HIDE DEF n3
  <2>5. /\ n4 \in AgentRecord /\ n4.place = n3.place /\ n4.next = n3.next
        /\ n4.seen = n3.seen /\ n4.uses = n3.uses /\ n4.tile = tile
    BY <1>3, <2>4, Fields
  <2>. HIDE DEF n4
  <2>. QED BY <2>1, <2>2, <2>3, <2>4, <2>5
<1>5. agent' = [agent EXCEPT ![a] = n] /\ r.place = "decode" /\ Passed(bar[ARR(CtaOf(a))], r.seen)
  BY DEF Consume
<1>. HIDE DEF n
<1>6. agent' \in [Agent -> AgentRecord] /\ agent'[a] = n /\ \A x \in Agent \ {a} : agent'[x] = agent[x]
  BY <1>4, <1>5, OneMoves DEF ClusterTypes
<1>. QED BY <1>1, <1>4, <1>5, <1>6 DEF At, Seen, Uses

LEMMA IssueAgent ==
  ASSUME ClusterTypes, NEW i \in WG, MmaIssue(i)
  PROVE  LET a == <<"mma", i>> IN
         /\ a \in Agent /\ agent' \in [Agent -> AgentRecord]
         /\ \A x \in Agent \ {a} : agent'[x] = agent[x]
         /\ At(a) = "issue" /\ At(a)' = IF agent[a].next = Drained THEN End ELSE "decode"
         /\ Seen(a)' = Seen(a) /\ Uses(a)' = Uses(a) + 1
         /\ agent'[a].next = agent[a].next
<1>. DEFINE a == <<"mma", i>>
            r == agent[a]
            place == IF r.next = Drained THEN End ELSE "decode"
            n == [r EXCEPT !.uses = @ + 1, !.place = place]
<1>1. a \in Agent /\ r \in AgentRecord
  BY AgentNames DEF ClusterTypes, RoleTypes
<1>2. place \in Place
  BY DEF End, Place
<1>3. /\ n.place = place /\ n.next = r.next /\ n.seen = r.seen /\ n.uses = r.uses + 1 /\ n \in AgentRecord
  <2>. DEFINE n1 == [r EXCEPT !.uses = r.uses + 1]
              n2 == [n1 EXCEPT !.place = place]
  <2>1. n = n2
    OBVIOUS
  <2>. HIDE DEF r, place, n
  <2>2. n1 \in AgentRecord /\ n1.next = r.next /\ n1.seen = r.seen /\ n1.uses = r.uses + 1
    BY <1>1, Fields
  <2>. HIDE DEF n1
  <2>3. /\ n2 \in AgentRecord /\ n2.next = n1.next /\ n2.seen = n1.seen /\ n2.uses = n1.uses
        /\ n2.place = place
    BY <1>2, <2>2, Fields
  <2>. HIDE DEF n2
  <2>. QED BY <2>1, <2>2, <2>3
<1>4. agent' = [agent EXCEPT ![a] = n] /\ r.place = "issue"
  BY DEF MmaIssue
<1>. HIDE DEF n, a
<1>5. agent' \in [Agent -> AgentRecord] /\ agent'[a] = n /\ \A x \in Agent \ {a} : agent'[x] = agent[x]
  BY <1>1, <1>3, <1>4, OneMoves DEF ClusterTypes
<1>. QED BY <1>1, <1>3, <1>4, <1>5 DEF At, Seen, Uses, a

LEMMA WritebackAgent ==
  ASSUME ClusterTypes, NEW c \in CTA, NEW i \in WG, Writeback(c, i)
  PROVE  LET a == <<"con", c, i>> IN
         /\ a \in Agent /\ agent' \in [Agent -> AgentRecord]
         /\ \A x \in Agent \ {a} : agent'[x] = agent[x]
         /\ At(a) = "read"
         /\ At(a)' = IF agent[a].next # Drained THEN "decode" ELSE IF OVERLAP THEN "bye" ELSE "sync"
         /\ Seen(a)' = Seen(a) /\ Uses(a)' = Uses(a) + 1
         /\ agent'[a].next = agent[a].next
         /\ agent'[a].tile = IF agent[a].next = Drained THEN agent[a].tile ELSE agent[a].next
<1>. DEFINE a == <<"con", c, i>>
            r == agent[a]
            place == IF r.next # Drained THEN "decode" ELSE IF OVERLAP THEN "bye" ELSE "sync"
            tile == IF r.next = Drained THEN r.tile ELSE r.next
            n == [r EXCEPT !.uses = @ + 1, !.tile = tile, !.place = place]
<1>1. a \in Agent /\ r \in AgentRecord
  BY AgentNames DEF ClusterTypes, RoleTypes
<1>2. place \in Place /\ tile \in Answer
  <2>1. place \in Place
    BY DEF Place
  <2>. QED BY <1>1, <2>1 DEF AgentRecord
<1>3. /\ n.place = place /\ n.next = r.next /\ n.seen = r.seen /\ n.uses = r.uses + 1 /\ n.tile = tile
      /\ n \in AgentRecord
  <2>. DEFINE n1 == [r EXCEPT !.uses = r.uses + 1]
              n2 == [n1 EXCEPT !.tile = tile]
              n3 == [n2 EXCEPT !.place = place]
  <2>1. n = n3
    OBVIOUS
  <2>. HIDE DEF r, place, tile, n
  <2>2. n1 \in AgentRecord /\ n1.next = r.next /\ n1.seen = r.seen /\ n1.uses = r.uses + 1
    BY <1>1, Fields
  <2>. HIDE DEF n1
  <2>3. /\ n2 \in AgentRecord /\ n2.next = n1.next /\ n2.seen = n1.seen /\ n2.uses = n1.uses
        /\ n2.tile = tile
    BY <1>2, <2>2, Fields
  <2>. HIDE DEF n2
  <2>4. /\ n3 \in AgentRecord /\ n3.next = n2.next /\ n3.seen = n2.seen /\ n3.uses = n2.uses
        /\ n3.tile = n2.tile /\ n3.place = place
    BY <1>2, <2>3, Fields
  <2>. HIDE DEF n3
  <2>. QED BY <2>1, <2>2, <2>3, <2>4
<1>4. agent' = [agent EXCEPT ![a] = n] /\ r.place = "read"
  <2>1. [r EXCEPT !.uses = @ + 1, !.tile = IF r.next = Drained THEN @ ELSE r.next,
                  !.place = IF r.next # Drained THEN "decode" ELSE IF OVERLAP THEN "bye" ELSE "sync"] = n
    OBVIOUS
  <2>. QED BY <2>1 DEF Writeback
<1>. HIDE DEF n, a
<1>5. agent' \in [Agent -> AgentRecord] /\ agent'[a] = n /\ \A x \in Agent \ {a} : agent'[x] = agent[x]
  BY <1>1, <1>3, <1>4, OneMoves DEF ClusterTypes
<1>. QED BY <1>1, <1>3, <1>4, <1>5 DEF At, Seen, Uses, a

LEMMA SyncAgents ==
  ASSUME ClusterTypes, ClusterSync
  PROVE  /\ agent' \in [Agent -> AgentRecord]
         /\ \A a \in Agent :
              /\ At(a) = "sync" /\ At(a)' = IF a[1] = "con" /\ a[3] = 0 THEN "free" ELSE "left"
              /\ Seen(a)' = Seen(a) /\ Uses(a)' = Uses(a)
              /\ agent'[a].tile = agent[a].tile /\ agent'[a].next = agent[a].next
<1>. DEFINE place(a) == IF a[1] = "con" /\ a[3] = 0 THEN "free" ELSE "left"
<1>1. \A a \in Agent : agent[a].place = "sync" /\ agent[a] \in AgentRecord
  BY DEF ClusterSync, AllSync, ClusterTypes, RoleTypes
<1>2. agent' = [a \in Agent |-> [agent[a] EXCEPT !.place = place(a)]]
  BY DEF ClusterSync
<1>3. \A a \in Agent : place(a) \in Place
  BY DEF Place
<1>. HIDE DEF place
<1>4. ASSUME NEW a \in Agent
      PROVE  /\ agent'[a] \in AgentRecord /\ agent'[a].place = place(a)
             /\ agent'[a].seen = agent[a].seen /\ agent'[a].uses = agent[a].uses
             /\ agent'[a].tile = agent[a].tile /\ agent'[a].next = agent[a].next
  <2>1. agent'[a] = [agent[a] EXCEPT !.place = place(a)]
    BY <1>2
  <2>. QED BY <1>1, <1>3, <2>1 DEF AgentRecord
<1>. QED BY <1>1, <1>2, <1>4 DEF At, Seen, Uses, place

LEMMA BarsTyped ==
  ASSUME ClusterTypes, NEW b \in Barrier
  PROVE  /\ bar[b] \in BarRecord
         /\ [bar EXCEPT ![b] = Arrive(@)] \in [Barrier -> BarRecord]
         /\ [bar EXCEPT ![b] = Landed(@)] \in [Barrier -> BarRecord]
         /\ [bar EXCEPT ![b] = ArriveExpect(@, 1)] \in [Barrier -> BarRecord]
<1>1. bar[b] \in BarRecord /\ bar \in [Barrier -> BarRecord]
  BY DEF ClusterTypes, RoleTypes
<1>. QED BY <1>1, BarTypes

LEMMA SlotTypes ==
  ASSUME kernel \in Kernels, NEW i \in WG, NEW n \in Int
  PROVE  SlotOf(i, n) \in Slot
<1>1. \A m \in Int : m % 2 \in {0, 1}
  OBVIOUS
<1>. QED BY <1>1, Sizes DEF SlotOf

LEMMA TypesStep ==
  ASSUME ClusterTypes, Step, kernel' = kernel
  PROVE  ClusterTypes'
<1>. SUFFICES RoleTypes' /\ AnswerTypes' /\ DataTypes'
  BY DEF ClusterTypes
<1>0. /\ kernel \in Kernels /\ agent \in [Agent -> AgentRecord] /\ bar \in [Barrier -> BarRecord]
      /\ RoleTypes /\ AnswerTypes /\ DataTypes
  BY DEF ClusterTypes, RoleTypes
<1>a. ASSUME agent' \in [Agent -> AgentRecord], bar' \in [Barrier -> BarRecord] PROVE RoleTypes'
  BY <1>0, <1>a, Fixed DEF RoleTypes
<1>b. ASSUME UNCHANGED <<request, handle, given>> PROVE AnswerTypes'
  BY <1>0, <1>b, Fixed DEF AnswerTypes
<1>c. ASSUME UNCHANGED <<loads, queue, mmaDone, acc, stored>> PROVE DataTypes'
  BY <1>0, <1>c, Fixed DEF DataTypes
<1>1. ASSUME NEW a \in Agent, Consume(a) PROVE RoleTypes' /\ AnswerTypes' /\ DataTypes'
  <2>1. agent' \in [Agent -> AgentRecord] /\ bar' \in [Barrier -> BarRecord]
    BY <1>1, ConsumeAgent, BarsTyped, BarNames DEF Consume
  <2>2. UNCHANGED <<request, handle, given, loads, queue, mmaDone, acc, stored>>
    BY <1>1 DEF Consume
  <2>. QED BY <2>1, <2>2, <1>a, <1>b, <1>c
<1>2. CASE Cancel
  <2>1. <<"sched", 0>> \in Agent
    BY <1>0, AgentNames, Sizes
  <2>2. agent' \in [Agent -> AgentRecord] /\ bar' = bar
    BY <1>0, <1>2, <2>1, MovedAgent DEF Cancel, Place
  <2>3. AnswerTypes'
    <3>1. PICK answer \in (Tile \ given) \cup {Drained} :
            request' = [to |-> CTA, answer |-> answer] /\ given' = (given \cup {answer}) \ {Drained}
      BY <1>2 DEF Cancel
    <3>2. answer \in Answer /\ given' \in SUBSET Tile
      BY <1>0, <3>1 DEF Answer, AnswerTypes
    <3>3. request' \in [to : SUBSET CTA, answer : Answer]
      BY <3>1, <3>2
    <3>4. handle' = handle
      BY <1>2 DEF Cancel
    <3>. QED BY <1>0, <3>2, <3>3, <3>4, Fixed DEF AnswerTypes
  <2>4. UNCHANGED <<loads, queue, mmaDone, acc, stored>>
    BY <1>2 DEF Cancel
  <2>. QED BY <1>0, <2>2, <2>3, <2>4, <1>a, <1>c
<1>3. ASSUME NEW c \in CTA, SchedExpect(c) PROVE RoleTypes' /\ AnswerTypes' /\ DataTypes'
  <2>1. <<"sched", c>> \in Agent
    BY <1>0, AgentNames
  <2>2. agent' \in [Agent -> AgentRecord]
    BY <1>0, <1>3, <2>1, MovedAgent DEF SchedExpect, Place
  <2>3. bar' \in [Barrier -> BarRecord]
    BY <1>3, BarsTyped, BarNames DEF SchedExpect
  <2>4. UNCHANGED <<request, handle, given, loads, queue, mmaDone, acc, stored>>
    BY <1>3 DEF SchedExpect
  <2>. QED BY <2>2, <2>3, <2>4, <1>a, <1>b, <1>c
<1>4. ASSUME NEW c \in CTA, Deliver(c) PROVE RoleTypes' /\ AnswerTypes' /\ DataTypes'
  <2>1. bar' \in [Barrier -> BarRecord] /\ agent' = agent
    BY <1>4, BarsTyped, BarNames DEF Deliver
  <2>2. request' = [request EXCEPT !.to = @ \ {c}] /\ handle' = [handle EXCEPT ![c] = request.answer]
        /\ given' = given
    BY <1>4 DEF Deliver
  <2>3. AnswerTypes'
    BY <1>0, <2>2, Fixed DEF AnswerTypes
  <2>4. UNCHANGED <<loads, queue, mmaDone, acc, stored>>
    BY <1>4 DEF Deliver
  <2>. QED BY <1>0, <2>1, <2>3, <2>4, <1>a, <1>c
<1>5. ASSUME NEW c \in CTA, Load(c) PROVE RoleTypes' /\ AnswerTypes' /\ DataTypes'
  <2>1. <<"load", c>> \in Agent
    BY <1>0, AgentNames
  <2>2. agent' \in [Agent -> AgentRecord] /\ bar' = bar /\ UNCHANGED <<request, handle, given>>
    BY <1>0, <1>5, <2>1, MovedAgent DEF Load, Place
  <2>3. loads' \in [CTA -> Seq(Answer)]
    <3>1. agent[<<"load", c>>].tile \in Answer
      BY <1>0, <2>1, AgentTyped
    <3>2. loads[c] \in Seq(Answer) /\ loads \in [CTA -> Seq(Answer)]
      BY <1>0 DEF DataTypes
    <3>3. Append(loads[c], agent[<<"load", c>>].tile) \in Seq(Answer)
      BY <3>1, <3>2
    <3>. QED BY <1>5, <3>2, <3>3 DEF Load
  <2>4. UNCHANGED <<queue, mmaDone, acc, stored>>
    BY <1>5 DEF Load
  <2>5. DataTypes'
    BY <1>0, <2>3, <2>4, Fixed DEF DataTypes
  <2>. QED BY <1>0, <2>2, <2>5, <1>a, <1>b
<1>6. ASSUME NEW i \in WG, MmaAcquire(i) PROVE RoleTypes' /\ AnswerTypes' /\ DataTypes'
  <2>1. <<"mma", i>> \in Agent
    BY <1>0, AgentNames
  <2>2. agent' \in [Agent -> AgentRecord] /\ bar' = bar
    BY <1>0, <1>6, <2>1, MovedAgent DEF MmaAcquire, Place
  <2>3. UNCHANGED <<request, handle, given, loads, queue, mmaDone, acc, stored>>
    BY <1>6 DEF MmaAcquire
  <2>. QED BY <1>0, <2>2, <2>3, <1>a, <1>b, <1>c
<1>7. ASSUME NEW i \in WG, MmaIssue(i) PROVE RoleTypes' /\ AnswerTypes' /\ DataTypes'
  <2>. DEFINE s == SlotOf(i, Uses(<<"mma", i>>))
  <2>1. agent' \in [Agent -> AgentRecord]
    BY <1>7, IssueAgent
  <2>2. UNCHANGED <<bar, request, handle, given, loads, mmaDone, stored>>
    BY <1>7 DEF MmaIssue
  <2>3. s \in Slot
    BY <1>0, AgentNames, AgentTyped, SlotTypes
  <2>4. acc' = [acc EXCEPT ![s] = Partial] /\ queue' = [queue EXCEPT ![i] = Append(@, s)]
    BY <1>7 DEF MmaIssue, Uses
  <2>. HIDE DEF s
  <2>5. acc' = [t \in Slot |-> acc'[t]]
    BY <1>0, <2>4 DEF DataTypes
  <2>6. queue[i] \in Seq(Slot)
    BY <1>0 DEF DataTypes
  <2>7. Append(queue[i], s) \in Seq(Slot)
    BY <2>3, <2>6
  <2>8. DataTypes'
    BY <1>0, <2>2, <2>4, <2>5, <2>7, Fixed DEF DataTypes
  <2>. QED BY <1>0, <2>1, <2>2, <2>8, <1>a, <1>b
<1>8. ASSUME NEW i \in WG, TensorDone(i) PROVE RoleTypes' /\ AnswerTypes' /\ DataTypes'
  <2>1. UNCHANGED <<agent, request, handle, given, loads, stored>>
    BY <1>8 DEF TensorDone
  <2>2. bar' \in [Barrier -> BarRecord]
    <3>1. \A b \in Barrier : Arrive(bar[b]) \in BarRecord /\ bar[b] \in BarRecord
      BY <1>0, BarTypes
    <3>. QED BY <1>8, <3>1 DEF TensorDone
  <2>3. DataTypes'
    <3>1. mmaDone[i] \in Nat /\ queue[i] \in Seq(Slot) /\ queue[i] # <<>>
      BY <1>0, <1>8 DEF DataTypes, TensorDone
    <3>2. Head(queue[i]) \in Slot /\ Tail(queue[i]) \in Seq(Slot)
      BY <3>1, HeadTailProperties
    <3>3. mmaDone' \in [WG -> Nat] /\ queue' \in [WG -> Seq(Slot)]
      BY <1>0, <1>8, <3>1, <3>2 DEF TensorDone, DataTypes
    <3>4. acc' = [t \in Slot |-> acc'[t]]
      BY <1>0, <1>8 DEF TensorDone, DataTypes
    <3>. QED BY <1>0, <2>1, <3>3, <3>4, Fixed DEF DataTypes
  <2>. QED BY <1>0, <2>1, <2>2, <2>3, <1>a, <1>b
<1>9. ASSUME NEW c \in CTA, NEW i \in WG, ConsumerWait(c, i) PROVE RoleTypes' /\ AnswerTypes' /\ DataTypes'
  <2>1. <<"con", c, i>> \in Agent
    BY <1>0, AgentNames
  <2>2. agent' \in [Agent -> AgentRecord] /\ bar' = bar
    BY <1>0, <1>9, <2>1, MovedAgent DEF ConsumerWait, Place
  <2>3. UNCHANGED <<request, handle, given, loads, queue, mmaDone, acc, stored>>
    BY <1>9 DEF ConsumerWait
  <2>. QED BY <1>0, <2>2, <2>3, <1>a, <1>b, <1>c
<1>10. ASSUME NEW c \in CTA, NEW i \in WG, Writeback(c, i) PROVE RoleTypes' /\ AnswerTypes' /\ DataTypes'
  <2>1. agent' \in [Agent -> AgentRecord]
    BY <1>10, WritebackAgent
  <2>2. <<"con", c, i>> \in Agent
    BY <1>0, AgentNames
  <2>3. bar' \in [Barrier -> BarRecord]
    <3>. DEFINE s == SlotOf(i, agent[<<"con", c, i>>].uses)
    <3>1. s \in Slot
      BY <1>0, <2>2, AgentTyped, SlotTypes DEF Uses
    <3>2. bar' = [bar EXCEPT ![TEMPTY(s)] = Arrive(@)]
      BY <1>10 DEF Writeback
    <3>. HIDE DEF s
    <3>. QED BY <3>1, <3>2, BarsTyped, BarNames
  <2>4. UNCHANGED <<request, handle, given, loads, queue, mmaDone, acc>>
    BY <1>10 DEF Writeback
  <2>5. stored' = stored \cup {<<c, i, agent[<<"con", c, i>>].tile>>} /\ agent[<<"con", c, i>>].tile \in Answer
    BY <1>0, <1>10, <2>2, AgentTyped DEF Writeback
  <2>6. DataTypes'
    BY <1>0, <2>4, <2>5, Fixed DEF DataTypes
  <2>. QED BY <1>0, <2>1, <2>3, <2>4, <2>6, <1>a, <1>b
<1>11. ASSUME NEW c \in CTA, Teardown(c) PROVE RoleTypes' /\ AnswerTypes' /\ DataTypes'
  <2>1. <<"con", c, 0>> \in Agent /\ BYE(PeerOf(c)) \in Barrier
    BY <1>0, AgentNames, Sizes, BarNames DEF PeerOf
  <2>2. agent' \in [Agent -> AgentRecord]
    BY <1>0, <1>11, <2>1, MovedAgent DEF Teardown, SayBye, WaitBye, Dealloc, Place
  <2>3. bar' \in [Barrier -> BarRecord]
    BY <1>0, <1>11, <2>1, BarsTyped DEF Teardown, SayBye, WaitBye, Dealloc
  <2>4. UNCHANGED <<request, handle, given, loads, queue, mmaDone, acc, stored>>
    BY <1>11 DEF Teardown, SayBye, WaitBye, Dealloc
  <2>. QED BY <2>2, <2>3, <2>4, <1>a, <1>b, <1>c
<1>12. CASE ClusterSync
  <2>1. agent' \in [Agent -> AgentRecord]
    BY <1>12, SyncAgents
  <2>2. UNCHANGED <<bar, request, handle, given, loads, queue, mmaDone, acc, stored>>
    BY <1>12 DEF ClusterSync
  <2>. QED BY <1>0, <2>1, <2>2, <1>a, <1>b, <1>c
<1>. QED
  BY <1>1, <1>2, <1>3, <1>4, <1>5, <1>6, <1>7, <1>8, <1>9, <1>10, <1>11, <1>12
  DEF Step, Sched, Mma, Consumer

----------------------------------------------------------------------------
(* Lanes.                                                                    *)
LEMMA LanePlaces ==
  ASSUME kernel \in Kernels
  PROVE  /\ PlacesOf(<<"sched", 0>>) = {"cancel", "expect", "decode", "sync", "left"}
         /\ PlacesOf(<<"sched", 1>>) = {"expect", "decode", "sync", "left"}
         /\ \A c \in CTA : PlacesOf(<<"load", c>>) = {"load", "decode", "sync", "left"}
         /\ \A i \in WG : PlacesOf(<<"mma", i>>) = {"decode", "acquire", "issue", "sync", "left"}
         /\ \A c \in CTA, i \in WG : PlacesOf(<<"con", c, i>>) = {"decode", "wait", "read"} \cup Over
BY AgentApart, Kinds DEF PlacesOf

LEMMA DecodedPlaces ==
  ASSUME kernel \in Kernels, NEW answer
  PROVE  /\ Decoded(<<"sched", 0>>, answer) = IF answer = Drained THEN End ELSE "cancel"
         /\ Decoded(<<"sched", 1>>, answer) = IF answer = Drained THEN End ELSE "expect"
         /\ \A c \in CTA : Decoded(<<"load", c>>, answer) = IF answer = Drained THEN End ELSE "load"
         /\ \A i \in WG : Decoded(<<"mma", i>>, answer) = "acquire"
         /\ \A c \in CTA, i \in WG : Decoded(<<"con", c, i>>, answer) = "wait"
BY AgentApart, Kinds DEF Decoded, GoesOn

LEMMA LaneKept ==
  ASSUME NEW a, agent'[a] = agent[a], LaneInv(a)
  PROVE  LaneInv(a)'
BY DEF LaneInv, At, Uses, Seen, PlacesOf, Over

LEMMA LaneStep ==
  ASSUME ClusterTypes, \A a \in Agent : LaneInv(a), Step, kernel' = kernel
  PROVE  \A a \in Agent : LaneInv(a)'
<1>0. kernel \in Kernels /\ RoleTypes
  BY DEF ClusterTypes, RoleTypes
<1>a. ASSUME NEW x \in Agent, LaneInv(x)', \A a \in Agent \ {x} : agent'[a] = agent[a]
      PROVE  \A a \in Agent : LaneInv(a)'
  BY <1>a, LaneKept
<1>m. ASSUME NEW x \in Agent, NEW p \in Place, agent' = Moved(x, p), p \in PlacesOf(x),
             x[1] = "mma" => (At(x) \in {"acquire", "issue"} <=> p \in {"acquire", "issue"}),
             x[1] = "con" => (At(x) \in {"wait", "read"} <=> p \in {"wait", "read"})
      PROVE  \A a \in Agent : LaneInv(a)'
  <2>1. /\ At(x)' = p /\ Seen(x)' = Seen(x) /\ Uses(x)' = Uses(x)
        /\ \A a \in Agent \ {x} : agent'[a] = agent[a]
    BY <1>0, <1>m, MovedAgent
  <2>2. LaneInv(x)
    OBVIOUS
  <2>3. LaneInv(x)'
    BY <1>m, <2>1, <2>2 DEF LaneInv, PlacesOf, Over
  <2>. QED BY <1>a, <2>1, <2>3
<1>1. ASSUME NEW x \in Agent, Consume(x) PROVE \A a \in Agent : LaneInv(a)'
  <2>. DEFINE answer == handle[CtaOf(x)]
  <2>1. /\ At(x) = "decode" /\ At(x)' = Decoded(x, answer) /\ Seen(x)' = Seen(x) + 1
        /\ Uses(x)' = Uses(x) /\ \A a \in Agent \ {x} : agent'[a] = agent[a]
    BY <1>1, ConsumeAgent
  <2>. HIDE DEF answer
  <2>2. Seen(x) \in Nat /\ Uses(x) \in Nat
    BY <1>0, AgentTyped
  <2>3. LaneInv(x)
    OBVIOUS
  <2>4. End \in {"left", "sync"}
    BY DEF End
  <2>5. Decoded(x, answer) \in PlacesOf(x)
    BY <1>0, <2>4, AgentNames, LanePlaces, DecodedPlaces, Sizes
  <2>6. x[1] = "mma" => Decoded(x, answer) = "acquire"
    <3>1. x[1] = "mma" => \E i \in WG : x = <<"mma", i>>
      BY <1>0, KindOf
    <3>2. \A i \in WG : Decoded(<<"mma", i>>, answer) = "acquire"
      BY <1>0, DecodedPlaces
    <3>. QED BY <3>1, <3>2
  <2>7. x[1] = "con" => Decoded(x, answer) = "wait"
    <3>1. x[1] = "con" => \E c \in CTA, i \in WG : x = <<"con", c, i>>
      BY <1>0, KindOf
    <3>2. \A c \in CTA, i \in WG : Decoded(<<"con", c, i>>, answer) = "wait"
      BY <1>0, DecodedPlaces
    <3>. QED BY <3>1, <3>2
  <2>8. LaneInv(x)'
    BY <2>1, <2>2, <2>3, <2>5, <2>6, <2>7 DEF LaneInv, PlacesOf, Over
  <2>. QED BY <1>a, <2>1, <2>8
<1>2. CASE Cancel
  <2>1. agent' = Moved(<<"sched", 0>>, "expect") /\ <<"sched", 0>> \in Agent
    BY <1>0, <1>2, AgentNames, Sizes DEF Cancel
  <2>. QED BY <1>0, <1>m, <2>1, LanePlaces, Kinds DEF Place
<1>3. ASSUME NEW c \in CTA, SchedExpect(c) PROVE \A a \in Agent : LaneInv(a)'
  <2>1. agent' = Moved(<<"sched", c>>, "decode") /\ <<"sched", c>> \in Agent /\ c \in {0, 1}
    BY <1>0, <1>3, AgentNames, Sizes DEF SchedExpect
  <2>. QED BY <1>0, <1>m, <2>1, LanePlaces, Kinds DEF Place
<1>4. ASSUME UNCHANGED agent PROVE \A a \in Agent : LaneInv(a)'
  BY <1>4, LaneKept
<1>5. ASSUME NEW c \in CTA, Load(c) PROVE \A a \in Agent : LaneInv(a)'
  <2>1. agent' = Moved(<<"load", c>>, "decode") /\ <<"load", c>> \in Agent
    BY <1>0, <1>5, AgentNames DEF Load
  <2>. QED BY <1>0, <1>m, <2>1, LanePlaces, Kinds DEF Place
<1>6. ASSUME NEW i \in WG, MmaAcquire(i) PROVE \A a \in Agent : LaneInv(a)'
  <2>1. agent' = Moved(<<"mma", i>>, "issue") /\ <<"mma", i>> \in Agent /\ At(<<"mma", i>>) = "acquire"
    BY <1>0, <1>6, AgentNames DEF MmaAcquire, At
  <2>. QED BY <1>0, <1>m, <2>1, LanePlaces, Kinds DEF Place
<1>7. ASSUME NEW i \in WG, MmaIssue(i) PROVE \A a \in Agent : LaneInv(a)'
  <2>. DEFINE x == <<"mma", i>>
  <2>1. /\ x \in Agent /\ At(x) = "issue" /\ At(x)' \in {"left", "sync", "decode"}
        /\ Seen(x)' = Seen(x) /\ Uses(x)' = Uses(x) + 1
        /\ \A a \in Agent \ {x} : agent'[a] = agent[a]
    BY <1>7, IssueAgent DEF End
  <2>2. Seen(x) \in Nat /\ Uses(x) \in Nat /\ LaneInv(x)
    BY <1>0, <2>1, AgentTyped
  <2>3. x[1] = "mma"
    OBVIOUS
  <2>4. PlacesOf(x)' = {"decode", "acquire", "issue", "sync", "left"}
    BY AgentApart, Kinds DEF PlacesOf
  <2>5. LaneInv(x)'
    BY <2>1, <2>2, <2>3, <2>4 DEF LaneInv
  <2>. QED BY <1>a, <2>1, <2>5
<1>8. ASSUME NEW c \in CTA, NEW i \in WG, ConsumerWait(c, i) PROVE \A a \in Agent : LaneInv(a)'
  <2>1. agent' = Moved(<<"con", c, i>>, "read") /\ <<"con", c, i>> \in Agent
        /\ At(<<"con", c, i>>) = "wait"
    BY <1>0, <1>8, AgentNames DEF ConsumerWait, At
  <2>. QED BY <1>0, <1>m, <2>1, LanePlaces, Kinds DEF Place
<1>9. ASSUME NEW c \in CTA, NEW i \in WG, Writeback(c, i) PROVE \A a \in Agent : LaneInv(a)'
  <2>. DEFINE x == <<"con", c, i>>
  <2>1. /\ x \in Agent /\ At(x) = "read" /\ At(x)' \in {"bye", "sync", "decode"}
        /\ Seen(x)' = Seen(x) /\ Uses(x)' = Uses(x) + 1
        /\ \A a \in Agent \ {x} : agent'[a] = agent[a]
    BY <1>9, WritebackAgent
  <2>2. Seen(x) \in Nat /\ Uses(x) \in Nat /\ LaneInv(x)
    BY <1>0, <2>1, AgentTyped
  <2>3. x[1] = "con"
    OBVIOUS
  <2>4. PlacesOf(x)' = {"decode", "wait", "read"} \cup Over
    BY AgentApart, Kinds DEF PlacesOf
  <2>5. LaneInv(x)'
    BY <2>1, <2>2, <2>3, <2>4 DEF LaneInv, Over
  <2>. QED BY <1>a, <2>1, <2>5
<1>10. ASSUME NEW c \in CTA, Teardown(c) PROVE \A a \in Agent : LaneInv(a)'
  <2>1. <<"con", c, 0>> \in Agent /\ At(<<"con", c, 0>>) \in Over
    BY <1>0, <1>10, AgentNames, Sizes DEF Teardown, SayBye, WaitBye, Dealloc, At, Over
  <2>2. \E p \in {"byewait", "free", "left"} : agent' = Moved(<<"con", c, 0>>, p)
    BY <1>10 DEF Teardown, SayBye, WaitBye, Dealloc
  <2>. QED BY <1>0, <1>m, <2>1, <2>2, LanePlaces, Kinds, Sizes DEF Place, Over
<1>11. CASE ClusterSync
  <2>1. ASSUME NEW a \in Agent PROVE LaneInv(a)'
    <3>1. /\ At(a) = "sync" /\ At(a)' = IF a[1] = "con" /\ a[3] = 0 THEN "free" ELSE "left"
          /\ Seen(a)' = Seen(a) /\ Uses(a)' = Uses(a) /\ LaneInv(a)
      BY <1>11, <2>1, SyncAgents
    <3>2. At(a)' \in PlacesOf(a)
      BY <1>0, <3>1, AgentNames, LanePlaces, Kinds, Sizes DEF Over
    <3>. QED BY <3>1, <3>2 DEF LaneInv, PlacesOf, Over
  <2>. QED BY <2>1
<1>12. CASE \E c \in CTA : Deliver(c)
  BY <1>4, <1>12 DEF Deliver
<1>13. CASE \E i \in WG : TensorDone(i)
  BY <1>4, <1>13 DEF TensorDone
<1>. QED
  BY <1>1, <1>2, <1>3, <1>5, <1>6, <1>7, <1>8, <1>9, <1>10, <1>11, <1>12, <1>13
  DEF Step, Sched, Mma, Consumer

----------------------------------------------------------------------------
(* Rounds.                                                                   *)
LEMMA RoundFacts ==
  ASSUME ClusterTypes, RoundInv
  PROVE  /\ Rounds \in Int /\ <<"sched", 0>> \in Agent
         /\ \A a \in Agent : Seen(a) \in Nat
         /\ Issued \in {Rounds, Rounds + 1} /\ Issued \in Nat
         /\ \A c \in CTA :
              /\ <<"sched", c>> \in Agent
              /\ Expected(c) \in {Seen(<<"sched", c>>), Seen(<<"sched", c>>) + 1}
              /\ Delivered(c) \in {Issued - 1, Issued}
              /\ (c \notin request.to <=> Delivered(c) = Issued)
<1>1. kernel \in Kernels /\ RoleTypes /\ FIN \in Barrier
  BY BarNames DEF ClusterTypes, RoleTypes
<1>2. Rounds \in Int
  BY <1>1 DEF Rounds, RoleTypes, BarRecord
<1>3. \A c \in CTA : <<"sched", c>> \in Agent
  BY <1>1, AgentNames
<1>4. <<"sched", 0>> \in Agent
  BY <1>1, <1>3, Sizes
<1>5. \A a \in Agent : Seen(a) \in Nat
  BY <1>1, AgentTyped
<1>6. Issued \in {Rounds, Rounds + 1} /\ Issued \in Nat
  <2>1. /\ Seen(<<"sched", 0>>) \in {Rounds, Rounds + 1} /\ Seen(<<"sched", 0>>) \in Nat
        /\ At(<<"sched", 0>>) \in {"expect", "decode"} => Seen(<<"sched", 0>>) = Rounds
    BY <1>4, <1>5 DEF RoundInv, FinInv
  <2>. QED BY <1>2, <2>1 DEF Issued
<1>7. ASSUME NEW c \in CTA
      PROVE  /\ Expected(c) \in {Seen(<<"sched", c>>), Seen(<<"sched", c>>) + 1}
             /\ Delivered(c) \in {Issued - 1, Issued}
             /\ (c \notin request.to <=> Delivered(c) = Issued)
  <2>1. Seen(<<"sched", c>>) \in Nat
    BY <1>3, <1>5
  <2>. QED BY <1>6, <2>1 DEF Expected, Delivered
<1>. QED BY <1>2, <1>3, <1>4, <1>5, <1>6, <1>7

(* Who finds an answer announced and delivered is behind, it is the answer   *)
(* of this round, and it lies in that CTA.                                  *)
LEMMA Answered ==
  ASSUME ClusterTypes, RoundInv, NEW a \in Agent, Passed(bar[ARR(CtaOf(a))], Seen(a))
  PROVE  LET c == CtaOf(a) IN
         /\ Seen(a) = Rounds /\ a \notin Ahead /\ Issued = Rounds + 1
         /\ c \notin request.to /\ Delivered(c) = Issued /\ bar[ARR(c)].turn = Rounds + 1
<1>. DEFINE c == CtaOf(a)
            E == Expected(c)
            D == Delivered(c)
            t == bar[ARR(c)].turn
<1>1. c \in CTA
  BY Ctas DEF ClusterTypes, RoleTypes
<1>2. /\ E \in Int /\ D \in Int /\ D <= Issued /\ Issued \in Int /\ Issued <= Rounds + 1 /\ Rounds \in Int
      /\ (c \notin request.to <=> D = Issued) /\ Seen(a) \in Nat
  <2>1. /\ Rounds \in Int /\ Seen(a) \in Nat /\ Issued \in {Rounds, Rounds + 1}
        /\ <<"sched", c>> \in Agent /\ (c \notin request.to <=> D = Issued)
        /\ E \in {Seen(<<"sched", c>>), Seen(<<"sched", c>>) + 1} /\ D \in {Issued - 1, Issued}
    BY <1>1, RoundFacts
  <2>2. Seen(<<"sched", c>>) \in Nat
    BY <2>1, RoundFacts
  <2>. QED BY <2>1, <2>2
<1>3. bar[ARR(c)] = Bar(IF E > D THEN D ELSE E, IF E > D THEN 0 ELSE 1, E - D, 1)
  BY <1>1 DEF RoundInv, ArrInv
<1>4. Seen(a) <= t /\ Seen(a) \in {Rounds, Rounds + 1}
  BY <1>1 DEF RoundInv, ArrInv, FinInv
<1>. HIDE DEF E, D
<1>5. t = (IF E > D THEN D ELSE E) /\ t % 2 # Seen(a) % 2
  <2>1. t = (IF E > D THEN D ELSE E)
    BY <1>3 DEF Bar
  <2>. QED BY <2>1 DEF Passed
<1>. HIDE DEF t
<1>6. t \in Int /\ t <= D
  BY <1>2, <1>5
<1>7. t \in {Seen(a), Seen(a) + 1}
  BY <1>2, <1>4, <1>6
<1>8. t = Seen(a) + 1
  BY <1>2, <1>5, <1>6, <1>7, Parity
<1>9. Seen(a) = Rounds /\ t = Rounds + 1 /\ D = Issued /\ Issued = Rounds + 1
  BY <1>2, <1>4, <1>6, <1>8
<1>10. a \notin Ahead
  BY <1>2, <1>9 DEF Ahead
<1>. QED BY <1>2, <1>9, <1>10 DEF D, t

(* The next tile is asked for when all have decoded the last answer.         *)
LEMMA AllAnswered ==
  ASSUME ClusterTypes, RoundInv, Cancel
  PROVE  /\ Seen(<<"sched", 0>>) = Rounds /\ Issued = Rounds /\ request.to = {}
         /\ \A c \in CTA : Delivered(c) = Issued
<1>. DEFINE a == <<"sched", 0>>
<1>1. At(a) = "cancel" /\ Passed(bar[FIN], Seen(a) - 1)
  BY DEF Cancel, At, Seen
<1>2. a \in Agent /\ Seen(a) \in Nat /\ Seen(a) \in {Rounds, Rounds + 1} /\ Rounds \in Int
  BY RoundFacts DEF RoundInv, FinInv
<1>3. Rounds % 2 # (Seen(a) - 1) % 2
  BY <1>1 DEF Passed, Rounds
<1>4. Rounds \in {Seen(a) - 1, (Seen(a) - 1) + 1}
  BY <1>2
<1>5. Rounds = (Seen(a) - 1) + 1
  BY <1>2, <1>3, <1>4, Parity
<1>6. Seen(a) = Rounds /\ Issued = Rounds
  BY <1>1, <1>2, <1>5 DEF Issued
<1>7. ASSUME NEW c \in CTA PROVE c \notin request.to
  <2>1. /\ Seen(<<"sched", c>>) \in {Rounds, Rounds + 1} /\ <<"sched", c>> \in Agent
        /\ Delivered(c) \in {Issued - 1, Issued} /\ Expected(c) \in Int
        /\ Seen(<<"sched", c>>) \in Nat
    BY RoundFacts DEF RoundInv, FinInv
  <2>2. CtaOf(<<"sched", c>>) = c
    BY Ctas DEF ClusterTypes, RoleTypes
  <2>3. Seen(<<"sched", c>>) <= bar[ARR(c)].turn
    BY <2>1, <2>2 DEF RoundInv, ArrInv
  <2>4. bar[ARR(c)] = Bar(IF Expected(c) > Delivered(c) THEN Delivered(c) ELSE Expected(c),
                       IF Expected(c) > Delivered(c) THEN 0 ELSE 1,
                       Expected(c) - Delivered(c), 1)
    BY DEF RoundInv, ArrInv
  <2>5. bar[ARR(c)].turn = IF Expected(c) > Delivered(c) THEN Delivered(c) ELSE Expected(c)
    BY <2>4 DEF Bar
  <2>6. Delivered(c) >= Rounds
    BY <1>2, <1>6, <2>1, <2>3, <2>5
  <2>7. Delivered(c) = Issued
    BY <1>2, <1>6, <2>1, <2>6
  <2>. QED BY <2>7, RoundFacts
<1>8. request.to \subseteq CTA
  BY DEF ClusterTypes, AnswerTypes
<1>9. request.to = {}
  BY <1>7, <1>8
<1>10. \A c \in CTA : Delivered(c) = Issued
  BY <1>9, RoundFacts
<1>. QED BY <1>6, <1>9, <1>10

Asking(c) == At(<<"sched", c>>) \in {"expect", "decode"}

(* Steps that decode nothing, ask for nothing and deliver nothing.           *)
LEMMA RoundKept ==
  ASSUME ClusterTypes, RoundInv, kernel' = kernel, \A a \in Agent : Seen(a)' = Seen(a),
         \A c \in CTA : At(<<"sched", c>>)' = At(<<"sched", c>>) \/ ~(Asking(c) \/ Asking(c)'),
         bar'[FIN] = bar[FIN], \A c \in CTA : bar'[ARR(c)] = bar[ARR(c)], request' = request
  PROVE  RoundInv' /\ Issued' = Issued /\ \A d \in CTA : Delivered(d)' = Delivered(d)
<1>1. /\ Agent' = Agent /\ FinishArrivals' = FinishArrivals /\ Rounds' = Rounds /\ 0 \in CTA
      /\ \A c \in CTA : <<"sched", c>> \in Agent
  BY Fixed, AgentNames, Sizes DEF Rounds, FIN, ClusterTypes, RoleTypes
<1>2. Ahead' = Ahead
  BY <1>1 DEF Ahead
<1>3. /\ Issued' = Issued /\ \A c \in CTA : Expected(c)' = Expected(c) /\ Delivered(c)' = Delivered(c)
  <2>1. Issued' = Issued
    BY <1>1 DEF Issued, Asking
  <2>. QED BY <1>1, <2>1 DEF Expected, Delivered, Asking
<1>4. FinInv'
  <2>1. At(<<"sched", 0>>)' \in {"expect", "decode"} => At(<<"sched", 0>>) \in {"expect", "decode"}
    BY <1>1 DEF Asking
  <2>2. bar[FIN]' = bar[FIN]
    BY DEF FIN
  <2>. QED BY <1>1, <1>2, <2>1, <2>2 DEF FinInv, RoundInv
<1>5. ASSUME NEW c \in CTA PROVE ArrInv(c)'
  <2>1. bar[ARR(c)]' = bar[ARR(c)] /\ \A a \in Agent : CtaOf(a)' = CtaOf(a)
    BY DEF ARR, CtaOf
  <2>. QED BY <1>1, <1>3, <2>1 DEF ArrInv, RoundInv
<1>. QED BY <1>3, <1>4, <1>5 DEF RoundInv

LEMMA DeliverRounds ==
  ASSUME ClusterTypes, RoundInv, kernel' = kernel, NEW c \in CTA, Deliver(c)
  PROVE  /\ RoundInv' /\ Issued' = Issued /\ Delivered(c) = Issued - 1 /\ Delivered(c)' = Issued
         /\ \A d \in CTA \ {c} : Delivered(d)' = Delivered(d)
<1>1. /\ Agent' = Agent /\ FinishArrivals' = FinishArrivals /\ agent' = agent /\ kernel \in Kernels
      /\ c \in request.to /\ request' = [request EXCEPT !.to = @ \ {c}]
      /\ bar' = [bar EXCEPT ![ARR(c)] = Landed(@)] /\ bar \in [Barrier -> BarRecord]
      /\ request \in [to : SUBSET CTA, answer : Answer]
  BY Fixed DEF Deliver, ClusterTypes, RoleTypes, AnswerTypes
<1>2. request'.to = request.to \ {c}
  BY <1>1
<1>3. /\ ARR(c) \in Barrier /\ bar'[ARR(c)] = Landed(bar[ARR(c)]) /\ bar'[FIN] = bar[FIN]
      /\ \A d \in CTA \ {c} : bar'[ARR(d)] = bar[ARR(d)]
  BY <1>1, BarNames, BarApart
<1>4. /\ \A a : Seen(a)' = Seen(a) /\ At(a)' = At(a) /\ CtaOf(a)' = CtaOf(a)
      /\ \A d : Expected(d)' = Expected(d) /\ ARR(d)' = ARR(d) /\ bar[ARR(d)]' = bar'[ARR(d)]
      /\ bar[FIN]' = bar[FIN]
  BY <1>1, <1>3 DEF Seen, At, CtaOf, Expected, ARR, FIN
<1>5. Rounds' = Rounds /\ Issued' = Issued
  BY <1>1, <1>3, <1>4 DEF Rounds, Issued
<1>6. \A d \in CTA : Delivered(d)' = IF d = c THEN Issued ELSE Delivered(d)
  <2>1. Issued \in Int
    BY RoundFacts
  <2>. QED BY <1>2, <1>5, <2>1 DEF Delivered
<1>7. Delivered(c) = Issued - 1
  BY <1>1, RoundFacts
<1>8. FinInv'
  <2>1. Ahead' = Ahead
    BY <1>1, <1>4, <1>5 DEF Ahead
  <2>. QED BY <1>1, <1>4, <1>5, <2>1 DEF FinInv, RoundInv
<1>9. ASSUME NEW d \in CTA, d # c PROVE ArrInv(d)'
  <2>1. Delivered(d)' = Delivered(d) /\ bar[ARR(d)]' = bar[ARR(d)]
    BY <1>3, <1>4, <1>6, <1>9
  <2>. QED BY <1>1, <1>4, <2>1 DEF ArrInv, RoundInv
<1>10. ArrInv(c)'
  <2>. DEFINE E == Expected(c)
              D == Delivered(c)
  <2>1. /\ E \in Int /\ D \in Int /\ E >= Rounds /\ Issued \in {Rounds, Rounds + 1} /\ Rounds \in Int
    <3>1. /\ <<"sched", c>> \in Agent /\ Rounds \in Int /\ Issued \in {Rounds, Rounds + 1}
          /\ E \in {Seen(<<"sched", c>>), Seen(<<"sched", c>>) + 1} /\ D \in {Issued - 1, Issued}
      BY RoundFacts
    <3>2. Seen(<<"sched", c>>) \in Nat /\ Seen(<<"sched", c>>) \in {Rounds, Rounds + 1}
      BY <3>1, RoundFacts DEF RoundInv, FinInv
    <3>. QED BY <3>1, <3>2
  <2>2. /\ E - D \in -1 .. 1 /\ bar[ARR(c)] = Bar(IF E > D THEN D ELSE E, IF E > D THEN 0 ELSE 1, E - D, 1)
        /\ \A a \in Agent : CtaOf(a) = c => Seen(a) <= bar[ARR(c)].turn
    BY DEF ArrInv, RoundInv
  <2>3. Expected(c)' = E /\ Delivered(c)' = D + 1
    BY <1>4, <1>6, <1>7, <2>1
  <2>. HIDE DEF E, D
  <2>4. E - (D + 1) \in -1 .. 1
    BY <1>7, <2>1, <2>2 DEF D
  <2>5. CASE E > D
    <3>1. bar[ARR(c)] = Bar(D, 0, 1, 1) /\ E = D + 1
      BY <2>1, <2>2, <2>5
    <3>2. Landed(Bar(D, 0, 1, 1)) = Bar(D + 1, 1, 0, 1)
      BY <2>1, BarSteps
    <3>3. bar[ARR(c)]' = Bar(D + 1, 1, 0, 1)
      BY <1>3, <1>4, <3>1, <3>2
    <3>4. bar[ARR(c)].turn = D /\ bar[ARR(c)]'.turn = D + 1
      BY <3>1, <3>3 DEF Bar
    <3>5. \A a \in Agent : CtaOf(a) = c => Seen(a) <= D + 1
      BY <2>1, <2>2, <3>4, RoundFacts
    <3>6. bar[ARR(c)]' = Bar(IF E > D + 1 THEN D + 1 ELSE E, IF E > D + 1 THEN 0 ELSE 1, E - (D + 1), 1)
      BY <2>1, <3>1, <3>3
    <3>. QED BY <1>1, <1>4, <2>3, <2>4, <3>4, <3>5, <3>6 DEF ArrInv
  <2>6. CASE ~(E > D)
    <3>1. bar[ARR(c)] = Bar(E, 1, E - D, 1)
      BY <2>1, <2>2, <2>6
    <3>2. Landed(Bar(E, 1, E - D, 1)) = Bar(E, 1, E - D - 1, 1)
      BY <2>1, BarSteps
    <3>3. bar[ARR(c)]' = Bar(E, 1, E - (D + 1), 1)
      BY <1>3, <1>4, <2>1, <3>1, <3>2
    <3>4. bar[ARR(c)].turn = E /\ bar[ARR(c)]'.turn = E
      BY <3>1, <3>3 DEF Bar
    <3>5. bar[ARR(c)]' = Bar(IF E > D + 1 THEN D + 1 ELSE E, IF E > D + 1 THEN 0 ELSE 1, E - (D + 1), 1)
      BY <2>1, <2>6, <3>3
    <3>. QED BY <1>1, <1>4, <2>2, <2>3, <2>4, <3>4, <3>5 DEF ArrInv
  <2>. QED BY <2>5, <2>6
<1>11. \A d \in CTA : ArrInv(d)'
  BY <1>9, <1>10
<1>. QED BY <1>5, <1>6, <1>7, <1>8, <1>11 DEF RoundInv

LEMMA ExpectRounds ==
  ASSUME ClusterTypes, RoundInv, kernel' = kernel, NEW c \in CTA, SchedExpect(c)
  PROVE  RoundInv' /\ Issued' = Issued /\ \A d \in CTA : Delivered(d)' = Delivered(d)
<1>. DEFINE x == <<"sched", c>>
<1>0. x \in Agent /\ RoleTypes /\ kernel \in Kernels /\ c \in {0, 1}
  BY AgentNames, Sizes DEF ClusterTypes, RoleTypes
<1>1. /\ Agent' = Agent /\ FinishArrivals' = FinishArrivals /\ request' = request
      /\ bar' = [bar EXCEPT ![ARR(c)] = ArriveExpect(@, 1)] /\ bar \in [Barrier -> BarRecord]
      /\ agent' = Moved(x, "decode") /\ At(x) = "expect"
  BY <1>0, Fixed DEF SchedExpect, RoleTypes, At
<1>2. /\ At(x)' = "decode" /\ Seen(x)' = Seen(x)
      /\ \A a \in Agent \ {x} : agent'[a] = agent[a]
  BY <1>0, <1>1, MovedAgent DEF Place
<1>3. /\ ARR(c) \in Barrier /\ bar'[ARR(c)] = ArriveExpect(bar[ARR(c)], 1) /\ bar'[FIN] = bar[FIN]
      /\ \A d \in CTA \ {c} : bar'[ARR(d)] = bar[ARR(d)]
  BY <1>1, BarNames, BarApart
<1>4. /\ \A a \in Agent : Seen(a)' = Seen(a)
      /\ \A a : CtaOf(a)' = CtaOf(a)
      /\ \A d : bar[ARR(d)]' = bar'[ARR(d)]
      /\ bar[FIN]' = bar[FIN]
  BY <1>2, <1>3 DEF Seen, CtaOf, ARR, FIN
<1>5. <<"sched", 0>> \in Agent /\ Rounds \in Int /\ \A d \in CTA : <<"sched", d>> \in Agent
  BY RoundFacts
<1>6. At(<<"sched", 0>>)' \in {"expect", "decode"} <=> At(<<"sched", 0>>) \in {"expect", "decode"}
  BY <1>1, <1>2, <1>5 DEF At
<1>7. Rounds' = Rounds /\ Issued' = Issued
  BY <1>1, <1>3, <1>4, <1>5, <1>6 DEF Rounds, Issued
<1>8. \A d \in CTA : Delivered(d)' = Delivered(d)
  BY <1>1, <1>7 DEF Delivered
<1>9. ASSUME NEW d \in CTA, d # c PROVE Expected(d)' = Expected(d)
  <2>1. <<"sched", d>> \in Agent \ {x}
    BY <1>5, <1>9, AgentApart
  <2>. QED BY <1>2, <2>1 DEF Expected, Seen, At
<1>10. FinInv'
  <2>1. Ahead' = Ahead
    BY <1>1, <1>4, <1>7 DEF Ahead
  <2>. QED BY <1>1, <1>4, <1>5, <1>6, <1>7, <2>1 DEF FinInv, RoundInv
<1>11. ASSUME NEW d \in CTA, d # c PROVE ArrInv(d)'
  <2>1. Delivered(d)' = Delivered(d) /\ bar[ARR(d)]' = bar[ARR(d)] /\ Expected(d)' = Expected(d)
    BY <1>3, <1>4, <1>8, <1>9, <1>11
  <2>. QED BY <1>1, <1>4, <2>1 DEF ArrInv, RoundInv
<1>12. ArrInv(c)'
  <2>. DEFINE E == Expected(c)
              D == Delivered(c)
  <2>1. E \in Int /\ D \in Int /\ Seen(x) = E /\ E \in Nat
    <3>1. Issued \in Int /\ D \in {Issued - 1, Issued} /\ Seen(x) \in Nat
      BY <1>0, RoundFacts
    <3>2. E = Seen(x) + 0
      BY <1>1 DEF Expected
    <3>. QED BY <3>1, <3>2
  <2>2. /\ E - D \in -1 .. 1 /\ bar[ARR(c)] = Bar(IF E > D THEN D ELSE E, IF E > D THEN 0 ELSE 1, E - D, 1)
        /\ \A a \in Agent : CtaOf(a) = c => Seen(a) <= bar[ARR(c)].turn
    BY DEF ArrInv, RoundInv
  <2>3. CtaOf(x) = c
    BY <1>0, Ctas
  <2>4. Expected(c)' = E + 1 /\ Delivered(c)' = D
    <3>1. Expected(c) = Seen(x) + 0 /\ Expected(c)' = Seen(x)' + 1
      BY <1>1, <1>2 DEF Expected
    <3>. QED BY <1>2, <1>8, <2>1, <3>1
  <2>. HIDE DEF E, D
  <2>5. ~(E > D)
    <3>1. SUFFICES ASSUME E > D PROVE FALSE
      OBVIOUS
    <3>2. bar[ARR(c)].turn = D
      BY <2>2, <3>1 DEF Bar
    <3>3. Seen(x) <= D
      BY <1>0, <2>2, <2>3, <3>2
    <3>. QED BY <2>1, <3>1, <3>3
  <2>6. bar[ARR(c)] = Bar(E, 1, E - D, 1) /\ bar[ARR(c)].turn = E /\ E - D \in {-1, 0}
    <3>1. bar[ARR(c)] = Bar(E, 1, E - D, 1) /\ E - D \in {-1, 0}
      BY <2>1, <2>2, <2>5
    <3>. QED BY <3>1 DEF Bar
  <2>7. ArriveExpect(Bar(E, 1, E - D, 1), 1) =
          IF E - D = -1 THEN Bar(E + 1, 1, 0, 1) ELSE Bar(E, 0, E - D + 1, 1)
    BY <2>1, BarExpects
  <2>8. bar[ARR(c)]' = IF E - D = -1 THEN Bar(E + 1, 1, 0, 1) ELSE Bar(E, 0, 1, 1)
    BY <1>3, <1>4, <2>1, <2>6, <2>7
  <2>9. bar[ARR(c)]'.turn \in {E, E + 1}
    BY <2>8 DEF Bar
  <2>10. \A a \in Agent : CtaOf(a) = c => Seen(a) <= bar[ARR(c)]'.turn
    BY <2>1, <2>2, <2>6, <2>9, RoundFacts
  <2>11. bar[ARR(c)]' = Bar(IF E + 1 > D THEN D ELSE E + 1, IF E + 1 > D THEN 0 ELSE 1, (E + 1) - D, 1)
    <3>1. CASE E - D = -1
      BY <2>1, <2>8, <3>1
    <3>2. CASE E - D = 0
      BY <2>1, <2>8, <3>2
    <3>. QED BY <2>6, <3>1, <3>2
  <2>12. (E + 1) - D \in -1 .. 1
    BY <2>1, <2>6
  <2>. QED BY <1>1, <1>4, <2>4, <2>10, <2>11, <2>12 DEF ArrInv
<1>13. \A d \in CTA : ArrInv(d)'
  BY <1>11, <1>12
<1>. QED BY <1>7, <1>8, <1>10, <1>13 DEF RoundInv

LEMMA CancelRounds ==
  ASSUME ClusterTypes, RoundInv, kernel' = kernel, Cancel
  PROVE  RoundInv' /\ Issued' = Issued + 1 /\ \A c \in CTA : Delivered(c)' = Delivered(c)
<1>. DEFINE x == <<"sched", 0>>
<1>0. x \in Agent /\ RoleTypes /\ kernel \in Kernels /\ CTA = {0, 1} /\ \A c \in CTA : <<"sched", c>> \in Agent
  BY AgentNames, Sizes DEF ClusterTypes, RoleTypes
<1>1. /\ Agent' = Agent /\ FinishArrivals' = FinishArrivals /\ request'.to = CTA /\ bar' = bar
      /\ agent' = Moved(x, "expect") /\ At(x) = "cancel"
  BY <1>0, Fixed DEF Cancel, At
<1>2. /\ At(x)' = "expect" /\ Seen(x)' = Seen(x)
      /\ \A a \in Agent \ {x} : agent'[a] = agent[a]
  BY <1>0, <1>1, MovedAgent DEF Place
<1>3. /\ \A a \in Agent : Seen(a)' = Seen(a) /\ CtaOf(a)' = CtaOf(a)
      /\ \A d : bar[ARR(d)]' = bar[ARR(d)]
      /\ bar[FIN]' = bar[FIN] /\ Rounds' = Rounds
  BY <1>1, <1>2 DEF Seen, CtaOf, ARR, FIN, Rounds
<1>4. /\ Seen(x) = Rounds /\ Issued = Rounds /\ Rounds \in Int
      /\ \A c \in CTA : Delivered(c) = Issued
  BY AllAnswered, RoundFacts
<1>5. Issued' = Issued + 1
  BY <1>2, <1>4 DEF Issued
<1>6. \A c \in CTA : Delivered(c)' = Delivered(c)
  BY <1>1, <1>4, <1>5 DEF Delivered
<1>7. ASSUME NEW c \in CTA PROVE Expected(c)' = Expected(c)
  <2>1. CASE c = 0
    BY <1>1, <1>2, <2>1 DEF Expected
  <2>2. CASE c # 0
    <3>1. <<"sched", c>> \in Agent \ {x}
      BY <1>0, <2>2, AgentApart
    <3>. QED BY <1>2, <3>1 DEF Expected, Seen, At
  <2>. QED BY <2>1, <2>2
<1>8. FinInv'
  <2>1. Ahead' = Ahead
    BY <1>1, <1>3 DEF Ahead
  <2>. QED BY <1>0, <1>1, <1>2, <1>3, <1>4, <2>1 DEF FinInv, RoundInv
<1>9. \A c \in CTA : ArrInv(c)'
  BY <1>1, <1>3, <1>6, <1>7 DEF ArrInv, RoundInv
<1>. QED BY <1>5, <1>6, <1>8, <1>9 DEF RoundInv

LEMMA ConsumeRounds ==
  ASSUME ClusterTypes, RoundInv, \A x \in Agent : LaneInv(x), kernel' = kernel,
         NEW a \in Agent, Consume(a)
  PROVE  RoundInv' /\ Issued' = Issued /\ \A d \in CTA : Delivered(d)' = Delivered(d)
<1>. DEFINE answer == handle[CtaOf(a)]
<1>0. /\ kernel \in Kernels /\ RoleTypes /\ CtaOf(a) \in CTA /\ CTA = {0, 1}
      /\ \A c \in CTA : <<"sched", c>> \in Agent
  BY AgentNames, Sizes, Ctas DEF ClusterTypes, RoleTypes
<1>1. /\ At(a) = "decode" /\ Passed(bar[ARR(CtaOf(a))], Seen(a))
      /\ At(a)' = Decoded(a, answer) /\ Seen(a)' = Seen(a) + 1
      /\ \A x \in Agent \ {a} : agent'[x] = agent[x]
  BY ConsumeAgent
<1>. HIDE DEF answer
<1>2. /\ Agent' = Agent /\ FinishArrivals' = FinishArrivals /\ request' = request
      /\ bar' = [bar EXCEPT ![FIN] = Arrive(@)] /\ bar \in [Barrier -> BarRecord]
  BY <1>0, Fixed DEF Consume, RoleTypes
<1>3. bar'[FIN] = Arrive(bar[FIN]) /\ \A c \in CTA : bar'[ARR(c)] = bar[ARR(c)]
  BY <1>2, BarNames, BarApart
<1>4. /\ \A x \in Agent \ {a} : Seen(x)' = Seen(x) /\ At(x)' = At(x)
      /\ \A x : CtaOf(x)' = CtaOf(x)
      /\ \A d \in CTA : bar[ARR(d)]' = bar[ARR(d)]
      /\ bar[FIN]' = Arrive(bar[FIN])
  BY <1>1, <1>3 DEF Seen, At, CtaOf, ARR, FIN
<1>5. /\ Seen(a) = Rounds /\ a \notin Ahead /\ Issued = Rounds + 1 /\ bar[ARR(CtaOf(a))].turn = Rounds + 1
      /\ Rounds \in Int
  BY <1>1, Answered, RoundFacts
<1>6. ASSUME NEW c \in CTA, a = <<"sched", c>>
      PROVE  At(a)' # "decode" /\ (c = 0 => At(a)' # "expect")
  <2>1. c \in {0, 1} /\ End \in {"left", "sync"}
    BY <1>0 DEF End
  <2>2. Decoded(a, answer) \in {"cancel", "expect", "left", "sync"} /\ (c = 0 => Decoded(a, answer) # "expect")
    BY <1>0, <1>6, <2>1, DecodedPlaces
  <2>. QED BY <1>1, <2>2
<1>7. ASSUME NEW c \in CTA PROVE Expected(c)' = Expected(c)
  <2>1. CASE a = <<"sched", c>>
    <3>1. Expected(c) = Seen(a) + 1 /\ Expected(c)' = Seen(a)' + 0
      BY <1>1, <1>6, <2>1 DEF Expected
    <3>. QED BY <1>1, <1>5, <3>1
  <2>2. CASE a # <<"sched", c>>
    <3>1. <<"sched", c>> \in Agent \ {a}
      BY <1>0, <2>2
    <3>. QED BY <1>4, <3>1 DEF Expected
  <2>. QED BY <2>1, <2>2
<1>8. Issued' = Issued
  <2>1. CASE a = <<"sched", 0>>
    <3>1. Issued = Seen(a) + 1 /\ Issued' = Seen(a)' + 0
      BY <1>0, <1>1, <1>6, <2>1 DEF Issued
    <3>. QED BY <1>1, <1>5, <3>1
  <2>2. CASE a # <<"sched", 0>>
    <3>1. <<"sched", 0>> \in Agent \ {a}
      BY <1>0, <2>2
    <3>. QED BY <1>4, <3>1 DEF Issued
  <2>. QED BY <2>1, <2>2
<1>9. \A d \in CTA : Delivered(d)' = Delivered(d)
  BY <1>2, <1>8 DEF Delivered
<1>10. \A c \in CTA : ArrInv(c)'
  <2>. TAKE c \in CTA
  <2>1. Expected(c)' = Expected(c) /\ Delivered(c)' = Delivered(c) /\ bar[ARR(c)]' = bar[ARR(c)]
    BY <1>4, <1>7, <1>9
  <2>2. ASSUME NEW x \in Agent, CtaOf(x) = c PROVE Seen(x)' <= bar[ARR(c)]'.turn
    <3>1. CASE x = a
      BY <1>1, <1>5, <2>1, <2>2, <3>1
    <3>2. CASE x # a
      <4>1. Seen(x) <= bar[ARR(c)].turn
        BY <2>2 DEF ArrInv, RoundInv
      <4>. QED BY <1>4, <2>1, <3>2, <4>1
    <3>. QED BY <3>1, <3>2
  <2>3. \A x \in Agent' : CtaOf(x)' = c => Seen(x)' <= bar[ARR(c)]'.turn
    BY <1>2, <1>4, <2>2
  <2>. QED BY <2>1, <2>3 DEF ArrInv, RoundInv
<1>11. FinInv'
  <2>. DEFINE n == Cardinality(Ahead)
              F == FinishArrivals
  <2>1. Ahead \subseteq Agent /\ IsFiniteSet(Agent) /\ Cardinality(Agent) = F /\ F \in {7, 10}
    BY <1>0, AgentCount, Sizes DEF Ahead
  <2>2. IsFiniteSet(Ahead) /\ n \in Nat
    BY <2>1, FS_Subset, FS_CardinalityType
  <2>3. IsFiniteSet(Ahead \cup {a}) /\ Cardinality(Ahead \cup {a}) = n + 1
    BY <1>5, <2>2, FS_AddElement
  <2>4. n + 1 <= F /\ (n + 1 = F => Ahead \cup {a} = Agent)
    <3>1. Ahead \cup {a} \subseteq Agent
      BY <2>1
    <3>2. Cardinality(Ahead \cup {a}) <= Cardinality(Agent)
          /\ (Cardinality(Ahead \cup {a}) = Cardinality(Agent) => Ahead \cup {a} = Agent)
      BY <2>1, <3>1, FS_Subset
    <3>. QED BY <2>1, <2>3, <3>2
  <2>5. bar[FIN] = Bar(Rounds, F - n, 0, F) /\ \A x \in Agent : Seen(x) \in {Rounds, Rounds + 1}
        /\ (At(<<"sched", 0>>) \in {"expect", "decode"} => Seen(<<"sched", 0>>) = Rounds)
    BY DEF RoundInv, FinInv
  <2>. HIDE DEF n, F
  <2>6. CASE n + 1 = F
    <3>1. bar[FIN]' = Bar(Rounds + 1, F, 0, F)
      <4>1. F - n = 1
        BY <2>1, <2>2, <2>6
      <4>2. Arrive(Bar(Rounds, 1, 0, F)) = Bar(Rounds + 1, F, 0, F)
        BY <1>5, <2>1, BarArrives
      <4>. QED BY <1>4, <2>5, <4>1, <4>2
    <3>2. Rounds' = Rounds + 1
      BY <3>1 DEF Rounds, Bar
    <3>3. \A x \in Agent : Seen(x)' = Rounds + 1
      <4>1. \A x \in Agent \ {a} : Seen(x) = Rounds + 1
        BY <2>4, <2>6 DEF Ahead
      <4>. QED BY <1>1, <1>4, <1>5, <4>1
    <3>4. Ahead' = {}
      BY <1>2, <1>5, <3>2, <3>3 DEF Ahead
    <3>5. Cardinality(Ahead') = 0
      BY <3>4, FS_EmptySet
    <3>6. bar[FIN]' = Bar(Rounds', FinishArrivals' - Cardinality(Ahead'), 0, FinishArrivals')
      BY <1>2, <2>1, <3>1, <3>2, <3>5 DEF F
    <3>7. <<"sched", 0>> \in Agent /\ Agent # {}
      BY <1>0
    <3>8. Cardinality(Ahead)' = Cardinality(Ahead')
      OBVIOUS
    <3>. QED BY <1>2, <1>5, <3>2, <3>3, <3>4, <3>6, <3>7, <3>8 DEF FinInv
  <2>7. CASE n + 1 # F
    <3>1. bar[FIN]' = Bar(Rounds, F - (n + 1), 0, F)
      <4>1. F - n # 1 /\ F - n \in Int /\ F - n - 1 = F - (n + 1)
        BY <2>1, <2>2, <2>7
      <4>2. Arrive(Bar(Rounds, F - n, 0, F)) = Bar(Rounds, F - n - 1, 0, F)
        BY <1>5, <2>1, <4>1, BarArrives
      <4>. QED BY <1>4, <2>5, <4>1, <4>2
    <3>2. Rounds' = Rounds
      BY <3>1 DEF Rounds, Bar
    <3>3. Ahead' = Ahead \cup {a}
      BY <1>1, <1>2, <1>4, <1>5, <3>2 DEF Ahead
    <3>4. Cardinality(Ahead') = n + 1 /\ Ahead' # Agent
      BY <2>1, <2>3, <2>7, <3>3
    <3>5. \A x \in Agent : Seen(x)' \in {Rounds, Rounds + 1}
      BY <1>1, <1>4, <1>5, <2>5
    <3>6. At(<<"sched", 0>>)' \in {"expect", "decode"} => Seen(<<"sched", 0>>)' = Rounds
      <4>1. CASE a = <<"sched", 0>>
        BY <1>0, <1>6, <4>1
      <4>2. CASE a # <<"sched", 0>>
        BY <1>0, <1>4, <2>5, <4>2
      <4>. QED BY <4>1, <4>2
    <3>7. bar[FIN]' = Bar(Rounds', FinishArrivals' - Cardinality(Ahead'), 0, FinishArrivals')
      BY <1>2, <3>1, <3>2, <3>4 DEF F
    <3>8. Cardinality(Ahead)' = Cardinality(Ahead')
      OBVIOUS
    <3>. QED BY <1>2, <3>2, <3>4, <3>5, <3>6, <3>7, <3>8 DEF FinInv
  <2>. QED BY <2>6, <2>7
<1>. QED BY <1>8, <1>9, <1>10, <1>11 DEF RoundInv

(* The steps that work on a tile, and those of the teardown.                 *)
Working ==
  \/ \E c \in CTA : Load(c) \/ Teardown(c)
  \/ \E i \in WG : Mma(i) \/ TensorDone(i)
  \/ \E c \in CTA, i \in WG : Consumer(c, i)
  \/ ClusterSync

LEMMA WorkingRounds ==
  ASSUME ClusterTypes, RoundInv, kernel' = kernel, Working
  PROVE  /\ RoundInv' /\ Issued' = Issued /\ \A a \in Agent : Seen(a)' = Seen(a)
         /\ \A d \in CTA : Delivered(d)' = Delivered(d) /\ bar'[ARR(d)] = bar[ARR(d)]
<1>0. /\ kernel \in Kernels /\ RoleTypes /\ bar \in [Barrier -> BarRecord] /\ 0 \in WG
      /\ \A c \in CTA : <<"sched", c>> \in Agent
  BY AgentNames, Sizes DEF ClusterTypes, RoleTypes
<1>a. ASSUME NEW x \in Agent, \A c \in CTA : x # <<"sched", c>>, Seen(x)' = Seen(x),
             \A a \in Agent \ {x} : agent'[a] = agent[a],
             bar'[FIN] = bar[FIN], \A c \in CTA : bar'[ARR(c)] = bar[ARR(c)], request' = request
      PROVE  /\ RoundInv' /\ Issued' = Issued /\ \A a \in Agent : Seen(a)' = Seen(a)
             /\ \A d \in CTA : Delivered(d)' = Delivered(d) /\ bar'[ARR(d)] = bar[ARR(d)]
  <2>1. \A a \in Agent : Seen(a)' = Seen(a)
    BY <1>a DEF Seen
  <2>2. \A c \in CTA : At(<<"sched", c>>)' = At(<<"sched", c>>)
    BY <1>0, <1>a DEF At
  <2>. QED BY <1>a, <2>1, <2>2, RoundKept
<1>1. ASSUME NEW c \in CTA, Load(c)
      PROVE  /\ RoundInv' /\ Issued' = Issued /\ \A a \in Agent : Seen(a)' = Seen(a)
             /\ \A d \in CTA : Delivered(d)' = Delivered(d) /\ bar'[ARR(d)] = bar[ARR(d)]
  <2>. DEFINE x == <<"load", c>>
  <2>1. /\ x \in Agent /\ agent' = Moved(x, "decode") /\ bar' = bar /\ request' = request
        /\ \A d \in CTA : x # <<"sched", d>>
    BY <1>0, <1>1, AgentNames, AgentApart DEF Load
  <2>2. Seen(x)' = Seen(x) /\ \A a \in Agent \ {x} : agent'[a] = agent[a]
    BY <1>0, <2>1, MovedAgent DEF Place
  <2>. HIDE DEF x
  <2>. QED BY <1>a, <2>1, <2>2
<1>2. ASSUME NEW i \in WG, MmaAcquire(i)
      PROVE  /\ RoundInv' /\ Issued' = Issued /\ \A a \in Agent : Seen(a)' = Seen(a)
             /\ \A d \in CTA : Delivered(d)' = Delivered(d) /\ bar'[ARR(d)] = bar[ARR(d)]
  <2>. DEFINE x == <<"mma", i>>
  <2>1. /\ x \in Agent /\ agent' = Moved(x, "issue") /\ bar' = bar /\ request' = request
        /\ \A d \in CTA : x # <<"sched", d>>
    BY <1>0, <1>2, AgentNames, AgentApart DEF MmaAcquire
  <2>2. Seen(x)' = Seen(x) /\ \A a \in Agent \ {x} : agent'[a] = agent[a]
    BY <1>0, <2>1, MovedAgent DEF Place
  <2>. HIDE DEF x
  <2>. QED BY <1>a, <2>1, <2>2
<1>3. ASSUME NEW i \in WG, MmaIssue(i)
      PROVE  /\ RoundInv' /\ Issued' = Issued /\ \A a \in Agent : Seen(a)' = Seen(a)
             /\ \A d \in CTA : Delivered(d)' = Delivered(d) /\ bar'[ARR(d)] = bar[ARR(d)]
  <2>. DEFINE x == <<"mma", i>>
  <2>1. /\ x \in Agent /\ bar' = bar /\ request' = request
        /\ \A d \in CTA : x # <<"sched", d>>
    BY <1>0, <1>3, AgentNames, AgentApart DEF MmaIssue
  <2>2. Seen(x)' = Seen(x) /\ \A a \in Agent \ {x} : agent'[a] = agent[a]
    BY <1>3, IssueAgent
  <2>. HIDE DEF x
  <2>. QED BY <1>a, <2>1, <2>2
<1>4. ASSUME NEW i \in WG, TensorDone(i)
      PROVE  /\ RoundInv' /\ Issued' = Issued /\ \A a \in Agent : Seen(a)' = Seen(a)
             /\ \A d \in CTA : Delivered(d)' = Delivered(d) /\ bar'[ARR(d)] = bar[ARR(d)]
  <2>1. /\ agent' = agent /\ request' = request
        /\ bar' = [b \in Barrier |-> IF b \in {TFULL(c, Head(queue[i])) : c \in CTA}
                                     THEN Arrive(bar[b]) ELSE bar[b]]
    BY <1>4 DEF TensorDone
  <2>2. bar'[FIN] = bar[FIN] /\ \A c \in CTA : bar'[ARR(c)] = bar[ARR(c)]
    BY <2>1, BarNames, BarApart
  <2>3. /\ \A a \in Agent : Seen(a)' = Seen(a)
        /\ \A c \in CTA : At(<<"sched", c>>)' = At(<<"sched", c>>)
    BY <2>1 DEF Seen, At
  <2>. QED BY <2>1, <2>2, <2>3, RoundKept
<1>5. ASSUME NEW c \in CTA, NEW i \in WG, ConsumerWait(c, i)
      PROVE  /\ RoundInv' /\ Issued' = Issued /\ \A a \in Agent : Seen(a)' = Seen(a)
             /\ \A d \in CTA : Delivered(d)' = Delivered(d) /\ bar'[ARR(d)] = bar[ARR(d)]
  <2>. DEFINE x == <<"con", c, i>>
  <2>1. /\ x \in Agent /\ agent' = Moved(x, "read") /\ bar' = bar /\ request' = request
        /\ \A d \in CTA : x # <<"sched", d>>
    BY <1>0, <1>5, AgentNames, AgentApart DEF ConsumerWait
  <2>2. Seen(x)' = Seen(x) /\ \A a \in Agent \ {x} : agent'[a] = agent[a]
    BY <1>0, <2>1, MovedAgent DEF Place
  <2>. HIDE DEF x
  <2>. QED BY <1>a, <2>1, <2>2
<1>6. ASSUME NEW c \in CTA, NEW i \in WG, Writeback(c, i)
      PROVE  /\ RoundInv' /\ Issued' = Issued /\ \A a \in Agent : Seen(a)' = Seen(a)
             /\ \A d \in CTA : Delivered(d)' = Delivered(d) /\ bar'[ARR(d)] = bar[ARR(d)]
  <2>. DEFINE x == <<"con", c, i>>
              s == SlotOf(i, agent[x].uses)
  <2>1. /\ x \in Agent /\ bar' = [bar EXCEPT ![TEMPTY(s)] = Arrive(@)] /\ request' = request
        /\ \A d \in CTA : x # <<"sched", d>>
    BY <1>0, <1>6, AgentNames, AgentApart DEF Writeback
  <2>2. Seen(x)' = Seen(x) /\ \A a \in Agent \ {x} : agent'[a] = agent[a]
    BY <1>6, WritebackAgent
  <2>. HIDE DEF s
  <2>3. bar'[FIN] = bar[FIN] /\ \A d \in CTA : bar'[ARR(d)] = bar[ARR(d)]
    BY <1>0, <2>1, BarNames, BarApart
  <2>. HIDE DEF x
  <2>. QED BY <1>a, <2>1, <2>2, <2>3
<1>7. ASSUME NEW c \in CTA, Teardown(c)
      PROVE  /\ RoundInv' /\ Issued' = Issued /\ \A a \in Agent : Seen(a)' = Seen(a)
             /\ \A d \in CTA : Delivered(d)' = Delivered(d) /\ bar'[ARR(d)] = bar[ARR(d)]
  <2>. DEFINE x == <<"con", c, 0>>
  <2>1. /\ x \in Agent /\ request' = request /\ \A d \in CTA : x # <<"sched", d>>
    BY <1>0, <1>7, AgentNames, AgentApart DEF Teardown, SayBye, WaitBye, Dealloc
  <2>2. \E p \in {"byewait", "free", "left"} : agent' = Moved(x, p)
    BY <1>7 DEF Teardown, SayBye, WaitBye, Dealloc
  <2>3. bar' = bar \/ bar' = [bar EXCEPT ![BYE(PeerOf(c))] = Arrive(@)]
    BY <1>7 DEF Teardown, SayBye, WaitBye, Dealloc
  <2>4. bar'[FIN] = bar[FIN] /\ \A d \in CTA : bar'[ARR(d)] = bar[ARR(d)]
    BY <1>0, <2>3, BarNames, BarApart
  <2>5. Seen(x)' = Seen(x) /\ \A a \in Agent \ {x} : agent'[a] = agent[a]
    BY <1>0, <2>1, <2>2, MovedAgent DEF Place
  <2>. HIDE DEF x
  <2>. QED BY <1>a, <2>1, <2>4, <2>5
<1>8. CASE ClusterSync
  <2>1. bar' = bar /\ request' = request
    BY <1>8 DEF ClusterSync
  <2>2. \A a \in Agent : At(a) = "sync" /\ At(a)' \in {"free", "left"} /\ Seen(a)' = Seen(a)
    BY <1>8, SyncAgents
  <2>3. \A c \in CTA : ~Asking(c) /\ ~Asking(c)'
    BY <1>0, <2>2 DEF Asking
  <2>. QED BY <2>1, <2>2, <2>3, RoundKept
<1>. QED BY <1>1, <1>2, <1>3, <1>4, <1>5, <1>6, <1>7, <1>8 DEF Working, Mma, Consumer

LEMMA RoundStep ==
  ASSUME ClusterTypes, RoundInv, \A a \in Agent : LaneInv(a), kernel' = kernel, Step
  PROVE  RoundInv'
BY ConsumeRounds, CancelRounds, ExpectRounds, DeliverRounds, WorkingRounds DEF Step, Sched, Working

----------------------------------------------------------------------------
(* Accumulators. How often a slot was used, from one use to the next.        *)
LEMMA SlotUses ==
  ASSUME kernel \in Kernels, NEW i \in WG, NEW n \in Nat
  PROVE  LET s == SlotOf(i, n) IN
         /\ s \in Slot /\ Owner(s) = i
         /\ UsesOf(s, n) = PhaseOf(n) /\ UsesOf(s, n + 1) = PhaseOf(n) + 1 /\ PhaseOf(n) \in Nat
         /\ \A t \in Slot : t # s /\ Owner(t) = i => UsesOf(t, n + 1) = UsesOf(t, n)
<1>1. CASE OVERLAP
  <2>1. /\ Slot = {0, 1} /\ i = 0 /\ \A t : Owner(t) = 0
        /\ SlotOf(i, n) = n % 2 /\ PhaseOf(n) = n \div 2
        /\ \A t, m : UsesOf(t, m) = (m + 1 - t) \div 2
    BY <1>1, Sizes DEF Owner, SlotOf, PhaseOf, UsesOf
  <2>. QED BY <2>1
<1>2. CASE ~OVERLAP
  <2>1. /\ Slot = {0, 1} /\ i \in {0, 1} /\ \A t : Owner(t) = t
        /\ SlotOf(i, n) = i /\ PhaseOf(n) = n \div 1
        /\ \A t, m : UsesOf(t, m) = m
    BY <1>2, Sizes DEF Owner, SlotOf, PhaseOf, UsesOf
  <2>2. PhaseOf(n) = n
    BY <2>1
  <2>. QED BY <2>1, <2>2
<1>. QED BY <1>1, <1>2

LEMMA UsesGrow ==
  ASSUME kernel \in Kernels, NEW s \in Slot
  PROVE  /\ Owner(s) \in WG
         /\ \A n \in Nat : /\ UsesOf(s, n) \in Nat
                           /\ UsesOf(s, n + TMEM_PHASE_DEPTH) = UsesOf(s, n) + 1
         /\ \A n, m \in Nat : /\ n <= m => UsesOf(s, n) <= UsesOf(s, m)
                              /\ m <= n + TMEM_PHASE_DEPTH => UsesOf(s, m) <= UsesOf(s, n) + 1
<1>1. CASE OVERLAP
  <2>1. /\ Slot = {0, 1} /\ Owner(s) \in WG /\ TMEM_PHASE_DEPTH = 2
        /\ \A m : UsesOf(s, m) = (m + 1 - s) \div 2
    BY <1>1, Sizes DEF Owner, UsesOf
  <2>. QED BY <2>1
<1>2. CASE ~OVERLAP
  <2>1. /\ Slot = {0, 1} /\ Owner(s) \in WG /\ TMEM_PHASE_DEPTH = 1
        /\ \A m : UsesOf(s, m) = m
    BY <1>2, Sizes DEF Owner, UsesOf
  <2>. QED BY <2>1
<1>. QED BY <1>1, <1>2

LEMMA SlotsReused ==
  ASSUME kernel \in Kernels, NEW i \in WG, NEW j \in WG, NEW n \in Nat, NEW m \in Nat,
         SlotOf(i, n) = SlotOf(j, m)
  PROVE  i = j /\ (n < m => n + TMEM_PHASE_DEPTH <= m)
<1>1. CASE OVERLAP
  <2>1. /\ i = 0 /\ j = 0 /\ TMEM_PHASE_DEPTH = 2 /\ n % 2 = m % 2
    BY <1>1, Sizes DEF SlotOf
  <2>. QED BY <2>1
<1>2. CASE ~OVERLAP
  <2>1. i = j /\ TMEM_PHASE_DEPTH = 1
    BY <1>2, Sizes DEF SlotOf
  <2>. QED BY <2>1
<1>. QED BY <1>1, <1>2

LEMMA TmemTypes ==
  ASSUME ClusterTypes, NEW i \in WG
  PROVE  /\ kernel \in Kernels /\ mmaDone[i] \in Nat /\ TMEM_PHASE_DEPTH \in {1, 2} /\ CTA = {0, 1}
         /\ <<"mma", i>> \in Agent /\ Uses(<<"mma", i>>) \in Nat
         /\ \A c \in CTA : /\ <<"con", c, i>> \in Agent /\ Read(c, i) \in Nat
                           /\ loads[c] \in Seq(Answer) /\ Len(loads[c]) \in Nat
<1>1. kernel \in Kernels /\ RoleTypes /\ DataTypes
  BY DEF ClusterTypes, RoleTypes
<1>2. /\ <<"mma", i>> \in Agent /\ \A c \in CTA : <<"con", c, i>> \in Agent
  BY <1>1, AgentNames
<1>3. Uses(<<"mma", i>>) \in Nat /\ \A c \in CTA : Read(c, i) \in Nat
  BY <1>1, <1>2, AgentTyped DEF Read
<1>4. mmaDone[i] \in Nat /\ \A c \in CTA : loads[c] \in Seq(Answer) /\ Len(loads[c]) \in Nat
  BY <1>1 DEF DataTypes
<1>. QED BY <1>1, <1>2, <1>3, <1>4, Sizes

(* What an MMA warp keeps while others work and its consumers read.          *)
LEMMA MmaLater ==
  ASSUME ClusterTypes, kernel' = kernel, NEW i \in WG, MmaInv(i),
         Uses(<<"mma", i>>)' = Uses(<<"mma", i>>),
         At(<<"mma", i>>)' = "issue" => At(<<"mma", i>>) = "issue",
         \A c \in CTA : /\ Read(c, i)' \in Nat /\ Read(c, i) <= Read(c, i)' /\ Read(c, i)' <= mmaDone[i]
                        /\ At(<<"con", c, i>>)' = "read" => Read(c, i)' < mmaDone[i],
         queue'[i] = queue[i], mmaDone'[i] = mmaDone[i],
         \A c \in CTA : /\ Len(loads'[c]) \in Nat /\ Len(loads[c]) <= Len(loads'[c])
                        /\ \A n \in 1 .. Len(loads[c]) : loads'[c][n] = loads[c][n],
         \A n \in Nat : n < mmaDone[i] /\ Uses(<<"mma", i>>) <= n + TMEM_PHASE_DEPTH =>
           acc'[SlotOf(i, n)] = acc[SlotOf(i, n)]
  PROVE  MmaInv(i)'
<1>. DEFINE u == Uses(<<"mma", i>>)
            d == mmaDone[i]
            depth == TMEM_PHASE_DEPTH
<1>1. /\ u \in Nat /\ d \in Nat /\ depth \in {1, 2} /\ 0 \in CTA /\ 1 \in CTA
      /\ \A c \in CTA : Read(c, i) \in Nat /\ Len(loads[c]) \in Nat
  BY TmemTypes
<1>2. /\ TMEM_PHASE_DEPTH' = depth /\ \A n : SlotOf(i, n)' = SlotOf(i, n)
  BY Fixed
<1>3. Acquired(i) \in Nat /\ Acquired(i)' \in Nat /\ Acquired(i)' <= Acquired(i)
  BY <1>1 DEF Acquired
<1>4. /\ d <= u
      /\ \A c \in CTA : /\ Read(c, i) <= d /\ Acquired(i) <= Read(c, i) + depth
                        /\ At(<<"con", c, i>>) = "read" => Read(c, i) < d
                        /\ u <= Len(loads[c])
  BY DEF MmaInv
<1>5. Len(queue[i]) = u - d /\ \A k \in 1 .. Len(queue[i]) : queue[i][k] = SlotOf(i, d + k - 1)
  BY DEF MmaInv
<1>6. \A n \in Nat : n < d /\ u <= n + depth => acc[SlotOf(i, n)] = <<loads[0][n + 1], loads[1][n + 1]>>
  BY DEF MmaInv
<1>7. Uses(<<"mma", i>>)' = u /\ mmaDone[i]' = d /\ queue[i]' = queue[i]
  OBVIOUS
<1>8. \A n \in Nat : n < d /\ u <= n + depth => acc'[SlotOf(i, n)] = acc[SlotOf(i, n)]
  OBVIOUS
<1>. HIDE DEF u, d, depth
<1>9. ASSUME NEW c \in CTA
      PROVE  /\ Read(c, i)' <= d /\ Acquired(i)' <= Read(c, i)' + depth
             /\ At(<<"con", c, i>>)' = "read" => Read(c, i)' < d
             /\ u <= Len(loads'[c])
  <2>1. /\ Len(loads[c]) <= Len(loads'[c]) /\ Len(loads'[c]) \in Nat
        /\ Read(c, i)' \in Nat /\ Read(c, i) <= Read(c, i)'
    OBVIOUS
  <2>2. /\ Read(c, i) <= d /\ Acquired(i) <= Read(c, i) + depth
        /\ At(<<"con", c, i>>) = "read" => Read(c, i) < d
        /\ u <= Len(loads[c]) /\ Read(c, i) \in Nat /\ Len(loads[c]) \in Nat
    BY <1>1, <1>4
  <2>3. Read(c, i)' <= d /\ (At(<<"con", c, i>>)' = "read" => Read(c, i)' < d)
    BY DEF d
  <2>4. \A x, y, a, b \in Int : a <= x + depth /\ x <= y /\ b <= a => b <= y + depth
    BY <1>1
  <2>5. Acquired(i)' <= Read(c, i)' + depth
    BY <1>1, <1>3, <2>1, <2>2, <2>4
  <2>6. u <= Len(loads'[c])
    BY <1>1, <2>1, <2>2
  <2>. QED BY <2>3, <2>5, <2>6
<1>10. ASSUME NEW n \in Nat, n < d, u <= n + depth
      PROVE  acc'[SlotOf(i, n)] = <<loads'[0][n + 1], loads'[1][n + 1]>>
  <2>1. acc'[SlotOf(i, n)] = <<loads[0][n + 1], loads[1][n + 1]>>
    BY <1>6, <1>8, <1>10
  <2>2. ASSUME NEW c \in CTA PROVE loads'[c][n + 1] = loads[c][n + 1]
    <3>1. u <= Len(loads[c]) /\ Len(loads[c]) \in Nat
      BY <1>1, <1>4
    <3>2. n + 1 \in 1 .. Len(loads[c])
      BY <1>1, <1>4, <1>10, <3>1
    <3>. QED BY <3>2
  <2>. QED BY <1>1, <2>1, <2>2
<1>11. /\ Len(queue[i])' = Uses(<<"mma", i>>)' - mmaDone[i]'
       /\ \A k \in 1 .. Len(queue[i])' : queue[i][k]' = SlotOf(i, mmaDone[i] + k - 1)'
  <2>1. \A k : SlotOf(i, mmaDone[i] + k - 1)' = SlotOf(i, d + k - 1)
    <3>1. OVERLAP' = OVERLAP /\ TMEM_PHASE_DEPTH' = TMEM_PHASE_DEPTH
      BY Fixed
    <3>. QED BY <1>7, <3>1 DEF SlotOf
  <2>. QED BY <1>5, <1>7, <2>1
<1>12. \A n \in Nat : n < mmaDone[i]' /\ Uses(<<"mma", i>>)' <= n + TMEM_PHASE_DEPTH' =>
         acc'[SlotOf(i, n)'] = <<loads'[0][n + 1], loads'[1][n + 1]>>
  BY <1>2, <1>7, <1>10
<1>. QED BY <1>2, <1>4, <1>7, <1>9, <1>11, <1>12 DEF MmaInv

LEMMA MmaKept ==
  ASSUME ClusterTypes, kernel' = kernel, NEW i \in WG, MmaInv(i),
         Uses(<<"mma", i>>)' = Uses(<<"mma", i>>),
         At(<<"mma", i>>)' = "issue" => At(<<"mma", i>>) = "issue",
         \A c \in CTA : Read(c, i)' = Read(c, i),
         \A c \in CTA : At(<<"con", c, i>>)' = "read" => At(<<"con", c, i>>) = "read",
         queue'[i] = queue[i], mmaDone'[i] = mmaDone[i],
         \A c \in CTA : /\ Len(loads'[c]) \in Nat /\ Len(loads[c]) <= Len(loads'[c])
                        /\ \A n \in 1 .. Len(loads[c]) : loads'[c][n] = loads[c][n],
         \A n \in Nat : n < mmaDone[i] /\ Uses(<<"mma", i>>) <= n + TMEM_PHASE_DEPTH =>
           acc'[SlotOf(i, n)] = acc[SlotOf(i, n)]
  PROVE  MmaInv(i)'
<1>1. ASSUME NEW c \in CTA
      PROVE  /\ Read(c, i)' \in Nat /\ Read(c, i) <= Read(c, i)' /\ Read(c, i)' <= mmaDone[i]
             /\ At(<<"con", c, i>>)' = "read" => Read(c, i)' < mmaDone[i]
  <2>1. Read(c, i) \in Nat /\ mmaDone[i] \in Nat
    BY TmemTypes
  <2>2. Read(c, i) <= mmaDone[i] /\ (At(<<"con", c, i>>) = "read" => Read(c, i) < mmaDone[i])
    BY DEF MmaInv
  <2>. QED BY <2>1, <2>2
<1>. QED BY <1>1, MmaLater

LEMMA SlotKept ==
  ASSUME ClusterTypes, kernel' = kernel, NEW s \in Slot, SlotInv(s),
         mmaDone'[Owner(s)] = mmaDone[Owner(s)],
         \A c \in CTA : Read(c, Owner(s))' = Read(c, Owner(s)),
         bar'[TEMPTY(s)] = bar[TEMPTY(s)], \A c \in CTA : bar'[TFULL(c, s)] = bar[TFULL(c, s)]
  PROVE  SlotInv(s)'
<1>1. /\ Owner(s)' = Owner(s) /\ \A n : UsesOf(s, n)' = UsesOf(s, n)
      /\ 0 \in CTA /\ 1 \in CTA
  BY Fixed, Sizes DEF ClusterTypes, RoleTypes
<1>2. \A c \in CTA : Read(c, Owner(s))' = Read(c, Owner(s)) /\ Freed(c, s)' = Freed(c, s)
  BY <1>1 DEF Freed, Read, Uses
<1>3. UsesOf(s, mmaDone[Owner(s)])' = UsesOf(s, mmaDone[Owner(s)])
  BY <1>1
<1>4. bar[TEMPTY(s)]' = bar[TEMPTY(s)] /\ \A c \in CTA : bar[TFULL(c, s)]' = bar[TFULL(c, s)]
  BY DEF TEMPTY, TFULL
<1>. QED BY <1>1, <1>2, <1>3, <1>4 DEF SlotInv

LEMMA TmemKept ==
  ASSUME ClusterTypes, TmemInv, kernel' = kernel, UNCHANGED <<queue, mmaDone, acc>>,
         \A i \in WG : /\ Uses(<<"mma", i>>)' = Uses(<<"mma", i>>)
                       /\ At(<<"mma", i>>)' = "issue" => At(<<"mma", i>>) = "issue",
         \A c \in CTA, i \in WG : /\ Read(c, i)' = Read(c, i)
                                  /\ At(<<"con", c, i>>)' = "read" => At(<<"con", c, i>>) = "read",
         \A c \in CTA : /\ Len(loads'[c]) \in Nat /\ Len(loads[c]) <= Len(loads'[c])
                        /\ \A n \in 1 .. Len(loads[c]) : loads'[c][n] = loads[c][n],
         \A s \in Slot : bar'[TEMPTY(s)] = bar[TEMPTY(s)] /\ \A c \in CTA : bar'[TFULL(c, s)] = bar[TFULL(c, s)]
  PROVE  TmemInv'
<1>1. ASSUME NEW i \in WG PROVE MmaInv(i)'
  <2>1. MmaInv(i)
    BY DEF TmemInv
  <2>. QED BY <2>1, MmaKept
<1>2. ASSUME NEW s \in Slot PROVE SlotInv(s)'
  <2>1. SlotInv(s) /\ Owner(s) \in WG
    BY UsesGrow DEF TmemInv, ClusterTypes, RoleTypes
  <2>2. \A c \in CTA : Read(c, Owner(s))' = Read(c, Owner(s))
    <3>1. Owner(s)' = Owner(s)
      BY Fixed
    <3>. QED BY <2>1, <3>1 DEF Read, Uses
  <2>. QED BY <2>1, <2>2, SlotKept
<1>3. WG' = WG /\ Slot' = Slot
  BY Fixed DEF Slot
<1>. QED BY <1>1, <1>2, <1>3 DEF TmemInv

(* An agent moves and touches no accumulator.                                *)
LEMMA MoverTmem ==
  ASSUME ClusterTypes, TmemInv, kernel' = kernel, UNCHANGED <<loads, queue, mmaDone, acc>>,
         \A a \in Agent : Uses(a)' = Uses(a),
         \A a \in Agent : At(a)' \in {"issue", "read"} => At(a)' = At(a),
         \A s \in Slot : bar'[TEMPTY(s)] = bar[TEMPTY(s)] /\ \A c \in CTA : bar'[TFULL(c, s)] = bar[TFULL(c, s)]
  PROVE  TmemInv'
<1>1. /\ \A i \in WG : <<"mma", i>> \in Agent
      /\ \A c \in CTA, i \in WG : <<"con", c, i>> \in Agent
  BY AgentNames DEF ClusterTypes, RoleTypes
<1>2. \A i \in WG : /\ Uses(<<"mma", i>>)' = Uses(<<"mma", i>>)
                    /\ At(<<"mma", i>>)' = "issue" => At(<<"mma", i>>) = "issue"
  BY <1>1
<1>3. \A c \in CTA, i \in WG : /\ Read(c, i)' = Read(c, i)
                               /\ At(<<"con", c, i>>)' = "read" => At(<<"con", c, i>>) = "read"
  BY <1>1 DEF Read
<1>4. \A c \in CTA : /\ Len(loads'[c]) \in Nat /\ Len(loads[c]) <= Len(loads'[c])
                     /\ \A n \in 1 .. Len(loads[c]) : loads'[c][n] = loads[c][n]
  BY DEF ClusterTypes, DataTypes
<1>. QED BY <1>2, <1>3, <1>4, TmemKept

LEMMA LoadTmem ==
  ASSUME ClusterTypes, TmemInv, kernel' = kernel, NEW c \in CTA, Load(c)
  PROVE  TmemInv'
<1>. DEFINE x == <<"load", c>>
<1>1. /\ kernel \in Kernels /\ RoleTypes /\ x \in Agent
      /\ UNCHANGED <<bar, queue, mmaDone, acc>> /\ agent' = Moved(x, "decode")
      /\ loads' = [loads EXCEPT ![c] = Append(@, agent[x].tile)]
      /\ agent[x].tile \in Answer /\ loads \in [CTA -> Seq(Answer)]
      /\ \A i \in WG : <<"mma", i>> \in Agent /\ <<"mma", i>> # x
      /\ \A d \in CTA, i \in WG : <<"con", d, i>> \in Agent /\ <<"con", d, i>> # x
  BY AgentNames, AgentApart, AgentTyped DEF ClusterTypes, RoleTypes, DataTypes, Load
<1>2. \A a \in Agent \ {x} : agent'[a] = agent[a]
  BY <1>1, MovedAgent DEF Place
<1>. HIDE DEF x
<1>3. \A i \in WG : /\ Uses(<<"mma", i>>)' = Uses(<<"mma", i>>)
                    /\ At(<<"mma", i>>)' = "issue" => At(<<"mma", i>>) = "issue"
  BY <1>1, <1>2 DEF Uses, At
<1>4. \A d \in CTA, i \in WG : /\ Read(d, i)' = Read(d, i)
                               /\ At(<<"con", d, i>>)' = "read" => At(<<"con", d, i>>) = "read"
  BY <1>1, <1>2 DEF Read, Uses, At
<1>5. ASSUME NEW d \in CTA
      PROVE  /\ Len(loads'[d]) \in Nat /\ Len(loads[d]) <= Len(loads'[d])
             /\ \A n \in 1 .. Len(loads[d]) : loads'[d][n] = loads[d][n]
  <2>1. loads[d] \in Seq(Answer) /\ Len(loads[d]) \in Nat
    BY <1>1
  <2>2. CASE d = c
    <3>1. loads'[d] = Append(loads[d], agent[x].tile)
      BY <1>1, <2>2
    <3>. QED BY <1>1, <2>1, <3>1
  <2>3. CASE d # c
    BY <1>1, <2>1, <2>3
  <2>. QED BY <2>2, <2>3
<1>6. \A s \in Slot : bar'[TEMPTY(s)] = bar[TEMPTY(s)] /\ \A d \in CTA : bar'[TFULL(d, s)] = bar[TFULL(d, s)]
  BY <1>1
<1>. QED BY <1>1, <1>3, <1>4, <1>5, <1>6, TmemKept

LEMMA RolesTmem ==
  ASSUME ClusterTypes, \A a \in Agent : LaneInv(a), TmemInv, kernel' = kernel,
         \/ \E a \in Agent : Consume(a)
         \/ Cancel
         \/ \E c \in CTA : SchedExpect(c) \/ Deliver(c) \/ Teardown(c)
         \/ ClusterSync
  PROVE  TmemInv'
<1>0. kernel \in Kernels /\ RoleTypes /\ bar \in [Barrier -> BarRecord]
  BY DEF ClusterTypes, RoleTypes
<1>a. ASSUME NEW x \in Agent, NEW p \in Place, agent' = Moved(x, p), p \notin {"issue", "read"},
             UNCHANGED <<loads, queue, mmaDone, acc>>,
             \A s \in Slot : bar'[TEMPTY(s)] = bar[TEMPTY(s)]
                             /\ \A c \in CTA : bar'[TFULL(c, s)] = bar[TFULL(c, s)]
      PROVE  TmemInv'
  <2>1. \A a \in Agent : Uses(a)' = Uses(a) /\ (At(a)' = At(a) \/ At(a)' = p)
    BY <1>0, <1>a, MovedAgent DEF Uses, At
  <2>. QED BY <1>a, <2>1, MoverTmem
<1>1. ASSUME NEW x \in Agent, Consume(x) PROVE TmemInv'
  <2>. DEFINE answer == handle[CtaOf(x)]
  <2>1. /\ At(x)' = Decoded(x, answer) /\ Uses(x)' = Uses(x)
        /\ \A a \in Agent \ {x} : agent'[a] = agent[a]
    BY <1>1, ConsumeAgent
  <2>2. Decoded(x, answer) \notin {"issue", "read"}
    BY DEF Decoded, GoesOn, End
  <2>3. UNCHANGED <<loads, queue, mmaDone, acc>> /\ bar' = [bar EXCEPT ![FIN] = Arrive(@)]
    BY <1>1 DEF Consume
  <2>4. \A s \in Slot : bar'[TEMPTY(s)] = bar[TEMPTY(s)] /\ \A c \in CTA : bar'[TFULL(c, s)] = bar[TFULL(c, s)]
    BY <1>0, <2>3, BarNames, BarApart
  <2>5. \A a \in Agent : Uses(a)' = Uses(a)
    BY <2>1 DEF Uses
  <2>6. \A a \in Agent : At(a)' \in {"issue", "read"} => At(a)' = At(a)
    BY <2>1, <2>2 DEF At
  <2>. QED BY <2>3, <2>4, <2>5, <2>6, MoverTmem
<1>2. CASE Cancel
  <2>1. <<"sched", 0>> \in Agent /\ agent' = Moved(<<"sched", 0>>, "expect")
        /\ UNCHANGED <<bar, loads, queue, mmaDone, acc>>
    BY <1>0, <1>2, AgentNames, Sizes DEF Cancel
  <2>. QED BY <1>a, <2>1 DEF Place
<1>3. ASSUME NEW c \in CTA, SchedExpect(c) PROVE TmemInv'
  <2>1. <<"sched", c>> \in Agent /\ agent' = Moved(<<"sched", c>>, "decode")
        /\ UNCHANGED <<loads, queue, mmaDone, acc>> /\ bar' = [bar EXCEPT ![ARR(c)] = ArriveExpect(@, 1)]
    BY <1>0, <1>3, AgentNames DEF SchedExpect
  <2>2. \A s \in Slot : bar'[TEMPTY(s)] = bar[TEMPTY(s)] /\ \A d \in CTA : bar'[TFULL(d, s)] = bar[TFULL(d, s)]
    BY <1>0, <2>1, BarNames, BarApart
  <2>. QED BY <1>a, <2>1, <2>2 DEF Place
<1>4. ASSUME NEW c \in CTA, Deliver(c) PROVE TmemInv'
  <2>1. UNCHANGED <<agent, loads, queue, mmaDone, acc>> /\ bar' = [bar EXCEPT ![ARR(c)] = Landed(@)]
    BY <1>4 DEF Deliver
  <2>2. \A s \in Slot : bar'[TEMPTY(s)] = bar[TEMPTY(s)] /\ \A d \in CTA : bar'[TFULL(d, s)] = bar[TFULL(d, s)]
    BY <1>0, <2>1, BarNames, BarApart
  <2>3. \A a \in Agent : Uses(a)' = Uses(a) /\ At(a)' = At(a)
    BY <2>1 DEF Uses, At
  <2>. QED BY <2>1, <2>2, <2>3, MoverTmem
<1>5. ASSUME NEW c \in CTA, Teardown(c) PROVE TmemInv'
  <2>1. <<"con", c, 0>> \in Agent /\ UNCHANGED <<loads, queue, mmaDone, acc>>
    BY <1>0, <1>5, AgentNames, Sizes DEF Teardown, SayBye, WaitBye, Dealloc
  <2>2. \E p \in {"byewait", "free", "left"} : agent' = Moved(<<"con", c, 0>>, p)
    BY <1>5 DEF Teardown, SayBye, WaitBye, Dealloc
  <2>3. bar' = bar \/ bar' = [bar EXCEPT ![BYE(PeerOf(c))] = Arrive(@)]
    BY <1>5 DEF Teardown, SayBye, WaitBye, Dealloc
  <2>4. \A s \in Slot : bar'[TEMPTY(s)] = bar[TEMPTY(s)] /\ \A d \in CTA : bar'[TFULL(d, s)] = bar[TFULL(d, s)]
    BY <1>0, <2>3, BarNames, BarApart
  <2>. QED BY <1>a, <2>1, <2>2, <2>4 DEF Place
<1>6. CASE ClusterSync
  <2>1. UNCHANGED <<bar, loads, queue, mmaDone, acc>>
    BY <1>6 DEF ClusterSync
  <2>2. \A a \in Agent : At(a)' \in {"free", "left"} /\ Uses(a)' = Uses(a)
    BY <1>6, SyncAgents
  <2>. QED BY <2>1, <2>2, MoverTmem
<1>. QED BY <1>1, <1>2, <1>3, <1>4, <1>5, <1>6

(* The barriers of the slot that a warp uses for its n-th tile.              *)
LEMMA SlotBars ==
  ASSUME ClusterTypes, TmemInv, NEW i \in WG, NEW n \in Nat
  PROVE  LET s == SlotOf(i, n) IN
         /\ s \in Slot /\ Owner(s) = i
         /\ \A c \in CTA : Freed(c, s) = UsesOf(s, Read(c, i)) /\ Freed(c, s) \in Nat
         /\ \A c \in CTA : bar[TFULL(c, s)] = Bar(UsesOf(s, mmaDone[i]), 1, 0, 1)
         /\ bar[TEMPTY(s)] = Bar(IF Freed(0, s) < Freed(1, s) THEN Freed(0, s) ELSE Freed(1, s),
                                 IF Freed(0, s) = Freed(1, s) THEN 2 ELSE 1, 0, 2)
         /\ UsesOf(s, mmaDone[i]) \in Nat
<1>. DEFINE s == SlotOf(i, n)
<1>1. s \in Slot /\ Owner(s) = i
  BY SlotUses, TmemTypes
<1>. HIDE DEF s
<1>2. SlotInv(s)
  BY <1>1 DEF TmemInv
<1>3. \A m \in Nat : UsesOf(s, m) \in Nat
  BY <1>1, UsesGrow, TmemTypes
<1>4. mmaDone[i] \in Nat /\ \A c \in CTA : Read(c, i) \in Nat
  BY TmemTypes
<1>5. /\ \A c \in CTA : Freed(c, s) = UsesOf(s, Read(c, i)) /\ Freed(c, s) \in Nat
      /\ UsesOf(s, mmaDone[i]) \in Nat
  BY <1>1, <1>3, <1>4 DEF Freed
<1>6. /\ \A c \in CTA : bar[TFULL(c, s)] = Bar(UsesOf(s, mmaDone[i]), 1, 0, 1)
      /\ bar[TEMPTY(s)] = Bar(IF Freed(0, s) < Freed(1, s) THEN Freed(0, s) ELSE Freed(1, s),
                              IF Freed(0, s) = Freed(1, s) THEN 2 ELSE 1, 0, 2)
  BY <1>1, <1>2 DEF SlotInv
<1>. QED BY <1>1, <1>5, <1>6 DEF s

(* An accumulator is acquired when both consumers have freed it.             *)
LEMMA Acquires ==
  ASSUME ClusterTypes, TmemInv, NEW i \in WG, MmaAcquire(i)
  PROVE  \A c \in CTA : Uses(<<"mma", i>>) + 1 <= Read(c, i) + TMEM_PHASE_DEPTH
<1>. DEFINE u == Uses(<<"mma", i>>)
            s == SlotOf(i, u)
            depth == TMEM_PHASE_DEPTH
            f(c) == UsesOf(s, Read(c, i))
<1>1. /\ u \in Nat /\ depth \in {1, 2} /\ CTA = {0, 1} /\ mmaDone[i] \in Nat
      /\ \A c \in CTA : Read(c, i) \in Nat
  BY TmemTypes
<1>2. /\ s \in Slot /\ UsesOf(s, u) = PhaseOf(u) /\ PhaseOf(u) \in Nat
  BY <1>1, SlotUses, TmemTypes
<1>3. At(<<"mma", i>>) = "acquire" /\ Passed(bar[TEMPTY(s)], PhaseOf(u) - 1)
  BY DEF MmaAcquire, At, Uses
<1>4. \A c \in CTA : Read(c, i) <= u /\ u <= Read(c, i) + depth
  <2>1. Acquired(i) = u
    BY <1>1, <1>3 DEF Acquired
  <2>2. /\ mmaDone[i] <= u
        /\ \A c \in CTA : Read(c, i) <= mmaDone[i] /\ Acquired(i) <= Read(c, i) + depth
    BY DEF TmemInv, MmaInv
  <2>. QED BY <1>1, <2>1, <2>2
<1>5. /\ \A c \in CTA : Freed(c, s) = f(c) /\ f(c) \in Nat
      /\ bar[TEMPTY(s)] = Bar(IF Freed(0, s) < Freed(1, s) THEN Freed(0, s) ELSE Freed(1, s),
                                 IF Freed(0, s) = Freed(1, s) THEN 2 ELSE 1, 0, 2)
  BY <1>1, SlotBars
<1>6. \A n, m \in Nat : /\ n <= m => UsesOf(s, n) <= UsesOf(s, m)
                        /\ m <= n + depth => UsesOf(s, m) <= UsesOf(s, n) + 1
                        /\ UsesOf(s, n + depth) = UsesOf(s, n) + 1
  BY <1>2, UsesGrow, TmemTypes
<1>. HIDE DEF s, u, depth
<1>7. ASSUME NEW c \in CTA PROVE f(c) \in {PhaseOf(u) - 1, PhaseOf(u)}
  <2>1. UsesOf(s, Read(c, i)) <= UsesOf(s, u) /\ UsesOf(s, u) <= UsesOf(s, Read(c, i)) + 1
    BY <1>1, <1>4, <1>6
  <2>. QED BY <1>2, <1>5, <2>1
<1>8. bar[TEMPTY(s)].turn = IF f(0) < f(1) THEN f(0) ELSE f(1)
  BY <1>1, <1>5 DEF Bar
<1>9. bar[TEMPTY(s)].turn = PhaseOf(u)
  <2>. DEFINE t == bar[TEMPTY(s)].turn
  <2>1. t \in {PhaseOf(u) - 1, (PhaseOf(u) - 1) + 1} /\ t \in Int
    BY <1>1, <1>2, <1>5, <1>7, <1>8
  <2>2. t % 2 # (PhaseOf(u) - 1) % 2
    BY <1>3 DEF Passed
  <2>. HIDE DEF t
  <2>3. t = (PhaseOf(u) - 1) + 1
    BY <1>2, <2>1, <2>2, Parity
  <2>. QED BY <1>2, <2>3 DEF t
<1>10. \A c \in CTA : f(c) = PhaseOf(u)
  BY <1>1, <1>2, <1>5, <1>7, <1>8, <1>9
<1>11. ASSUME NEW c \in CTA, ~(u + 1 <= Read(c, i) + depth) PROVE FALSE
  <2>1. Read(c, i) + depth <= u /\ Read(c, i) + depth \in Nat
    BY <1>1, <1>11
  <2>2. UsesOf(s, Read(c, i) + depth) <= UsesOf(s, u)
    BY <1>1, <1>6, <2>1
  <2>3. UsesOf(s, Read(c, i) + depth) = UsesOf(s, Read(c, i)) + 1
    BY <1>1, <1>6
  <2>. QED BY <1>2, <1>5, <1>10, <2>2, <2>3
<1>. QED BY <1>11 DEF u, depth

(* A consumer reads what the tensor core has finished.                       *)
LEMMA Waits ==
  ASSUME ClusterTypes, TmemInv, NEW c \in CTA, NEW i \in WG, ConsumerWait(c, i)
  PROVE  Read(c, i) < mmaDone[i]
<1>. DEFINE r == Read(c, i)
            d == mmaDone[i]
            s == SlotOf(i, r)
            depth == TMEM_PHASE_DEPTH
<1>1. r \in Nat /\ d \in Nat /\ depth \in {1, 2} /\ Uses(<<"mma", i>>) \in Nat
  BY TmemTypes
<1>2. s \in Slot /\ UsesOf(s, r) = PhaseOf(r) /\ PhaseOf(r) \in Nat
  BY <1>1, SlotUses, TmemTypes
<1>3. Passed(bar[TFULL(c, s)], PhaseOf(r))
  BY DEF ConsumerWait, Read, Uses
<1>4. r <= d /\ d <= r + depth
  <2>1. Uses(<<"mma", i>>) <= Acquired(i) /\ Acquired(i) \in Int
    BY <1>1 DEF Acquired
  <2>2. d <= Uses(<<"mma", i>>) /\ r <= d /\ Acquired(i) <= r + depth
    BY DEF TmemInv, MmaInv
  <2>. QED BY <1>1, <2>1, <2>2
<1>5. bar[TFULL(c, s)] = Bar(UsesOf(s, d), 1, 0, 1) /\ UsesOf(s, d) \in Nat
  BY <1>1, SlotBars
<1>6. UsesOf(s, r) <= UsesOf(s, d) /\ UsesOf(s, d) <= UsesOf(s, r) + 1
  <2>1. \A n, m \in Nat : /\ n <= m => UsesOf(s, n) <= UsesOf(s, m)
                          /\ m <= n + depth => UsesOf(s, m) <= UsesOf(s, n) + 1
    BY <1>2, UsesGrow, TmemTypes
  <2>. HIDE DEF s, depth, r, d
  <2>. QED BY <1>1, <1>4, <2>1
<1>. HIDE DEF s, depth, r, d
<1>7. bar[TFULL(c, s)].turn = UsesOf(s, d)
  BY <1>5 DEF Bar
<1>8. UsesOf(s, d) % 2 # PhaseOf(r) % 2
  BY <1>3, <1>7 DEF Passed
<1>9. UsesOf(s, d) # UsesOf(s, r)
  BY <1>2, <1>8
<1>. QED BY <1>1, <1>4, <1>9 DEF r, d

(* The consumers of a slot free it in turn: neither is a use ahead.          *)
LEMMA Frees ==
  ASSUME ClusterTypes, TmemInv, NEW c \in CTA, NEW i \in WG, At(<<"con", c, i>>) = "read"
  PROVE  LET s == SlotOf(i, Read(c, i))
             f == Freed(c, s)
         IN
         /\ f = UsesOf(s, Read(c, i)) /\ f \in Nat /\ UsesOf(s, Read(c, i) + 1) = f + 1
         /\ Freed(1 - c, s) \in {f, f + 1} /\ 1 - c \in CTA
         /\ bar[TEMPTY(s)] = Bar(f, IF Freed(1 - c, s) = f THEN 2 ELSE 1, 0, 2)
<1>. DEFINE r == Read(c, i)
            d == mmaDone[i]
            s == SlotOf(i, r)
            f == Freed(c, s)
            depth == TMEM_PHASE_DEPTH
            q == Read(1 - c, i)
            g == Freed(1 - c, s)
<1>0. CTA = {0, 1} /\ 1 - c \in CTA /\ c \in {0, 1}
  <2>1. CTA = {0, 1}
    BY TmemTypes
  <2>2. c \in {0, 1}
    BY <2>1
  <2>3. 1 - c \in {0, 1}
    BY <2>2
  <2>. QED BY <2>1, <2>2, <2>3
<1>1. /\ r \in Nat /\ d \in Nat /\ depth \in {1, 2} /\ Uses(<<"mma", i>>) \in Nat /\ q \in Nat
  BY <1>0, TmemTypes
<1>2. s \in Slot /\ UsesOf(s, r) = PhaseOf(r) /\ PhaseOf(r) \in Nat /\ UsesOf(s, r + 1) = PhaseOf(r) + 1
  BY <1>1, SlotUses, TmemTypes
<1>3. /\ f = UsesOf(s, r) /\ g = UsesOf(s, q) /\ f \in Nat /\ g \in Nat
      /\ bar[TEMPTY(s)] = Bar(IF Freed(0, s) < Freed(1, s) THEN Freed(0, s) ELSE Freed(1, s),
                                 IF Freed(0, s) = Freed(1, s) THEN 2 ELSE 1, 0, 2)
  BY <1>0, <1>1, SlotBars
<1>4. r < d /\ d <= r + depth /\ q <= d /\ d <= q + depth
  <2>1. Uses(<<"mma", i>>) <= Acquired(i) /\ Acquired(i) \in Int
    BY <1>1 DEF Acquired
  <2>2. /\ d <= Uses(<<"mma", i>>) /\ r < d /\ Acquired(i) <= r + depth
        /\ q <= d /\ Acquired(i) <= q + depth
    BY <1>0 DEF TmemInv, MmaInv
  <2>. QED BY <1>1, <2>1, <2>2
<1>5. \A n, m \in Nat : m <= n + depth => UsesOf(s, m) <= UsesOf(s, n) + 1
  BY <1>2, UsesGrow, TmemTypes
<1>. HIDE DEF s, depth, r, d, q
<1>6. UsesOf(s, r + 1) <= UsesOf(s, q) + 1 /\ UsesOf(s, q) <= UsesOf(s, r) + 1
  <2>1. r + 1 <= q + depth /\ q <= r + depth /\ r + 1 \in Nat
    BY <1>1, <1>4
  <2>. QED BY <1>1, <1>5, <2>1
<1>. HIDE DEF f, g
<1>7. g \in {f, f + 1}
  BY <1>2, <1>3, <1>6
<1>8. bar[TEMPTY(s)] = Bar(f, IF g = f THEN 2 ELSE 1, 0, 2)
  <2>1. CASE c = 0
    <3>1. f = Freed(0, s) /\ g = Freed(1, s)
      BY <2>1 DEF f, g
    <3>. QED BY <1>3, <1>7, <3>1
  <2>2. CASE c = 1
    <3>1. f = Freed(1, s) /\ g = Freed(0, s)
      BY <2>2 DEF f, g
    <3>. QED BY <1>3, <1>7, <3>1
  <2>. QED BY <1>0, <2>1, <2>2
<1>. QED BY <1>0, <1>2, <1>3, <1>7, <1>8 DEF f, g, s, r

LEMMA AcquireTmem ==
  ASSUME ClusterTypes, TmemInv, kernel' = kernel, NEW i \in WG, MmaAcquire(i)
  PROVE  TmemInv'
<1>. DEFINE x == <<"mma", i>>
            u == Uses(x)
            depth == TMEM_PHASE_DEPTH
<1>1. /\ kernel \in Kernels /\ RoleTypes /\ x \in Agent /\ agent' = Moved(x, "issue")
      /\ UNCHANGED <<bar, loads, queue, mmaDone, acc>> /\ At(x) = "acquire"
      /\ loads \in [CTA -> Seq(Answer)]
  BY AgentNames DEF ClusterTypes, RoleTypes, DataTypes, MmaAcquire, At
<1>2. At(x)' = "issue" /\ Uses(x)' = u /\ \A a \in Agent \ {x} : agent'[a] = agent[a]
  BY <1>1, MovedAgent DEF Place
<1>3. \A j \in WG \ {i} : /\ Uses(<<"mma", j>>)' = Uses(<<"mma", j>>)
                          /\ At(<<"mma", j>>)' = At(<<"mma", j>>)
  <2>1. \A j \in WG \ {i} : <<"mma", j>> \in Agent \ {x}
    BY <1>1, AgentNames, AgentApart
  <2>. QED BY <1>2, <2>1 DEF Uses, At
<1>4. \A c \in CTA, j \in WG : /\ Read(c, j)' = Read(c, j)
                               /\ At(<<"con", c, j>>)' = At(<<"con", c, j>>)
  <2>1. \A c \in CTA, j \in WG : <<"con", c, j>> \in Agent \ {x}
    BY <1>1, AgentNames, AgentApart
  <2>. QED BY <1>2, <2>1 DEF Uses, At, Read
<1>5. \A c \in CTA : /\ Len(loads'[c]) \in Nat /\ Len(loads[c]) <= Len(loads'[c])
                     /\ \A n \in 1 .. Len(loads[c]) : loads'[c][n] = loads[c][n]
  BY <1>1
<1>6. ASSUME NEW j \in WG, j # i PROVE MmaInv(j)'
  <2>1. /\ MmaInv(j) /\ Uses(<<"mma", j>>)' = Uses(<<"mma", j>>)
        /\ At(<<"mma", j>>)' = At(<<"mma", j>>)
    BY <1>3, <1>6 DEF TmemInv
  <2>2. queue'[j] = queue[j] /\ mmaDone'[j] = mmaDone[j] /\ acc' = acc
    BY <1>1
  <2>. QED BY <1>4, <1>5, <2>1, <2>2, MmaKept
<1>7. MmaInv(i)'
  <2>1. u \in Nat /\ depth \in {1, 2} /\ MmaInv(i) /\ \A c \in CTA : u + 1 <= Read(c, i) + depth
    BY <1>1, TmemTypes, Acquires DEF TmemInv
  <2>2. Acquired(i)' = u + 1
    BY <1>2 DEF Acquired
  <2>3. depth' = depth /\ \A n : SlotOf(i, n)' = SlotOf(i, n)
    BY Fixed
  <2>4. queue[i]' = queue[i] /\ mmaDone[i]' = mmaDone[i] /\ \A c \in CTA : loads[c]' = loads[c]
    BY <1>1
  <2>5. OVERLAP' = OVERLAP
    BY Fixed
  <2>6. /\ Len(queue[i])' = Uses(x)' - mmaDone[i]'
        /\ \A k \in 1 .. Len(queue[i])' : queue[i][k]' = SlotOf(i, mmaDone[i] + k - 1)'
    <3>1. \A k : SlotOf(i, mmaDone[i] + k - 1)' = SlotOf(i, mmaDone[i] + k - 1)
      BY <2>3, <2>4, <2>5 DEF SlotOf
    <3>2. /\ Len(queue[i]) = Uses(x) - mmaDone[i]
          /\ \A k \in 1 .. Len(queue[i]) : queue[i][k] = SlotOf(i, mmaDone[i] + k - 1)
      BY <2>1 DEF MmaInv
    <3>. QED BY <1>2, <2>4, <3>1, <3>2
  <2>7. \A n \in Nat : n < mmaDone[i]' /\ Uses(x)' <= n + depth' =>
          acc'[SlotOf(i, n)'] = <<loads'[0][n + 1], loads'[1][n + 1]>>
    <3>1. \A n \in Nat : n < mmaDone[i] /\ Uses(x) <= n + depth =>
            acc[SlotOf(i, n)] = <<loads[0][n + 1], loads[1][n + 1]>>
      BY <2>1 DEF MmaInv
    <3>. QED BY <1>1, <1>2, <2>3, <2>4, <3>1
  <2>8. \A c \in CTA : /\ Read(c, i)' <= mmaDone[i]' /\ Acquired(i)' <= Read(c, i)' + depth'
                       /\ At(<<"con", c, i>>)' = "read" => Read(c, i)' < mmaDone[i]'
                       /\ Uses(x)' <= Len(loads'[c])
    <3>1. \A c \in CTA : /\ Read(c, i) <= mmaDone[i] /\ Uses(x) <= Len(loads[c])
                         /\ At(<<"con", c, i>>) = "read" => Read(c, i) < mmaDone[i]
      BY <2>1 DEF MmaInv
    <3>. QED BY <1>2, <1>4, <2>1, <2>2, <2>3, <2>4, <3>1
  <2>9. mmaDone[i]' <= Uses(x)'
    BY <1>2, <2>1, <2>4 DEF MmaInv
  <2>. QED BY <2>6, <2>7, <2>8, <2>9 DEF MmaInv
<1>8. ASSUME NEW s \in Slot PROVE SlotInv(s)'
  <2>1. SlotInv(s) /\ Owner(s) \in WG
    BY <1>1, UsesGrow DEF TmemInv
  <2>2. \A c \in CTA : Read(c, Owner(s))' = Read(c, Owner(s))
    <3>1. Owner(s)' = Owner(s)
      BY Fixed
    <3>. QED BY <1>4, <2>1, <3>1 DEF Read, Uses
  <2>. QED BY <1>1, <2>1, <2>2, SlotKept
<1>9. WG' = WG /\ Slot' = Slot
  BY Fixed DEF Slot
<1>. QED BY <1>6, <1>7, <1>8, <1>9 DEF TmemInv

LEMMA IssueTmem ==
  ASSUME ClusterTypes, TmemInv, kernel' = kernel, NEW i \in WG, MmaIssue(i)
  PROVE  TmemInv'
<1>. DEFINE x == <<"mma", i>>
            u == Uses(x)
            s == SlotOf(i, u)
            depth == TMEM_PHASE_DEPTH
<1>1. /\ kernel \in Kernels /\ RoleTypes /\ UNCHANGED <<bar, loads, mmaDone>>
      /\ loads \in [CTA -> Seq(Answer)] /\ acc = [t \in Slot |-> acc[t]] /\ queue \in [WG -> Seq(Slot)]
      /\ acc' = [acc EXCEPT ![s] = Partial] /\ queue' = [queue EXCEPT ![i] = Append(@, s)]
      /\ \A c \in CTA : Len(loads[c]) > u
  BY DEF ClusterTypes, RoleTypes, DataTypes, MmaIssue, Uses
<1>2. /\ x \in Agent /\ At(x) = "issue" /\ At(x)' # "issue" /\ Uses(x)' = u + 1
      /\ \A a \in Agent \ {x} : agent'[a] = agent[a]
  BY IssueAgent DEF End
<1>3. /\ u \in Nat /\ depth \in {1, 2} /\ MmaInv(i) /\ mmaDone[i] \in Nat /\ CTA = {0, 1}
      /\ \A c \in CTA : Read(c, i) \in Nat /\ Len(loads[c]) \in Nat
  BY TmemTypes DEF TmemInv
<1>4. s \in Slot
  BY <1>1, <1>3, SlotUses
<1>5. \A j \in WG \ {i} : /\ Uses(<<"mma", j>>)' = Uses(<<"mma", j>>)
                          /\ At(<<"mma", j>>)' = At(<<"mma", j>>)
  <2>1. \A j \in WG \ {i} : <<"mma", j>> \in Agent \ {x}
    BY <1>1, AgentNames, AgentApart
  <2>. QED BY <1>2, <2>1 DEF Uses, At
<1>6. \A c \in CTA, j \in WG : /\ Read(c, j)' = Read(c, j)
                               /\ At(<<"con", c, j>>)' = At(<<"con", c, j>>)
  <2>1. \A c \in CTA, j \in WG : <<"con", c, j>> \in Agent \ {x}
    BY <1>1, AgentNames, AgentApart
  <2>. QED BY <1>2, <2>1 DEF Uses, At, Read
<1>7. \A c \in CTA : /\ Len(loads'[c]) \in Nat /\ Len(loads[c]) <= Len(loads'[c])
                     /\ \A n \in 1 .. Len(loads[c]) : loads'[c][n] = loads[c][n]
  BY <1>1
<1>8. ASSUME NEW j \in WG, j # i PROVE MmaInv(j)'
  <2>1. /\ MmaInv(j) /\ Uses(<<"mma", j>>)' = Uses(<<"mma", j>>)
        /\ At(<<"mma", j>>)' = At(<<"mma", j>>)
    BY <1>5, <1>8 DEF TmemInv
  <2>2. queue'[j] = queue[j] /\ mmaDone'[j] = mmaDone[j]
    BY <1>1, <1>8
  <2>3. ASSUME NEW n \in Nat PROVE acc'[SlotOf(j, n)] = acc[SlotOf(j, n)]
    <3>1. SlotOf(j, n) # s
      BY <1>1, <1>3, <1>8, SlotsReused
    <3>2. SlotOf(j, n) \in Slot
      BY <1>1, SlotUses
    <3>. HIDE DEF s
    <3>. QED BY <1>1, <3>1, <3>2
  <2>. QED BY <1>6, <1>7, <2>1, <2>2, <2>3, MmaKept
<1>9. MmaInv(i)'
  <2>1. Acquired(i) = u + 1 /\ Acquired(i)' = u + 1
    BY <1>2, <1>3 DEF Acquired
  <2>2. depth' = depth /\ OVERLAP' = OVERLAP /\ \A n : SlotOf(i, n)' = SlotOf(i, n)
    BY Fixed
  <2>3. /\ queue[i]' = Append(queue[i], s) /\ queue[i] \in Seq(Slot) /\ mmaDone[i]' = mmaDone[i]
        /\ \A c \in CTA : loads[c]' = loads[c]
    BY <1>1
  <2>4. /\ Len(queue[i])' = Uses(x)' - mmaDone[i]'
        /\ \A k \in 1 .. Len(queue[i])' : queue[i][k]' = SlotOf(i, mmaDone[i] + k - 1)'
    <3>1. \A k : SlotOf(i, mmaDone[i] + k - 1)' = SlotOf(i, mmaDone[i] + k - 1)
      BY <2>2, <2>3 DEF SlotOf
    <3>2. /\ Len(queue[i]) = u - mmaDone[i] /\ mmaDone[i] <= u
          /\ \A k \in 1 .. Len(queue[i]) : queue[i][k] = SlotOf(i, mmaDone[i] + k - 1)
      BY <1>3 DEF MmaInv
    <3>. DEFINE q == queue[i]
                d == mmaDone[i]
    <3>3. /\ Len(Append(q, s)) = Len(q) + 1 /\ Append(q, s)[Len(q) + 1] = s /\ Len(q) \in Nat
          /\ \A k \in 1 .. Len(q) : Append(q, s)[k] = q[k]
      BY <1>4, <2>3, AppendProperties
    <3>4. Len(q)' = Len(q) + 1 /\ Len(q)' = (u + 1) - d
      BY <1>3, <2>3, <3>2, <3>3
    <3>5. ASSUME NEW k \in 1 .. Len(q) + 1 PROVE Append(q, s)[k] = SlotOf(i, d + k - 1)
      <4>1. CASE k = Len(q) + 1
        <5>1. d + k - 1 = u
          <6>1. \A l, e, v \in Nat : l = v - e => e + (l + 1) - 1 = v
            OBVIOUS
          <6>2. d \in Nat /\ u \in Nat /\ Len(q) \in Nat /\ Len(q) = u - d
            BY <1>3, <3>2, <3>3
          <6>. QED BY <4>1, <6>1, <6>2
        <5>. QED BY <3>3, <4>1, <5>1
      <4>2. CASE k # Len(q) + 1
        <5>1. k \in 1 .. Len(q)
          BY <3>3, <4>2
        <5>. QED BY <3>2, <3>3, <5>1
      <4>. QED BY <4>1, <4>2
    <3>6. \A k \in 1 .. Len(q)' : queue[i]'[k] = SlotOf(i, d + k - 1)
      BY <2>3, <3>4, <3>5
    <3>. QED BY <1>2, <2>3, <3>1, <3>4, <3>6
  <2>5. ASSUME NEW n \in Nat, n < mmaDone[i], u + 1 <= n + depth
        PROVE  acc'[SlotOf(i, n)] = <<loads[0][n + 1], loads[1][n + 1]>>
    <3>1. mmaDone[i] <= u
      BY <1>3 DEF MmaInv
    <3>2. SlotOf(i, n) # s
      BY <1>1, <1>3, <2>5, <3>1, SlotsReused
    <3>3. SlotOf(i, n) \in Slot
      BY <1>1, SlotUses
    <3>4. acc'[SlotOf(i, n)] = acc[SlotOf(i, n)]
      <4>. HIDE DEF s
      <4>. QED BY <1>1, <3>2, <3>3
    <3>5. u <= n + depth
      BY <1>3, <2>5
    <3>6. acc[SlotOf(i, n)] = <<loads[0][n + 1], loads[1][n + 1]>>
      BY <1>3, <2>5, <3>5 DEF MmaInv
    <3>. QED BY <3>4, <3>6
  <2>6. \A n \in Nat : n < mmaDone[i]' /\ Uses(x)' <= n + depth' =>
          acc'[SlotOf(i, n)'] = <<loads'[0][n + 1], loads'[1][n + 1]>>
    BY <1>1, <1>2, <2>2, <2>3, <2>5
  <2>7. \A c \in CTA : /\ Read(c, i)' <= mmaDone[i]' /\ Acquired(i)' <= Read(c, i)' + depth'
                       /\ At(<<"con", c, i>>)' = "read" => Read(c, i)' < mmaDone[i]'
                       /\ Uses(x)' <= Len(loads'[c])
    <3>1. \A c \in CTA : /\ Read(c, i) <= mmaDone[i] /\ Acquired(i) <= Read(c, i) + depth
                         /\ At(<<"con", c, i>>) = "read" => Read(c, i) < mmaDone[i]
      BY <1>3 DEF MmaInv
    <3>2. \A c \in CTA : u + 1 <= Len(loads[c])
      BY <1>1, <1>3
    <3>. QED BY <1>1, <1>2, <1>6, <2>1, <2>2, <2>3, <3>1, <3>2
  <2>8. mmaDone[i]' <= Uses(x)'
    <3>1. mmaDone[i] <= u
      BY <1>3 DEF MmaInv
    <3>. QED BY <1>2, <1>3, <2>3, <3>1
  <2>. QED BY <2>4, <2>6, <2>7, <2>8 DEF MmaInv
<1>10. ASSUME NEW t \in Slot PROVE SlotInv(t)'
  <2>1. SlotInv(t) /\ Owner(t) \in WG
    BY <1>1, UsesGrow DEF TmemInv
  <2>2. \A c \in CTA : Read(c, Owner(t))' = Read(c, Owner(t))
    <3>1. Owner(t)' = Owner(t)
      BY Fixed
    <3>. QED BY <1>6, <2>1, <3>1 DEF Read, Uses
  <2>. QED BY <1>1, <2>1, <2>2, SlotKept
<1>11. WG' = WG /\ Slot' = Slot
  BY Fixed DEF Slot
<1>. QED BY <1>8, <1>9, <1>10, <1>11 DEF TmemInv

LEMMA DoneTmem ==
  ASSUME ClusterTypes, TmemInv, kernel' = kernel, NEW i \in WG, TensorDone(i)
  PROVE  /\ TmemInv' /\ mmaDone[i] < Uses(<<"mma", i>>)
         /\ mmaDone' = [mmaDone EXCEPT ![i] = @ + 1] /\ queue' = [queue EXCEPT ![i] = Tail(@)]
<1>. DEFINE x == <<"mma", i>>
            u == Uses(x)
            d == mmaDone[i]
            q == queue[i]
            s == Head(q)
            depth == TMEM_PHASE_DEPTH
<1>1. /\ kernel \in Kernels /\ RoleTypes /\ UNCHANGED <<agent, loads>>
      /\ loads \in [CTA -> Seq(Answer)] /\ acc = [t \in Slot |-> acc[t]] /\ queue \in [WG -> Seq(Slot)]
      /\ mmaDone \in [WG -> Nat] /\ q # <<>>
      /\ acc' = [acc EXCEPT ![s] = <<loads[0][d + 1], loads[1][d + 1]>>]
      /\ queue' = [queue EXCEPT ![i] = Tail(@)] /\ mmaDone' = [mmaDone EXCEPT ![i] = d + 1]
      /\ bar' = [b \in Barrier |-> IF b \in {TFULL(c, s) : c \in CTA} THEN Arrive(bar[b]) ELSE bar[b]]
  BY DEF ClusterTypes, RoleTypes, DataTypes, TensorDone
<1>2. \A a : Uses(a)' = Uses(a) /\ At(a)' = At(a)
  BY <1>1 DEF Uses, At
<1>3. /\ u \in Nat /\ depth \in {1, 2} /\ MmaInv(i) /\ d \in Nat /\ CTA = {0, 1}
      /\ \A c \in CTA : Read(c, i) \in Nat /\ Len(loads[c]) \in Nat
  BY TmemTypes DEF TmemInv
<1>4. /\ Len(q) = u - d /\ d <= u
      /\ \A k \in 1 .. Len(q) : q[k] = SlotOf(i, d + k - 1)
  BY <1>3 DEF MmaInv
<1>5. q \in Seq(Slot) /\ Len(q) \in Nat \ {0}
  <2>1. q \in Seq(Slot)
    BY <1>1
  <2>. HIDE DEF q
  <2>. QED BY <1>1, <2>1, EmptySeq
<1>6. d < u /\ s = SlotOf(i, d) /\ s \in Slot
  <2>1. d < u /\ 1 \in 1 .. Len(q)
    BY <1>3, <1>4, <1>5
  <2>2. q[1] = SlotOf(i, d + 1 - 1) /\ d + 1 - 1 = d
    BY <1>3, <1>4, <2>1
  <2>3. s = q[1]
    <3>. HIDE DEF q
    <3>. QED BY <1>5
  <2>. QED BY <1>1, <1>3, <2>1, <2>2, <2>3, SlotUses
<1>. HIDE DEF s
<1>7. \A c \in CTA, j \in WG : /\ Read(c, j)' = Read(c, j)
                               /\ At(<<"con", c, j>>)' = At(<<"con", c, j>>)
  BY <1>2 DEF Read
<1>8. ASSUME NEW j \in WG, j # i PROVE MmaInv(j)'
  <2>1. /\ MmaInv(j) /\ Uses(<<"mma", j>>)' = Uses(<<"mma", j>>)
        /\ At(<<"mma", j>>)' = At(<<"mma", j>>)
    BY <1>2 DEF TmemInv
  <2>2. queue'[j] = queue[j] /\ mmaDone'[j] = mmaDone[j]
    BY <1>1, <1>8
  <2>3. ASSUME NEW n \in Nat PROVE acc'[SlotOf(j, n)] = acc[SlotOf(j, n)]
    <3>1. SlotOf(j, n) # s
      BY <1>1, <1>3, <1>6, <1>8, SlotsReused
    <3>2. SlotOf(j, n) \in Slot
      BY <1>1, SlotUses
    <3>. QED BY <1>1, <3>1, <3>2
  <2>4. \A c \in CTA : /\ Len(loads'[c]) \in Nat /\ Len(loads[c]) <= Len(loads'[c])
                       /\ \A n \in 1 .. Len(loads[c]) : loads'[c][n] = loads[c][n]
    BY <1>1
  <2>. QED BY <1>7, <2>1, <2>2, <2>3, <2>4, MmaKept
<1>9. MmaInv(i)'
  <2>1. depth' = depth /\ OVERLAP' = OVERLAP /\ \A n : SlotOf(i, n)' = SlotOf(i, n)
    BY Fixed
  <2>2. Acquired(i)' = Acquired(i) /\ Uses(x)' = u
    BY <1>2 DEF Acquired
  <2>3. queue[i]' = Tail(q) /\ mmaDone[i]' = d + 1 /\ \A c \in CTA : loads[c]' = loads[c]
    BY <1>1
  <2>4. /\ Len(queue[i])' = Uses(x)' - mmaDone[i]'
        /\ \A k \in 1 .. Len(queue[i])' : queue[i][k]' = SlotOf(i, mmaDone[i] + k - 1)'
    <3>1. \A k : SlotOf(i, mmaDone[i] + k - 1)' = SlotOf(i, (d + 1) + k - 1)
      BY <2>1, <2>3 DEF SlotOf
    <3>2. /\ Len(Tail(q)) = Len(q) - 1
          /\ \A k \in 1 .. Len(Tail(q)) : Tail(q)[k] = q[k + 1]
      <4>. HIDE DEF q
      <4>. QED BY <1>1, <1>5, HeadTailProperties
    <3>3. Len(queue[i])' = u - (d + 1) /\ Len(queue[i])' = Len(q) - 1
      BY <1>3, <1>4, <2>3, <3>2
    <3>4. ASSUME NEW k \in 1 .. Len(q) - 1 PROVE Tail(q)[k] = SlotOf(i, (d + 1) + k - 1)
      <4>1. k + 1 \in 1 .. Len(q) /\ d + (k + 1) - 1 = (d + 1) + k - 1
        <5>1. \A l, e \in Nat : \A j \in 1 .. l - 1 : j + 1 \in 1 .. l /\ e + (j + 1) - 1 = (e + 1) + j - 1
          OBVIOUS
        <5>2. d \in Nat /\ Len(q) \in Nat
          BY <1>3, <1>5
        <5>. QED BY <5>1, <5>2
      <4>. QED BY <1>4, <3>2, <4>1
    <3>. QED BY <2>2, <2>3, <3>1, <3>3, <3>4
  <2>5. ASSUME NEW n \in Nat, n < d + 1, u <= n + depth
        PROVE  acc'[SlotOf(i, n)] = <<loads[0][n + 1], loads[1][n + 1]>>
    <3>1. CASE n = d
      BY <1>1, <1>6, <3>1
    <3>2. CASE n # d
      <4>1. n < d
        BY <1>3, <2>5, <3>2
      <4>2. SlotOf(i, n) # s
        BY <1>1, <1>3, <1>6, <2>5, <4>1, SlotsReused
      <4>3. SlotOf(i, n) \in Slot
        BY <1>1, SlotUses
      <4>4. acc'[SlotOf(i, n)] = acc[SlotOf(i, n)]
        BY <1>1, <4>2, <4>3
      <4>5. acc[SlotOf(i, n)] = <<loads[0][n + 1], loads[1][n + 1]>>
        BY <1>3, <2>5, <4>1 DEF MmaInv
      <4>. QED BY <4>4, <4>5
    <3>. QED BY <3>1, <3>2
  <2>6. \A n \in Nat : n < mmaDone[i]' /\ Uses(x)' <= n + depth' =>
          acc'[SlotOf(i, n)'] = <<loads'[0][n + 1], loads'[1][n + 1]>>
    BY <1>1, <2>1, <2>2, <2>3, <2>5
  <2>7. \A c \in CTA : /\ Read(c, i)' <= mmaDone[i]' /\ Acquired(i)' <= Read(c, i)' + depth'
                       /\ At(<<"con", c, i>>)' = "read" => Read(c, i)' < mmaDone[i]'
                       /\ Uses(x)' <= Len(loads'[c])
    <3>1. \A c \in CTA : /\ Read(c, i) <= d /\ Acquired(i) <= Read(c, i) + depth
                         /\ u <= Len(loads[c])
      BY <1>3 DEF MmaInv
    <3>. QED BY <1>1, <1>3, <1>7, <2>1, <2>2, <2>3, <3>1
  <2>8. mmaDone[i]' <= Uses(x)'
    BY <1>3, <1>6, <2>2, <2>3
  <2>. QED BY <2>4, <2>6, <2>7, <2>8 DEF MmaInv
<1>10. ASSUME NEW t \in Slot PROVE SlotInv(t)'
  <2>1. SlotInv(t) /\ Owner(t) \in WG /\ Owner(t)' = Owner(t) /\ \A n : UsesOf(t, n)' = UsesOf(t, n)
    BY <1>1, UsesGrow, Fixed DEF TmemInv
  <2>2. bar'[TEMPTY(t)] = bar[TEMPTY(t)]
    BY <1>1, BarNames, BarApart
  <2>3. \A c \in CTA : bar'[TFULL(c, t)] = IF t = s THEN Arrive(bar[TFULL(c, t)]) ELSE bar[TFULL(c, t)]
    BY <1>1, BarNames, BarApart
  <2>4. \A c \in CTA : Read(c, Owner(t))' = Read(c, Owner(t))
    BY <1>2, <2>1 DEF Read, Uses
  <2>5. CASE t = s
    <3>1. Owner(t) = i /\ UsesOf(t, d + 1) = UsesOf(t, d) + 1 /\ UsesOf(t, d) \in Nat
      BY <1>1, <1>3, <1>6, <2>5, SlotUses
    <3>2. \A c \in CTA : bar[TFULL(c, t)] = Bar(UsesOf(t, d), 1, 0, 1)
      BY <2>1, <3>1 DEF SlotInv
    <3>3. Arrive(Bar(UsesOf(t, d), 1, 0, 1)) = Bar(UsesOf(t, d) + 1, 1, 0, 1)
      BY <3>1, BarArrives
    <3>4. \A c \in CTA : bar'[TFULL(c, t)] = Bar(UsesOf(t, d + 1), 1, 0, 1)
      BY <2>3, <2>5, <3>1, <3>2, <3>3
    <3>5. UsesOf(t, mmaDone[Owner(t)])' = UsesOf(t, d + 1)
      BY <1>1, <2>1, <3>1 DEF UsesOf
    <3>6. \A c \in CTA : Freed(c, t)' = Freed(c, t)
      BY <1>2, <2>1 DEF Freed, Read
    <3>7. 0 \in CTA /\ 1 \in CTA /\ bar[TEMPTY(t)]' = bar[TEMPTY(t)]
          /\ \A c \in CTA : bar[TFULL(c, t)]' = bar'[TFULL(c, t)]
      BY <1>3, <2>2 DEF TEMPTY, TFULL
    <3>. QED BY <2>1, <3>4, <3>5, <3>6, <3>7 DEF SlotInv
  <2>6. CASE t # s /\ Owner(t) = i
    <3>1. UsesOf(t, d + 1) = UsesOf(t, d)
      BY <1>1, <1>3, <1>6, <2>6, SlotUses
    <3>2. \A c \in CTA : bar[TFULL(c, t)] = Bar(UsesOf(t, d), 1, 0, 1)
      BY <2>1, <2>6 DEF SlotInv
    <3>4. \A c \in CTA : bar'[TFULL(c, t)] = Bar(UsesOf(t, d + 1), 1, 0, 1)
      BY <2>3, <2>6, <3>1, <3>2
    <3>5. UsesOf(t, mmaDone[Owner(t)])' = UsesOf(t, d + 1)
      BY <1>1, <2>1, <2>6 DEF UsesOf
    <3>6. \A c \in CTA : Freed(c, t)' = Freed(c, t)
      BY <1>2, <2>1 DEF Freed, Read
    <3>7. 0 \in CTA /\ 1 \in CTA /\ bar[TEMPTY(t)]' = bar[TEMPTY(t)]
          /\ \A c \in CTA : bar[TFULL(c, t)]' = bar'[TFULL(c, t)]
      BY <1>3, <2>2 DEF TEMPTY, TFULL
    <3>. QED BY <2>1, <3>4, <3>5, <3>6, <3>7 DEF SlotInv
  <2>7. CASE t # s /\ Owner(t) # i
    <3>1. mmaDone'[Owner(t)] = mmaDone[Owner(t)]
      BY <1>1, <2>1, <2>7
    <3>2. \A c \in CTA : bar'[TFULL(c, t)] = bar[TFULL(c, t)]
      BY <2>3, <2>7
    <3>. QED BY <2>1, <2>2, <2>4, <3>1, <3>2, SlotKept
  <2>. QED BY <2>5, <2>6, <2>7
<1>11. WG' = WG /\ Slot' = Slot
  BY Fixed DEF Slot
<1>12. mmaDone' = [mmaDone EXCEPT ![i] = @ + 1]
  BY <1>1
<1>. QED BY <1>1, <1>6, <1>8, <1>9, <1>10, <1>11, <1>12 DEF TmemInv

LEMMA WaitTmem ==
  ASSUME ClusterTypes, TmemInv, kernel' = kernel, NEW c \in CTA, NEW i \in WG, ConsumerWait(c, i)
  PROVE  TmemInv'
<1>. DEFINE x == <<"con", c, i>>
<1>1. /\ kernel \in Kernels /\ RoleTypes /\ x \in Agent /\ agent' = Moved(x, "read")
      /\ UNCHANGED <<bar, loads, queue, mmaDone, acc>> /\ loads \in [CTA -> Seq(Answer)]
  BY AgentNames DEF ClusterTypes, RoleTypes, DataTypes, ConsumerWait
<1>2. Uses(x)' = Uses(x) /\ \A a \in Agent \ {x} : agent'[a] = agent[a]
  BY <1>1, MovedAgent DEF Place
<1>3. \A j \in WG : /\ Uses(<<"mma", j>>)' = Uses(<<"mma", j>>)
                    /\ At(<<"mma", j>>)' = At(<<"mma", j>>)
  <2>1. \A j \in WG : <<"mma", j>> \in Agent \ {x}
    BY <1>1, AgentNames, AgentApart
  <2>. QED BY <1>2, <2>1 DEF Uses, At
<1>4. \A d \in CTA, j \in WG : Read(d, j)' = Read(d, j)
  <2>1. \A d \in CTA, j \in WG : <<"con", d, j>> \in Agent
    BY <1>1, AgentNames
  <2>. QED BY <1>2, <2>1 DEF Uses, Read
<1>5. \A d \in CTA, j \in WG : <<"con", d, j>> # x => At(<<"con", d, j>>)' = At(<<"con", d, j>>)
  <2>1. \A d \in CTA, j \in WG : <<"con", d, j>> \in Agent
    BY <1>1, AgentNames
  <2>. QED BY <1>2, <2>1 DEF At
<1>6. \A d \in CTA : /\ Len(loads'[d]) \in Nat /\ Len(loads[d]) <= Len(loads'[d])
                     /\ \A n \in 1 .. Len(loads[d]) : loads'[d][n] = loads[d][n]
  BY <1>1
<1>7. Read(c, i) < mmaDone[i]
  BY Waits
<1>8. ASSUME NEW j \in WG PROVE MmaInv(j)'
  <2>1. /\ MmaInv(j) /\ Uses(<<"mma", j>>)' = Uses(<<"mma", j>>)
        /\ At(<<"mma", j>>)' = At(<<"mma", j>>)
    BY <1>3 DEF TmemInv
  <2>2. queue'[j] = queue[j] /\ mmaDone'[j] = mmaDone[j] /\ acc' = acc
    BY <1>1
  <2>3. ASSUME NEW d \in CTA
        PROVE  /\ Read(d, j)' \in Nat /\ Read(d, j) <= Read(d, j)' /\ Read(d, j)' <= mmaDone[j]
               /\ At(<<"con", d, j>>)' = "read" => Read(d, j)' < mmaDone[j]
    <3>1. Read(d, j) \in Nat /\ mmaDone[j] \in Nat /\ Read(d, j)' = Read(d, j)
      BY <1>4, TmemTypes
    <3>2. Read(d, j) <= mmaDone[j] /\ (At(<<"con", d, j>>) = "read" => Read(d, j) < mmaDone[j])
      BY <2>1 DEF MmaInv
    <3>3. At(<<"con", d, j>>)' = "read" => Read(d, j) < mmaDone[j]
      <4>1. CASE <<"con", d, j>> = x
        <5>1. d = c /\ j = i
          BY <4>1, AgentApart
        <5>. QED BY <1>7, <5>1
      <4>2. CASE <<"con", d, j>> # x
        BY <1>5, <3>2, <4>2
      <4>. QED BY <4>1, <4>2
    <3>. QED BY <3>1, <3>2, <3>3
  <2>. QED BY <1>6, <2>1, <2>2, <2>3, MmaLater
<1>9. ASSUME NEW t \in Slot PROVE SlotInv(t)'
  <2>1. SlotInv(t) /\ Owner(t) \in WG
    BY <1>1, UsesGrow DEF TmemInv
  <2>2. \A d \in CTA : Read(d, Owner(t))' = Read(d, Owner(t))
    <3>1. Owner(t)' = Owner(t)
      BY Fixed
    <3>. QED BY <1>4, <2>1, <3>1 DEF Read, Uses
  <2>. QED BY <1>1, <2>1, <2>2, SlotKept
<1>10. WG' = WG /\ Slot' = Slot
  BY Fixed DEF Slot
<1>. QED BY <1>8, <1>9, <1>10 DEF TmemInv

LEMMA WritebackTmem ==
  ASSUME ClusterTypes, TmemInv, kernel' = kernel, NEW c \in CTA, NEW i \in WG, Writeback(c, i)
  PROVE  TmemInv'
<1>. DEFINE x == <<"con", c, i>>
            r == Read(c, i)
            s == SlotOf(i, r)
            f == Freed(c, s)
<1>1. /\ kernel \in Kernels /\ RoleTypes /\ UNCHANGED <<loads, queue, mmaDone, acc>>
      /\ loads \in [CTA -> Seq(Answer)] /\ bar \in [Barrier -> BarRecord]
      /\ bar' = [bar EXCEPT ![TEMPTY(s)] = Arrive(@)]
  BY DEF ClusterTypes, RoleTypes, DataTypes, Writeback, Read, Uses
<1>2. /\ x \in Agent /\ At(x) = "read" /\ At(x)' # "read" /\ Uses(x)' = Uses(x) + 1
      /\ \A a \in Agent \ {x} : agent'[a] = agent[a]
  BY WritebackAgent
<1>3. r \in Nat /\ mmaDone[i] \in Nat /\ CTA = {0, 1} /\ Read(c, i)' = r + 1
  BY <1>2, TmemTypes DEF Read
<1>4. \A j \in WG : /\ Uses(<<"mma", j>>)' = Uses(<<"mma", j>>)
                    /\ At(<<"mma", j>>)' = At(<<"mma", j>>)
  <2>1. \A j \in WG : <<"mma", j>> \in Agent \ {x}
    BY <1>1, AgentNames, AgentApart
  <2>. QED BY <1>2, <2>1 DEF Uses, At
<1>5. \A d \in CTA, j \in WG : <<"con", d, j>> # x =>
        Read(d, j)' = Read(d, j) /\ At(<<"con", d, j>>)' = At(<<"con", d, j>>)
  <2>1. \A d \in CTA, j \in WG : <<"con", d, j>> \in Agent
    BY <1>1, AgentNames
  <2>. QED BY <1>2, <2>1 DEF At, Read, Uses
<1>6. \A d \in CTA : /\ Len(loads'[d]) \in Nat /\ Len(loads[d]) <= Len(loads'[d])
                     /\ \A n \in 1 .. Len(loads[d]) : loads'[d][n] = loads[d][n]
  BY <1>1
<1>7. r < mmaDone[i]
  BY <1>2 DEF TmemInv, MmaInv
<1>8. /\ f = UsesOf(s, r) /\ f \in Nat /\ UsesOf(s, r + 1) = f + 1
      /\ Freed(1 - c, s) \in {f, f + 1} /\ 1 - c \in CTA
      /\ bar[TEMPTY(s)] = Bar(f, IF Freed(1 - c, s) = f THEN 2 ELSE 1, 0, 2)
  BY <1>2, Frees
<1>9. s \in Slot /\ Owner(s) = i /\ TEMPTY(s) \in Barrier
  BY <1>1, <1>3, SlotUses, BarNames
<1>. HIDE DEF s, f, r, x
<1>10. ASSUME NEW j \in WG PROVE MmaInv(j)'
  <2>1. /\ MmaInv(j) /\ Uses(<<"mma", j>>)' = Uses(<<"mma", j>>)
        /\ At(<<"mma", j>>)' = At(<<"mma", j>>)
    BY <1>4 DEF TmemInv
  <2>2. queue'[j] = queue[j] /\ mmaDone'[j] = mmaDone[j] /\ acc' = acc
    BY <1>1
  <2>3. ASSUME NEW d \in CTA
        PROVE  /\ Read(d, j)' \in Nat /\ Read(d, j) <= Read(d, j)' /\ Read(d, j)' <= mmaDone[j]
               /\ At(<<"con", d, j>>)' = "read" => Read(d, j)' < mmaDone[j]
    <3>1. Read(d, j) \in Nat /\ mmaDone[j] \in Nat
      BY TmemTypes
    <3>2. Read(d, j) <= mmaDone[j] /\ (At(<<"con", d, j>>) = "read" => Read(d, j) < mmaDone[j])
      BY <2>1 DEF MmaInv
    <3>3. CASE <<"con", d, j>> = x
      <4>1. d = c /\ j = i
        BY <3>3, AgentApart DEF x
      <4>2. Read(d, j) = r /\ Read(d, j)' = r + 1 /\ At(<<"con", d, j>>)' # "read"
        BY <1>2, <1>3, <3>3, <4>1 DEF r
      <4>. QED BY <1>3, <1>7, <3>1, <4>1, <4>2
    <3>4. CASE <<"con", d, j>> # x
      <4>1. Read(d, j)' = Read(d, j) /\ At(<<"con", d, j>>)' = At(<<"con", d, j>>)
        BY <1>5, <3>4
      <4>. QED BY <3>1, <3>2, <4>1
    <3>. QED BY <3>3, <3>4
  <2>. QED BY <1>6, <2>1, <2>2, <2>3, MmaLater
<1>11. ASSUME NEW t \in Slot PROVE SlotInv(t)'
  <2>1. SlotInv(t) /\ Owner(t) \in WG /\ Owner(t)' = Owner(t) /\ \A n : UsesOf(t, n)' = UsesOf(t, n)
    BY <1>1, UsesGrow, Fixed DEF TmemInv
  <2>2. \A d \in CTA : bar'[TFULL(d, t)] = bar[TFULL(d, t)]
    BY <1>1, BarNames, BarApart
  <2>3. CASE t # s
    <3>1. bar'[TEMPTY(t)] = bar[TEMPTY(t)]
      BY <1>1, <2>3, BarNames, BarApart
    <3>2. CASE Owner(t) # i
      <4>1. \A d \in CTA : <<"con", d, Owner(t)>> # x
        BY <3>2, AgentApart DEF x
      <4>2. \A d \in CTA : Read(d, Owner(t))' = Read(d, Owner(t))
        BY <1>5, <2>1, <4>1 DEF Read, Uses
      <4>3. mmaDone' = mmaDone
        BY <1>1
      <4>. QED BY <2>1, <2>2, <3>1, <4>2, <4>3, SlotKept
    <3>3. CASE Owner(t) = i
      <4>1. UsesOf(t, r + 1) = UsesOf(t, r)
        BY <1>1, <1>3, <2>3, <3>3, SlotUses DEF s
      <4>2. ASSUME NEW d \in CTA PROVE Freed(d, t)' = Freed(d, t)
        <5>1. Freed(d, t) = UsesOf(t, Read(d, i))
          BY <3>3 DEF Freed
        <5>2. Freed(d, t)' = UsesOf(t, Read(d, i)')
          BY <2>1, <3>3 DEF Freed, UsesOf, Read, Uses
        <5>3. CASE d = c
          BY <1>3, <4>1, <5>1, <5>2, <5>3 DEF r
        <5>4. CASE d # c
          <6>1. <<"con", d, i>> # x
            BY <5>4, AgentApart DEF x
          <6>. QED BY <1>5, <5>1, <5>2, <6>1
        <5>. QED BY <5>3, <5>4
      <4>3. UsesOf(t, mmaDone[Owner(t)])' = UsesOf(t, mmaDone[Owner(t)])
        BY <1>1, <2>1 DEF UsesOf
      <4>4. 0 \in CTA /\ 1 \in CTA /\ bar[TEMPTY(t)]' = bar[TEMPTY(t)]
            /\ \A d \in CTA : bar[TFULL(d, t)]' = bar[TFULL(d, t)]
        BY <1>3, <2>2, <3>1 DEF TEMPTY, TFULL
      <4>. QED BY <2>1, <4>2, <4>3, <4>4 DEF SlotInv
    <3>. QED BY <3>2, <3>3
  <2>4. CASE t = s
    <3>. DEFINE g == Freed(1 - c, s)
    <3>1. Owner(t) = i /\ Owner(t)' = i
      BY <1>9, <2>1, <2>4
    <3>2. Freed(c, t)' = f + 1
      <4>1. Freed(c, t)' = UsesOf(t, Read(c, i)')
        BY <2>1, <3>1 DEF Freed, UsesOf, Read, Uses
      <4>. QED BY <1>3, <1>8, <2>4, <4>1
    <3>3. Freed(1 - c, t)' = g
      <4>1. Freed(1 - c, t)' = UsesOf(t, Read(1 - c, i)')
        BY <2>1, <3>1 DEF Freed, UsesOf, Read, Uses
      <4>2. 1 - c # c
        BY <1>3
      <4>3. Read(1 - c, i)' = Read(1 - c, i)
        <5>1. <<"con", 1 - c, i>> # x
          BY <4>2, AgentApart DEF x
        <5>. QED BY <1>5, <1>8, <5>1
      <4>. QED BY <2>4, <3>1, <4>1, <4>3 DEF Freed
    <3>4. bar'[TEMPTY(t)] = Bar(IF f + 1 < g THEN f + 1 ELSE g, IF f + 1 = g THEN 2 ELSE 1, 0, 2)
      <4>1. bar'[TEMPTY(t)] = Arrive(bar[TEMPTY(s)])
        BY <1>1, <1>9, <2>4
      <4>2. CASE g = f
        <5>1. Arrive(Bar(f, 2, 0, 2)) = Bar(f, 2 - 1, 0, 2)
          BY <1>8, BarArrives
        <5>. QED BY <1>8, <4>1, <4>2, <5>1
      <4>3. CASE g = f + 1
        <5>1. Arrive(Bar(f, 1, 0, 2)) = Bar(f + 1, 2, 0, 2)
          BY <1>8, BarArrives
        <5>2. bar[TEMPTY(s)] = Bar(f, 1, 0, 2)
          BY <1>8, <4>3
        <5>. QED BY <1>8, <4>1, <4>3, <5>1, <5>2
      <4>. QED BY <1>8, <4>2, <4>3
    <3>5. \/ Freed(0, t)' = f + 1 /\ Freed(1, t)' = g
          \/ Freed(0, t)' = g /\ Freed(1, t)' = f + 1
      <4>1. c = 0 => 1 - c = 1
        OBVIOUS
      <4>2. c = 1 => 1 - c = 0
        OBVIOUS
      <4>. QED BY <1>3, <3>2, <3>3, <4>1, <4>2 DEF Freed, Read, Uses, Owner, UsesOf
    <3>. HIDE DEF g
    <3>6. g \in {f, f + 1}
      BY <1>8 DEF g
    <3>7. bar'[TEMPTY(t)] = Bar(IF Freed(0, t)' < Freed(1, t)' THEN Freed(0, t)' ELSE Freed(1, t)',
                                IF Freed(0, t)' = Freed(1, t)' THEN 2 ELSE 1, 0, 2)
      BY <1>8, <3>4, <3>5, <3>6
    <3>8. UsesOf(t, mmaDone[Owner(t)])' = UsesOf(t, mmaDone[Owner(t)])
      BY <1>1, <2>1 DEF UsesOf
    <3>9. bar[TEMPTY(t)]' = bar'[TEMPTY(t)] /\ \A d \in CTA : bar[TFULL(d, t)]' = bar[TFULL(d, t)]
      BY <2>2 DEF TEMPTY, TFULL
    <3>. QED BY <2>1, <3>7, <3>8, <3>9 DEF SlotInv
  <2>. QED BY <2>3, <2>4
<1>12. WG' = WG /\ Slot' = Slot
  BY Fixed DEF Slot
<1>. QED BY <1>10, <1>11, <1>12 DEF TmemInv

LEMMA TmemStep ==
  ASSUME ClusterTypes, TmemInv, \A a \in Agent : LaneInv(a), kernel' = kernel, Step
  PROVE  TmemInv'
BY RolesTmem, LoadTmem, AcquireTmem, IssueTmem, DoneTmem, WaitTmem, WritebackTmem
DEF Step, Sched, Mma, Consumer

----------------------------------------------------------------------------
(* The end.                                                                  *)
LEMMA EndFacts ==
  ASSUME ClusterTypes
  PROVE  /\ kernel \in Kernels /\ RoleTypes /\ CTA = {0, 1} /\ bar \in [Barrier -> BarRecord]
         /\ \A c \in CTA : <<"con", c, 0>> \in Agent /\ 1 - c \in CTA /\ 1 - (1 - c) = c
<1>1. kernel \in Kernels /\ RoleTypes /\ bar \in [Barrier -> BarRecord]
  BY DEF ClusterTypes, RoleTypes
<1>2. CTA = {0, 1} /\ \A c \in CTA : <<"con", c, 0>> \in Agent
  BY <1>1, Sizes, AgentNames
<1>3. \A c \in {0, 1} : 1 - c \in {0, 1} /\ 1 - (1 - c) = c
  OBVIOUS
<1>. QED BY <1>1, <1>2, <1>3

(* One agent goes on, and not through the teardown.                          *)
LEMMA EndMove ==
  ASSUME ClusterTypes, EndInv, kernel' = kernel, NEW x \in Agent,
         \A a \in Agent \ {x} : agent'[a] = agent[a],
         At(x) \notin {"byewait", "free", "left"}, At(x)' \notin {"byewait", "free"},
         OVERLAP => At(x)' # "sync", ~OVERLAP => At(x)' \notin {"bye", "left"},
         x[1] = "con" => At(x)' # "left",
         \A c \in CTA : bar'[BYE(c)] = bar[BYE(c)]
  PROVE  EndInv'
<1>0. /\ kernel \in Kernels /\ CTA = {0, 1} /\ Agent' = Agent /\ (OVERLAP' <=> OVERLAP)
      /\ \A c \in CTA : <<"con", c, 0>> \in Agent /\ 1 - c \in CTA
  BY EndFacts, Fixed
<1>1. \A a \in Agent \ {x} : At(a)' = At(a)
  BY DEF At
<1>2. \A c \in CTA : Waved(c)' <=> Waved(c)
  <2>. TAKE c \in CTA
  <2>1. CASE x = <<"con", c, 0>>
    <3>1. x[1] = "con"
      BY <2>1
    <3>. QED BY <2>1, <3>1 DEF Waved
  <2>2. CASE x # <<"con", c, 0>>
    BY <1>0, <1>1, <2>2 DEF Waved
  <2>. QED BY <2>1, <2>2
<1>3. \A c \in CTA : /\ bar[BYE(c)]' = bar[BYE(c)]
                     /\ At(<<"con", c, 0>>)' \in {"free", "left"} => At(<<"con", c, 0>>) \in {"free", "left"}
  <2>. TAKE c \in CTA
  <2>1. bar[BYE(c)]' = bar[BYE(c)]
    BY DEF BYE
  <2>2. CASE x = <<"con", c, 0>>
    <3>1. x[1] = "con"
      BY <2>2
    <3>. QED BY <2>1, <2>2, <3>1
  <2>3. CASE x # <<"con", c, 0>>
    BY <1>0, <1>1, <2>1, <2>3
  <2>. QED BY <2>2, <2>3
<1>4. OVERLAP => \A a \in Agent : At(a)' # "sync"
  BY <1>1 DEF EndInv
<1>5. ~OVERLAP => \A a \in Agent : At(a)' \notin {"bye", "byewait"}
  BY <1>1 DEF EndInv
<1>6. ~OVERLAP /\ (\E a \in Agent : At(a)' \in {"free", "left"}) => \A a \in Agent : At(a)' \in {"free", "left"}
  <2>1. SUFFICES ASSUME ~OVERLAP, NEW a \in Agent, At(a)' \in {"free", "left"} PROVE FALSE
    OBVIOUS
  <2>2. a # x
    BY <2>1
  <2>3. At(a) \in {"free", "left"}
    BY <1>1, <2>1, <2>2
  <2>4. At(x) \in {"free", "left"}
    BY <2>1, <2>3 DEF EndInv
  <2>. QED BY <2>4
<1>7. \A c \in CTA : /\ bar[BYE(c)] = Bar(IF OVERLAP /\ Waved(1 - c) THEN 1 ELSE 0, 1, 0, 1)
                     /\ OVERLAP /\ At(<<"con", c, 0>>) \in {"free", "left"} => Waved(1 - c)
  BY DEF EndInv
<1>8. \A c \in CTA : /\ bar[BYE(c)]' = Bar(IF OVERLAP' /\ Waved(1 - c)' THEN 1 ELSE 0, 1, 0, 1)
                     /\ OVERLAP' /\ At(<<"con", c, 0>>)' \in {"free", "left"} => Waved(1 - c)'
  BY <1>0, <1>2, <1>3, <1>7
<1>. QED BY <1>0, <1>4, <1>5, <1>6, <1>8 DEF EndInv

LEMMA EndKept ==
  ASSUME ClusterTypes, EndInv, kernel' = kernel, agent' = agent,
         \A c \in CTA : bar'[BYE(c)] = bar[BYE(c)]
  PROVE  EndInv'
<1>1. Agent' = Agent /\ OVERLAP' = OVERLAP
  BY Fixed
<1>2. \A a : At(a)' = At(a)
  BY DEF At
<1>3. \A c \in CTA : bar[BYE(c)]' = bar[BYE(c)]
  BY DEF BYE
<1>4. \A c : Waved(c)' = Waved(c)
  BY <1>2 DEF Waved
<1>. QED BY <1>1, <1>2, <1>3, <1>4 DEF EndInv

(* The consumers part, and CTA c's accumulators are freed.                   *)
LEMMA PartEnd ==
  ASSUME ClusterTypes, EndInv, kernel' = kernel, NEW c \in CTA, Teardown(c)
  PROVE  EndInv'
<1>. DEFINE x == <<"con", c, 0>>
<1>0. /\ kernel \in Kernels /\ CTA = {0, 1} /\ Agent' = Agent /\ (OVERLAP' <=> OVERLAP) /\ RoleTypes
      /\ \A d \in CTA : <<"con", d, 0>> \in Agent /\ 1 - d \in CTA /\ 1 - (1 - d) = d
      /\ x \in Agent /\ bar \in [Barrier -> BarRecord]
  BY EndFacts, Fixed
<1>1. \A d \in CTA : /\ bar[BYE(d)] = Bar(IF OVERLAP /\ Waved(1 - d) THEN 1 ELSE 0, 1, 0, 1)
                     /\ OVERLAP /\ At(<<"con", d, 0>>) \in {"free", "left"} => Waved(1 - d)
  BY DEF EndInv
<1>2. /\ OVERLAP => \A a \in Agent : At(a) # "sync"
      /\ ~OVERLAP => /\ \A a \in Agent : At(a) \notin {"bye", "byewait"}
                     /\ (\E a \in Agent : At(a) \in {"free", "left"}) =>
                          \A a \in Agent : At(a) \in {"free", "left"}
  BY DEF EndInv
<1>a. ASSUME NEW p \in {"byewait", "free", "left"}, agent' = Moved(x, p)
      PROVE  /\ \A a \in Agent \ {x} : At(a)' = At(a)
             /\ At(x)' = p
             /\ \A d \in CTA : d # c => (Waved(d)' <=> Waved(d)) /\ At(<<"con", d, 0>>)' = At(<<"con", d, 0>>)
             /\ Waved(c)' /\ \A d : bar[BYE(d)]' = bar'[BYE(d)]
  <2>1. p \in Place
    BY DEF Place
  <2>2. At(x)' = p /\ \A a \in Agent \ {x} : agent'[a] = agent[a]
    BY <1>0, <1>a, <2>1, MovedAgent
  <2>3. \A d \in CTA : d # c => <<"con", d, 0>> \in Agent \ {x}
    BY <1>0, AgentApart
  <2>. QED BY <2>2, <2>3 DEF At, Waved, BYE
<1>3. CASE SayBye(c)
  <2>1. /\ At(x) = "bye" /\ agent' = Moved(x, "byewait")
        /\ bar' = [bar EXCEPT ![BYE(1 - c)] = Arrive(@)]
    BY <1>3 DEF SayBye, At, PeerOf
  <2>2. OVERLAP
    BY <1>0, <1>2, <2>1
  <2>3. /\ \A a \in Agent \ {x} : At(a)' = At(a)
        /\ At(x)' = "byewait"
        /\ \A d \in CTA : d # c => (Waved(d)' <=> Waved(d)) /\ At(<<"con", d, 0>>)' = At(<<"con", d, 0>>)
        /\ Waved(c)' /\ \A d : bar[BYE(d)]' = bar'[BYE(d)]
    BY <1>a, <2>1
  <2>4. ~Waved(c)
    BY <2>1 DEF Waved
  <2>5. \A a \in Agent : At(a)' # "sync"
    BY <1>2, <2>2, <2>3
  <2>6. bar'[BYE(1 - c)] = Bar(1, 1, 0, 1)
    <3>1. bar[BYE(1 - c)] = Bar(0, 1, 0, 1)
      BY <1>0, <1>1, <2>4
    <3>2. Arrive(Bar(0, 1, 0, 1)) = Bar(0 + 1, 1, 0, 1)
      BY BarArrives
    <3>3. BYE(1 - c) \in Barrier
      BY <1>0, BarNames
    <3>. QED BY <1>0, <2>1, <3>1, <3>2, <3>3
  <2>7. bar'[BYE(c)] = bar[BYE(c)]
    <3>1. BYE(c) # BYE(1 - c)
      <4>1. c # 1 - c
        BY <1>0
      <4>. QED BY <4>1, BarApart
    <3>. QED BY <1>0, <2>1, <3>1, BarNames
  <2>8. ASSUME NEW d \in CTA
        PROVE  /\ bar[BYE(d)]' = Bar(IF OVERLAP /\ Waved(1 - d)' THEN 1 ELSE 0, 1, 0, 1)
               /\ At(<<"con", d, 0>>)' \in {"free", "left"} => Waved(1 - d)'
    <3>1. CASE d = c
      <4>1. 1 - d # c /\ 1 - d \in CTA
        BY <1>0, <3>1
      <4>2. Waved(1 - d)' <=> Waved(1 - d)
        BY <2>3, <4>1
      <4>. QED BY <1>1, <2>3, <2>7, <3>1, <4>2
    <3>2. CASE d # c
      <4>1. 1 - d = c /\ d = 1 - c
        BY <1>0, <3>2
      <4>. QED BY <2>2, <2>3, <2>6, <4>1
    <3>. QED BY <3>1, <3>2
  <2>. QED BY <1>0, <2>2, <2>5, <2>8 DEF EndInv
<1>4. CASE WaitBye(c)
  <2>1. /\ At(x) = "byewait" /\ agent' = Moved(x, "free") /\ bar' = bar /\ Passed(bar[BYE(c)], 0)
    BY <1>4 DEF WaitBye, At
  <2>2. OVERLAP
    BY <1>0, <1>2, <2>1
  <2>3. /\ \A a \in Agent \ {x} : At(a)' = At(a)
        /\ At(x)' = "free"
        /\ \A d \in CTA : d # c => (Waved(d)' <=> Waved(d)) /\ At(<<"con", d, 0>>)' = At(<<"con", d, 0>>)
        /\ Waved(c)' /\ \A d : bar[BYE(d)]' = bar'[BYE(d)]
    BY <1>a, <2>1
  <2>4. Waved(c) /\ \A d \in CTA : Waved(d)' <=> Waved(d)
    BY <2>1, <2>3 DEF Waved
  <2>5. Waved(1 - c)
    <3>1. SUFFICES ASSUME ~Waved(1 - c) PROVE FALSE
      OBVIOUS
    <3>2. bar[BYE(c)] = Bar(0, 1, 0, 1)
      BY <1>1, <3>1
    <3>3. bar[BYE(c)].turn = 0
      BY <3>2 DEF Bar
    <3>. QED BY <2>1, <3>3 DEF Passed
  <2>6. \A a \in Agent : At(a)' # "sync"
    BY <1>2, <2>2, <2>3
  <2>7. ASSUME NEW d \in CTA
        PROVE  /\ bar[BYE(d)]' = Bar(IF OVERLAP /\ Waved(1 - d)' THEN 1 ELSE 0, 1, 0, 1)
               /\ At(<<"con", d, 0>>)' \in {"free", "left"} => Waved(1 - d)'
    <3>1. Waved(1 - d)' <=> Waved(1 - d)
      BY <1>0, <2>4
    <3>2. bar[BYE(d)]' = bar[BYE(d)]
      BY <2>1, <2>3
    <3>3. At(<<"con", d, 0>>)' \in {"free", "left"} => Waved(1 - d)
      BY <1>1, <2>2, <2>3, <2>5
    <3>. QED BY <1>1, <3>1, <3>2, <3>3
  <2>. QED BY <1>0, <2>2, <2>6, <2>7 DEF EndInv
<1>5. CASE Dealloc(c)
  <2>1. /\ At(x) = "free" /\ agent' = Moved(x, "left") /\ bar' = bar
    BY <1>5 DEF Dealloc, At
  <2>2. /\ \A a \in Agent \ {x} : At(a)' = At(a)
        /\ At(x)' = "left"
        /\ \A d \in CTA : d # c => (Waved(d)' <=> Waved(d)) /\ At(<<"con", d, 0>>)' = At(<<"con", d, 0>>)
        /\ Waved(c)' /\ \A d : bar[BYE(d)]' = bar'[BYE(d)]
    BY <1>a, <2>1
  <2>3. Waved(c) /\ \A d \in CTA : Waved(d)' <=> Waved(d)
    BY <2>1, <2>2 DEF Waved
  <2>4. OVERLAP => \A a \in Agent : At(a)' # "sync"
    BY <1>2, <2>2
  <2>5. ~OVERLAP => \A a \in Agent : At(a)' \in {"free", "left"}
    BY <1>0, <1>2, <2>1, <2>2
  <2>6. ASSUME NEW d \in CTA
        PROVE  /\ bar[BYE(d)]' = Bar(IF OVERLAP /\ Waved(1 - d)' THEN 1 ELSE 0, 1, 0, 1)
               /\ OVERLAP /\ At(<<"con", d, 0>>)' \in {"free", "left"} => Waved(1 - d)'
    <3>1. Waved(1 - d)' <=> Waved(1 - d)
      BY <1>0, <2>3
    <3>2. bar[BYE(d)]' = bar[BYE(d)]
      BY <2>1, <2>2
    <3>3. OVERLAP /\ At(<<"con", d, 0>>)' \in {"free", "left"} => Waved(1 - d)
      BY <1>1, <2>1, <2>2
    <3>. QED BY <1>1, <3>1, <3>2, <3>3
  <2>. QED BY <1>0, <2>4, <2>5, <2>6 DEF EndInv
<1>. QED BY <1>3, <1>4, <1>5 DEF Teardown

LEMMA SyncEnd ==
  ASSUME ClusterTypes, EndInv, kernel' = kernel, ClusterSync
  PROVE  EndInv' /\ ~OVERLAP
<1>0. /\ kernel \in Kernels /\ CTA = {0, 1} /\ Agent' = Agent /\ (OVERLAP' <=> OVERLAP)
      /\ \A d \in CTA : <<"con", d, 0>> \in Agent
  BY EndFacts, Fixed
<1>1. \A a \in Agent : At(a) = "sync" /\ At(a)' \in {"free", "left"}
  BY SyncAgents
<1>2. ~OVERLAP
  BY <1>0, <1>1 DEF EndInv
<1>3. \A c \in CTA : bar[BYE(c)]' = Bar(0, 1, 0, 1)
  BY <1>2 DEF EndInv, ClusterSync, BYE
<1>. QED BY <1>0, <1>1, <1>2, <1>3 DEF EndInv

LEMMA EndStep ==
  ASSUME ClusterTypes, EndInv, kernel' = kernel, Step
  PROVE  EndInv'
<1>0. kernel \in Kernels /\ RoleTypes /\ bar \in [Barrier -> BarRecord]
  BY EndFacts
<1>e. End \in {"left", "sync"} /\ (OVERLAP <=> End = "left")
  BY DEF End
<1>a. ASSUME NEW x \in Agent, NEW p \in Place, agent' = Moved(x, p), x[1] = "con" => p # "left",
             At(x) \notin {"byewait", "free", "left"},
             p \notin {"byewait", "free", "sync", "bye", "left"},
             \A c \in CTA : bar'[BYE(c)] = bar[BYE(c)]
      PROVE  EndInv'
  <2>1. At(x)' = p /\ \A a \in Agent \ {x} : agent'[a] = agent[a]
    BY <1>0, <1>a, MovedAgent
  <2>. QED BY <1>a, <2>1, EndMove
<1>1. ASSUME NEW x \in Agent, Consume(x) PROVE EndInv'
  <2>. DEFINE answer == handle[CtaOf(x)]
  <2>1. /\ At(x) = "decode" /\ At(x)' = Decoded(x, answer)
        /\ \A a \in Agent \ {x} : agent'[a] = agent[a]
    BY <1>1, ConsumeAgent
  <2>2. bar' = [bar EXCEPT ![FIN] = Arrive(@)]
    BY <1>1 DEF Consume
  <2>3. \A c \in CTA : bar'[BYE(c)] = bar[BYE(c)]
    BY <1>0, <2>2, BarNames, BarApart
  <2>4. Decoded(x, answer) \in {"acquire", "wait", "load", "cancel", "expect", End}
    BY DEF Decoded, GoesOn
  <2>5. x[1] = "con" => Decoded(x, answer) = "wait"
    <3>1. x[1] = "con" => \E c \in CTA, i \in WG : x = <<"con", c, i>>
      BY <1>0, KindOf
    <3>2. \A c \in CTA, i \in WG : Decoded(<<"con", c, i>>, answer) = "wait"
      BY <1>0, DecodedPlaces
    <3>. QED BY <3>1, <3>2
  <2>6. /\ At(x) \notin {"byewait", "free", "left"} /\ At(x)' \notin {"byewait", "free"}
        /\ OVERLAP => At(x)' # "sync" 
        /\ ~OVERLAP => At(x)' \notin {"bye", "left"}
        /\ x[1] = "con" => At(x)' # "left"
    BY <1>e, <2>1, <2>4, <2>5
  <2>. QED BY <2>1, <2>3, <2>6, EndMove
<1>2. CASE Cancel
  <2>1. <<"sched", 0>> \in Agent /\ agent' = Moved(<<"sched", 0>>, "expect") /\ bar' = bar
        /\ At(<<"sched", 0>>) = "cancel"
    BY <1>0, <1>2, AgentNames, Sizes DEF Cancel, At
  <2>. QED BY <1>a, <2>1 DEF Place
<1>3. ASSUME NEW c \in CTA, SchedExpect(c) PROVE EndInv'
  <2>1. <<"sched", c>> \in Agent /\ agent' = Moved(<<"sched", c>>, "decode")
        /\ bar' = [bar EXCEPT ![ARR(c)] = ArriveExpect(@, 1)] /\ At(<<"sched", c>>) = "expect"
    BY <1>0, <1>3, AgentNames DEF SchedExpect, At
  <2>2. \A d \in CTA : bar'[BYE(d)] = bar[BYE(d)]
    BY <1>0, <2>1, BarNames, BarApart
  <2>. QED BY <1>a, <2>1, <2>2 DEF Place
<1>4. ASSUME NEW c \in CTA, Deliver(c) PROVE EndInv'
  <2>1. agent' = agent /\ bar' = [bar EXCEPT ![ARR(c)] = Landed(@)]
    BY <1>4 DEF Deliver
  <2>2. \A d \in CTA : bar'[BYE(d)] = bar[BYE(d)]
    BY <1>0, <2>1, BarNames, BarApart
  <2>. QED BY <2>1, <2>2, EndKept
<1>5. ASSUME NEW c \in CTA, Load(c) PROVE EndInv'
  <2>1. <<"load", c>> \in Agent /\ agent' = Moved(<<"load", c>>, "decode") /\ bar' = bar
        /\ At(<<"load", c>>) = "load"
    BY <1>0, <1>5, AgentNames DEF Load, At
  <2>. QED BY <1>a, <2>1 DEF Place
<1>6. ASSUME NEW i \in WG, MmaAcquire(i) PROVE EndInv'
  <2>1. <<"mma", i>> \in Agent /\ agent' = Moved(<<"mma", i>>, "issue") /\ bar' = bar
        /\ At(<<"mma", i>>) = "acquire"
    BY <1>0, <1>6, AgentNames DEF MmaAcquire, At
  <2>. QED BY <1>a, <2>1 DEF Place
<1>7. ASSUME NEW i \in WG, MmaIssue(i) PROVE EndInv'
  <2>. DEFINE x == <<"mma", i>>
  <2>1. /\ x \in Agent /\ At(x) = "issue" /\ At(x)' \in {"decode", End} /\ bar' = bar
        /\ \A a \in Agent \ {x} : agent'[a] = agent[a]
    <3>1. bar' = bar
      BY <1>7 DEF MmaIssue
    <3>. QED BY <1>7, <3>1, IssueAgent
  <2>2. x[1] # "con"
    OBVIOUS
  <2>3. /\ At(x) \notin {"byewait", "free", "left"} /\ At(x)' \notin {"byewait", "free"}
        /\ OVERLAP => At(x)' # "sync"
        /\ ~OVERLAP => At(x)' \notin {"bye", "left"}
    BY <1>e, <2>1
  <2>. HIDE DEF x
  <2>. QED BY <2>1, <2>2, <2>3, EndMove
<1>8. ASSUME NEW i \in WG, TensorDone(i) PROVE EndInv'
  <2>1. agent' = agent /\ bar' = [b \in Barrier |-> IF b \in {TFULL(c, Head(queue[i])) : c \in CTA}
                                                  THEN Arrive(bar[b]) ELSE bar[b]]
    BY <1>8 DEF TensorDone
  <2>2. \A d \in CTA : bar'[BYE(d)] = bar[BYE(d)]
    BY <2>1, BarNames, BarApart
  <2>. QED BY <2>1, <2>2, EndKept
<1>9. ASSUME NEW c \in CTA, NEW i \in WG, ConsumerWait(c, i) PROVE EndInv'
  <2>1. <<"con", c, i>> \in Agent /\ agent' = Moved(<<"con", c, i>>, "read") /\ bar' = bar
        /\ At(<<"con", c, i>>) = "wait"
    BY <1>0, <1>9, AgentNames DEF ConsumerWait, At
  <2>. QED BY <1>a, <2>1 DEF Place
<1>10. ASSUME NEW c \in CTA, NEW i \in WG, Writeback(c, i) PROVE EndInv'
  <2>. DEFINE x == <<"con", c, i>>
              s == SlotOf(i, agent[x].uses)
  <2>1. /\ x \in Agent /\ At(x) = "read"
        /\ At(x)' \in (IF OVERLAP THEN {"decode", "bye"} ELSE {"decode", "sync"})
        /\ \A a \in Agent \ {x} : agent'[a] = agent[a]
    BY <1>10, WritebackAgent
  <2>2. bar' = [bar EXCEPT ![TEMPTY(s)] = Arrive(@)]
    BY <1>10 DEF Writeback
  <2>. HIDE DEF x, s
  <2>3. \A d \in CTA : bar'[BYE(d)] = bar[BYE(d)]
    BY <1>0, <2>2, BarNames, BarApart
  <2>4. /\ At(x) \notin {"byewait", "free", "left"} /\ At(x)' \notin {"byewait", "free", "left"}
        /\ OVERLAP => At(x)' # "sync"
        /\ ~OVERLAP => At(x)' \notin {"bye", "left"}
    BY <2>1
  <2>. QED BY <2>1, <2>3, <2>4, EndMove
<1>. QED
  BY <1>1, <1>2, <1>3, <1>4, <1>5, <1>6, <1>7, <1>8, <1>9, <1>10, PartEnd, SyncEnd
  DEF Step, Sched, Mma, Consumer

----------------------------------------------------------------------------
(* Tiles.                                                                    *)
LEMMA SeenIssued ==
  ASSUME ClusterTypes, RoundInv, NEW a \in Agent
  PROVE  Seen(a) <= Delivered(CtaOf(a)) /\ Seen(a) <= Issued /\ Seen(a) \in Nat /\ Issued \in Nat
<1>. DEFINE c == CtaOf(a)
            E == Expected(c)
            D == Delivered(c)
<1>1. c \in CTA
  BY Ctas DEF ClusterTypes, RoleTypes
<1>2. Issued \in Nat /\ D \in {Issued - 1, Issued} /\ Seen(a) \in Nat /\ <<"sched", c>> \in Agent
      /\ E \in {Seen(<<"sched", c>>), Seen(<<"sched", c>>) + 1}
  BY <1>1, RoundFacts
<1>3. E \in Int
  BY <1>2, RoundFacts
<1>4. /\ bar[ARR(c)] = Bar(IF E > D THEN D ELSE E, IF E > D THEN 0 ELSE 1, E - D, 1)
      /\ Seen(a) <= bar[ARR(c)].turn
  BY <1>1 DEF RoundInv, ArrInv
<1>. HIDE DEF c, E, D
<1>5. bar[ARR(c)].turn = IF E > D THEN D ELSE E
  BY <1>4 DEF Bar
<1>6. Seen(a) <= D
  BY <1>2, <1>3, <1>4, <1>5
<1>. QED BY <1>2, <1>6 DEF c, D

LEMMA AnswerKept ==
  ASSUME NEW T, AnswerInv(T), Issued' = Issued, \A c \in CTA : Delivered(c)' = Delivered(c),
         UNCHANGED <<request, handle, given>>
  PROVE  AnswerInv(T)'
BY DEF AnswerInv

LEMMA AgentTileKept ==
  ASSUME ClusterTypes, NEW T, NEW a \in Agent, TileOfAgent(a, T), agent'[a] = agent[a],
         a[1] = "load" => loads'[a[2]] = loads[a[2]]
  PROVE  TileOfAgent(a, T)'
BY DEF TileOfAgent, At, Seen, Uses, Over

LEMMA StoredKept ==
  ASSUME kernel' = kernel, NEW T, StoredInv(T), stored' = stored,
         \A c \in CTA, i \in WG : Read(c, i)' = Read(c, i)
  PROVE  StoredInv(T)'
<1>1. WG' = WG /\ Answer' = Answer
  BY Fixed
<1>2. ASSUME NEW c \in CTA, NEW i \in WG, NEW t \in Answer
      PROVE  <<c, i, t>> \in stored' <=> \E n \in 0 .. Read(c, i)' - 1 : t = T[n]
  <2>1. Read(c, i)' = Read(c, i)
    OBVIOUS
  <2>2. <<c, i, t>> \in stored <=> \E n \in 0 .. Read(c, i) - 1 : t = T[n]
    BY DEF StoredInv
  <2>. QED BY <2>1, <2>2
<1>3. \A c \in CTA, i \in WG', t \in Answer' :
        <<c, i, t>> \in stored' <=> \E n \in 0 .. Read(c, i)' - 1 : t = T[n]
  BY <1>1, <1>2
<1>. QED BY <1>3 DEF StoredInv

(* One role goes on by itself.                                               *)
LEMMA TilesKept ==
  ASSUME ClusterTypes, kernel' = kernel, NEW T, TileInv(T), NEW x \in Agent,
         \A a \in Agent \ {x} : agent'[a] = agent[a], Uses(x)' = Uses(x),
         UNCHANGED <<loads, stored>>, TileOfAgent(x, T)', AnswerInv(T)'
  PROVE  TileInv(T)'
<1>1. kernel \in Kernels /\ Agent' = Agent
  BY Fixed DEF ClusterTypes, RoleTypes
<1>2. ASSUME NEW a \in Agent PROVE TileOfAgent(a, T)'
  <2>1. CASE a = x
    BY <2>1
  <2>2. CASE a # x
    BY <2>2, AgentTileKept DEF TileInv
  <2>. QED BY <2>1, <2>2
<1>3. \A c \in CTA, i \in WG : Read(c, i)' = Read(c, i)
  <2>1. \A c \in CTA, i \in WG : <<"con", c, i>> \in Agent
    BY <1>1, AgentNames
  <2>. QED BY <2>1 DEF Read, Uses
<1>4. StoredInv(T)'
  BY <1>3, StoredKept DEF TileInv
<1>. QED BY <1>1, <1>2, <1>4 DEF TileInv

(* A move that changes neither what the role knows nor whether it is over.   *)
LEMMA TilesMoved ==
  ASSUME ClusterTypes, kernel' = kernel, NEW T, TileInv(T), NEW x \in Agent, NEW p \in Place,
         agent' = Moved(x, p), UNCHANGED <<loads, stored>>, AnswerInv(T)',
         p \in Over => At(x) \in Over,
         x[1] = "con" /\ At(x) \in Over => p \in Over,
         p \in {"cancel", "expect", "load", "decode"} => At(x) \in {"cancel", "expect", "load", "decode"},
         x[1] # "load"
  PROVE  TileInv(T)'
<1>1. /\ \A a \in Agent \ {x} : agent'[a] = agent[a]
      /\ At(x)' = p /\ Seen(x)' = Seen(x) /\ Uses(x)' = Uses(x)
      /\ agent'[x].tile = agent[x].tile /\ agent'[x].next = agent[x].next
  BY MovedAgent DEF ClusterTypes
<1>2. TileOfAgent(x, T)
  BY DEF TileInv
<1>3. TileOfAgent(x, T)'
  BY <1>1, <1>2 DEF TileOfAgent, Over
<1>. QED BY <1>1, <1>3, TilesKept

(* A role decodes the answer of this round, whoever decoded it before.       *)
LEMMA ConsumeTiles ==
  ASSUME ClusterTypes, RoundInv, \A x \in Agent : LaneInv(x), kernel' = kernel,
         NEW T, TileInv(T), NEW a \in Agent, Consume(a)
  PROVE  TileInv(T)'
<1>. DEFINE answer == handle[CtaOf(a)]
<1>0. kernel \in Kernels /\ RoleTypes /\ CtaOf(a) \in CTA
  BY Ctas DEF ClusterTypes, RoleTypes
<1>1. /\ \A x \in Agent \ {a} : agent'[x] = agent[x]
      /\ At(a) = "decode" /\ Passed(bar[ARR(CtaOf(a))], Seen(a))
      /\ At(a)' = Decoded(a, answer) /\ Seen(a)' = Seen(a) + 1 /\ Uses(a)' = Uses(a)
      /\ agent'[a].next = answer
      /\ agent'[a].tile = IF a[1] = "load" /\ answer # Drained THEN answer ELSE agent[a].tile
      /\ UNCHANGED <<request, handle, given, loads, stored>>
  BY ConsumeAgent DEF Consume
<1>2. AnswerInv(T)'
  BY <1>1, ConsumeRounds, AnswerKept DEF TileInv
<1>3. /\ Seen(a) \in Nat /\ Seen(a) = Rounds /\ Issued = Rounds + 1 /\ Delivered(CtaOf(a)) = Issued
  BY <1>1, Answered, RoundFacts
<1>4. answer = T[Seen(a) + 1]
  BY <1>0, <1>3 DEF TileInv, AnswerInv
<1>. HIDE DEF answer
<1>5. TileOfAgent(a, T)
  BY DEF TileInv
<1>6. /\ a[1] = "load" => Decoded(a, answer) = IF answer = Drained THEN End ELSE "load"
      /\ a[1] = "sched" => Decoded(a, answer) \in (IF answer = Drained THEN {End} ELSE {"cancel", "expect"})
      /\ a[1] \in {"mma", "con"} => Decoded(a, answer) \in {"acquire", "wait"}
      /\ a[1] \in {"sched", "load", "mma", "con"} /\ End \in {"left", "sync"}
  <2>1. CTA = {0, 1}
    BY <1>0, Sizes
  <2>2. /\ Decoded(<<"sched", 0>>, answer) = IF answer = Drained THEN End ELSE "cancel"
        /\ Decoded(<<"sched", 1>>, answer) = IF answer = Drained THEN End ELSE "expect"
        /\ \A c \in CTA : Decoded(<<"load", c>>, answer) = IF answer = Drained THEN End ELSE "load"
        /\ \A i \in WG : Decoded(<<"mma", i>>, answer) = "acquire"
        /\ \A c \in CTA, i \in WG : Decoded(<<"con", c, i>>, answer) = "wait"
    BY <1>0, DecodedPlaces
  <2>3. End \in {"left", "sync"}
    BY DEF End
  <2>4. CASE \E c \in CTA : a = <<"sched", c>>
    <3>1. PICK c \in CTA : a = <<"sched", c>>
      BY <2>4
    <3>2. a[1] = "sched"
      BY <3>1
    <3>. QED BY <2>1, <2>2, <2>3, <3>1, <3>2
  <2>5. CASE \E c \in CTA : a = <<"load", c>>
    <3>1. PICK c \in CTA : a = <<"load", c>>
      BY <2>5
    <3>2. a[1] = "load"
      BY <3>1
    <3>. QED BY <2>2, <2>3, <3>1, <3>2
  <2>6. CASE \E i \in WG : a = <<"mma", i>>
    <3>1. PICK i \in WG : a = <<"mma", i>>
      BY <2>6
    <3>2. a[1] = "mma"
      BY <3>1
    <3>. QED BY <2>2, <2>3, <3>1, <3>2
  <2>7. CASE \E c \in CTA, i \in WG : a = <<"con", c, i>>
    <3>1. PICK c \in CTA, i \in WG : a = <<"con", c, i>>
      BY <2>7
    <3>2. a[1] = "con"
      BY <3>1
    <3>. QED BY <2>2, <2>3, <3>1, <3>2
  <2>. QED BY <1>0, <2>4, <2>5, <2>6, <2>7, AgentNames
<1>7. TileOfAgent(a, T)'
  <2>1. /\ At(a)' \in Over => T[Seen(a) + 1] = Drained
        /\ At(a)' \in {"cancel", "expect", "load", "decode"} => T[Seen(a) + 1] # Drained
    BY <1>1, <1>4, <1>6 DEF Over
  <2>2. ASSUME a[1] = "load"
        PROVE  /\ At(a)' = "load" => agent'[a].tile = T[Seen(a) + 1]
               /\ At(a)' # "decode" /\ Len(loads[a[2]]) = Seen(a) + 1
               /\ \A n \in 1 .. Len(loads[a[2]]) : loads[a[2]][n] = T[n - 1]
    BY <1>1, <1>4, <1>5, <1>6, <2>2 DEF TileOfAgent
  <2>3. a[1] = "con" => agent'[a].tile = T[Uses(a)]
    BY <1>1, <1>5 DEF TileOfAgent, Over
  <2>4. a[1] = "load" => Len(loads[a[2]]) = (Seen(a) + 1) + 0
    BY <1>3, <2>2
  <2>. QED BY <1>1, <1>4, <2>1, <2>2, <2>3, <2>4 DEF TileOfAgent, Over
<1>. QED BY <1>1, <1>2, <1>7, TilesKept

(* A new tile is one that the cluster has not been given before.             *)
LEMMA CancelTiles ==
  ASSUME ClusterTypes, RoundInv, \A x \in Agent : LaneInv(x), TmemInv, kernel' = kernel,
         NEW T \in [Nat -> Answer], TileInv(T), Cancel
  PROVE  \E U \in [Nat -> Answer'] : TileInv(U)'
<1>. DEFINE x == <<"sched", 0>>
<1>0. /\ kernel \in Kernels /\ RoleTypes /\ x \in Agent /\ Answer' = Answer /\ Agent' = Agent /\ WG' = WG
  BY Fixed, AgentNames, Sizes DEF ClusterTypes, RoleTypes
<1>1. PICK answer \in (Tile \ given) \cup {Drained} :
        request' = [to |-> CTA, answer |-> answer] /\ given' = (given \cup {answer}) \ {Drained}
  BY DEF Cancel
<1>2. /\ At(x) = "cancel" /\ agent' = Moved(x, "expect")
      /\ UNCHANGED <<bar, handle, loads, stored>>
  BY DEF Cancel, At
<1>3. /\ At(x)' = "expect" /\ Seen(x)' = Seen(x) /\ Uses(x)' = Uses(x)
      /\ agent'[x].tile = agent[x].tile /\ agent'[x].next = agent[x].next
      /\ \A a \in Agent \ {x} : agent'[a] = agent[a]
  BY <1>0, <1>2, MovedAgent DEF Place
<1>4. /\ Seen(x) = Issued /\ Issued \in Nat /\ Issued' = Issued + 1
      /\ \A c \in CTA : Delivered(c) = Issued /\ Delivered(c)' = Issued
  BY AllAnswered, CancelRounds, RoundFacts
<1>n. PICK N \in Nat : N = Issued
  BY <1>4
<1>5. PICK U : U \in [Nat -> Answer] /\ U[N + 1] = answer /\ \A n \in 0 .. N : U[n] = T[n]
  <2>. DEFINE V == [T EXCEPT ![N + 1] = answer]
  <2>1. V \in [Nat -> Answer]
    BY <1>1 DEF Answer
  <2>2. V[N + 1] = answer /\ \A n \in 0 .. N : V[n] = T[n]
    OBVIOUS
  <2>. HIDE DEF V
  <2>. QED BY <2>1, <2>2
<1>6. /\ U[N + 1] = answer /\ \A n \in 0 .. N : U[n] = T[n]
  BY <1>5
<1>7. AnswerInv(T) /\ T[N] # Drained
  <2>1. TileOfAgent(x, T) /\ AnswerInv(T)
    BY <1>0 DEF TileInv
  <2>. QED BY <1>2, <1>4, <1>n, <2>1 DEF TileOfAgent
<1>8. AnswerInv(U)'
  <2>1. U[0] = 0
    BY <1>4, <1>n, <1>6, <1>7 DEF AnswerInv
  <2>2. request'.answer = IF Issued' > 0 THEN U[Issued'] ELSE Drained
    BY <1>1, <1>4, <1>n, <1>6
  <2>3. ASSUME NEW c \in CTA
        PROVE  handle'[c] = IF Delivered(c)' > 0 THEN U[Delivered(c)'] ELSE Drained
    <3>1. handle'[c] = handle[c] /\ Delivered(c) = N /\ Delivered(c)' = N /\ N \in 0 .. N
      BY <1>2, <1>4, <1>n
    <3>2. handle[c] = IF N > 0 THEN T[N] ELSE Drained
      BY <1>7, <1>n, <3>1 DEF AnswerInv
    <3>. QED BY <1>6, <3>1, <3>2
  <2>4. given' = {U[n] : n \in 0 .. Issued'} \ {Drained}
    <3>1. given = {T[n] : n \in 0 .. N} \ {Drained}
      BY <1>7, <1>n DEF AnswerInv
    <3>2. {U[n] : n \in 0 .. N + 1} = {T[n] : n \in 0 .. N} \cup {answer}
      <4>1. 0 .. N + 1 = (0 .. N) \cup {N + 1}
        BY <1>4, <1>n
      <4>. QED BY <1>6, <4>1
    <3>. QED BY <1>1, <1>4, <1>n, <3>1, <3>2
  <2>5. ASSUME NEW n \in 0 .. N
        PROVE  U[n] # Drained /\ \A m \in n + 1 .. N + 1 : U[m] # U[n]
    <3>1. T[n] # Drained
      <4>1. CASE n = N
        BY <1>7, <4>1
      <4>2. CASE n # N
        <5>1. n \in 0 .. N - 1
          BY <1>4, <1>n, <4>2
        <5>. QED BY <1>7, <1>n, <5>1 DEF AnswerInv
      <4>. QED BY <4>1, <4>2
    <3>2. T[n] \in given
      BY <1>7, <1>n, <3>1 DEF AnswerInv
    <3>3. answer # T[n]
      BY <1>1, <3>1, <3>2
    <3>4. ASSUME NEW m \in n + 1 .. N + 1 PROVE U[m] # U[n]
      <4>1. CASE m = N + 1
        BY <1>6, <3>3, <4>1
      <4>2. CASE m # N + 1
        <5>1. m \in n + 1 .. N /\ n \in 0 .. N - 1 /\ m \in 0 .. N
          BY <1>4, <1>n, <4>2
        <5>2. T[m] # T[n]
          BY <1>7, <1>n, <5>1 DEF AnswerInv
        <5>. QED BY <1>6, <5>1, <5>2
      <4>. QED BY <4>1, <4>2
    <3>. QED BY <1>6, <3>1, <3>4
  <2>6. Issued' - 1 = N /\ Issued' = N + 1
    BY <1>4, <1>n
  <2>7. \A n \in 0 .. Issued' - 1 : U[n] # Drained /\ \A m \in n + 1 .. Issued' : U[m] # U[n]
    BY <2>5, <2>6
  <2>8. \A c \in CTA : handle[c]' = IF Delivered(c)' > 0 THEN U[Delivered(c)'] ELSE Drained
    BY <2>3
  <2>. QED BY <2>1, <2>2, <2>4, <2>7, <2>8 DEF AnswerInv
<1>9. ASSUME NEW a \in Agent PROVE TileOfAgent(a, U)'
  <2>1. /\ Seen(a) \in 0 .. N /\ Seen(a)' = Seen(a) /\ Uses(a)' = Uses(a)
        /\ agent'[a].tile = agent[a].tile /\ agent'[a].next = agent[a].next
        /\ (At(a)' = At(a) \/ (At(a) = "cancel" /\ At(a)' = "expect"))
    <3>1. Seen(a) <= N /\ Seen(a) \in Nat
      BY <1>n, SeenIssued
    <3>2. Seen(a) \in 0 .. N
      BY <1>4, <1>n, <3>1
    <3>3. CASE a = x
      BY <1>2, <1>3, <3>2, <3>3
    <3>4. CASE a # x
      BY <1>3, <3>2, <3>4 DEF Seen, Uses, At
    <3>. QED BY <3>3, <3>4
  <2>2. TileOfAgent(a, T)
    BY DEF TileInv
  <2>3. U[Seen(a)] = T[Seen(a)]
    BY <1>6, <2>1
  <2>4. ASSUME a[1] = "load"
        PROVE  \A n \in 1 .. Len(loads[a[2]]) : loads[a[2]][n] = U[n - 1]
    <3>1. /\ Len(loads[a[2]]) = Seen(a) + (IF At(a) = "decode" THEN 1 ELSE 0)
          /\ \A n \in 1 .. Len(loads[a[2]]) : loads[a[2]][n] = T[n - 1]
      BY <2>2, <2>4 DEF TileOfAgent
    <3>2. Len(loads[a[2]]) \in {Seen(a), Seen(a) + 1}
      BY <2>1, <3>1
    <3>. DEFINE L == Len(loads[a[2]])
    <3>3. L \in {Seen(a), Seen(a) + 1} /\ \A n \in 1 .. L : loads[a[2]][n] = T[n - 1]
      BY <3>1, <3>2
    <3>. HIDE DEF L
    <3>4. \A n \in 1 .. L : n - 1 \in 0 .. N
      BY <1>4, <1>n, <2>1, <3>3
    <3>5. \A n \in 1 .. L : loads[a[2]][n] = U[n - 1]
      BY <1>6, <3>3, <3>4
    <3>. QED BY <3>5 DEF L
  <2>5. a[1] = "con" => Uses(a) \in 0 .. N
    <3>1. LaneInv(a) /\ Uses(a) \in Nat
      BY <1>0, AgentTyped
    <3>2. a[1] = "con" => Uses(a) \in {Seen(a), Seen(a) - 1}
      BY <2>1, <3>1 DEF LaneInv
    <3>. QED BY <1>4, <1>n, <2>1, <3>1, <3>2
  <2>6. a[1] = "con" => U[Uses(a)] = T[Uses(a)]
    BY <1>6, <2>5
  <2>7. a[1] = "load" => At(a)' = At(a)
    <3>1. a[1] = "load" => At(a) \in {"load", "decode", "sync", "left"}
      <4>1. LaneInv(a) /\ (a[1] = "load" => \E c \in CTA : a = <<"load", c>>)
        BY <1>0, KindOf
      <4>2. \A c \in CTA : PlacesOf(<<"load", c>>) = {"load", "decode", "sync", "left"}
        BY <1>0, LanePlaces
      <4>. QED BY <4>1, <4>2 DEF LaneInv
    <3>. QED BY <2>1, <3>1
  <2>8. loads' = loads
    BY <1>2
  <2>9. TileOfAgent(a, T)
    BY DEF TileInv
  <2>10. /\ At(a)' \in Over => U[Seen(a)'] = Drained
         /\ At(a)' \in {"cancel", "expect", "load", "decode"} => U[Seen(a)'] # Drained
         /\ Seen(a)' > 0 => agent'[a].next = U[Seen(a)']
    BY <2>1, <2>3, <2>9 DEF TileOfAgent, Over
  <2>11. a[1] = "load" =>
           /\ At(a)' = "load" => agent'[a].tile = U[Seen(a)']
           /\ Len(loads'[a[2]]) = Seen(a)' + (IF At(a)' = "decode" THEN 1 ELSE 0)
           /\ \A n \in 1 .. Len(loads'[a[2]]) : loads'[a[2]][n] = U[n - 1]
    BY <2>1, <2>3, <2>4, <2>7, <2>8, <2>9 DEF TileOfAgent
  <2>12. a[1] = "con" /\ At(a)' \notin Over => agent'[a].tile = U[Uses(a)']
    BY <2>1, <2>6, <2>9 DEF TileOfAgent, Over
  <2>. QED BY <2>10, <2>11, <2>12 DEF TileOfAgent
<1>10. StoredInv(U)'
  <2>1. ASSUME NEW c \in CTA, NEW i \in WG, NEW t \in Answer
        PROVE  <<c, i, t>> \in stored' <=> \E n \in 0 .. Read(c, i)' - 1 : t = U[n]
    <3>. DEFINE a == <<"con", c, i>>
    <3>1. a \in Agent /\ a[1] = "con" /\ a # x
      BY <1>0, AgentNames, AgentApart
    <3>2. Read(c, i)' = Read(c, i) /\ Read(c, i) \in Nat
      BY <1>0, <1>3, <3>1, AgentTyped DEF Read, Uses
    <3>3. Read(c, i) <= N
      <4>1. LaneInv(a) /\ Seen(a) <= N /\ Seen(a) \in Nat
        BY <1>n, <3>1, SeenIssued
      <4>2. Uses(a) \in {Seen(a), Seen(a) - 1}
        BY <3>1, <4>1 DEF LaneInv
      <4>. QED BY <1>4, <1>n, <4>1, <4>2 DEF Read
    <3>4. \A n \in 0 .. Read(c, i) - 1 : U[n] = T[n]
      BY <1>4, <1>n, <1>6, <3>2, <3>3
    <3>5. <<c, i, t>> \in stored <=> \E n \in 0 .. Read(c, i) - 1 : t = T[n]
      BY DEF TileInv, StoredInv
    <3>. QED BY <1>2, <3>2, <3>4, <3>5
  <2>2. \A c \in CTA, i \in WG', t \in Answer' :
          <<c, i, t>> \in stored' <=> \E n \in 0 .. Read(c, i)' - 1 : t = U[n]
    BY <1>0, <2>1
  <2>. QED BY <2>2 DEF StoredInv
<1>11. TileInv(U)'
  BY <1>0, <1>8, <1>9, <1>10 DEF TileInv
<1>. QED BY <1>0, <1>5, <1>11

(* The scheduler of a CTA announces the answer; it stays with its tile.       *)
LEMMA ExpectTiles ==
  ASSUME ClusterTypes, RoundInv, kernel' = kernel, NEW T, TileInv(T), NEW c \in CTA, SchedExpect(c)
  PROVE  TileInv(T)'
<1>. DEFINE x == <<"sched", c>>
<1>1. kernel \in Kernels /\ x \in Agent /\ x[1] # "load" /\ x[1] # "con"
  BY AgentNames DEF ClusterTypes, RoleTypes
<1>2. /\ At(x) = "expect" /\ agent' = Moved(x, "decode")
      /\ UNCHANGED <<request, handle, given, loads, stored>>
  BY DEF SchedExpect, At
<1>3. AnswerInv(T)'
  BY <1>2, ExpectRounds, AnswerKept DEF TileInv
<1>. HIDE DEF x
<1>. QED BY <1>1, <1>2, <1>3, TilesMoved DEF Over, Place

(* The answer lands: the CTA now has the one that was issued.                *)
LEMMA DeliverTiles ==
  ASSUME ClusterTypes, RoundInv, kernel' = kernel, NEW T, TileInv(T), NEW c \in CTA, Deliver(c)
  PROVE  TileInv(T)'
<1>1. /\ UNCHANGED <<agent, given, loads, stored>> /\ Agent' = Agent
      /\ request'.answer = request.answer /\ handle'[c] = request.answer
      /\ \A d \in CTA \ {c} : handle'[d] = handle[d]
  BY Fixed DEF Deliver, ClusterTypes, AnswerTypes
<1>2. /\ Issued' = Issued /\ Delivered(c) = Issued - 1 /\ Delivered(c)' = Issued
      /\ \A d \in CTA \ {c} : Delivered(d)' = Delivered(d)
      /\ Issued \in Nat
  BY DeliverRounds, RoundFacts
<1>3. AnswerInv(T)
  BY DEF TileInv
<1>4. \A d \in CTA : handle'[d] = IF Delivered(d)' > 0 THEN T[Delivered(d)'] ELSE Drained
  <2>1. handle'[c] = IF Delivered(c)' > 0 THEN T[Delivered(c)'] ELSE Drained
    BY <1>1, <1>2, <1>3 DEF AnswerInv
  <2>2. ASSUME NEW d \in CTA \ {c}
        PROVE  handle'[d] = IF Delivered(d)' > 0 THEN T[Delivered(d)'] ELSE Drained
    BY <1>1, <1>2, <1>3 DEF AnswerInv
  <2>. QED BY <2>1, <2>2
<1>5. /\ T[0] = 0 /\ request'.answer = IF Issued' > 0 THEN T[Issued'] ELSE Drained
      /\ given' = {T[n] : n \in 0 .. Issued'} \ {Drained}
      /\ \A n \in 0 .. Issued' - 1 : T[n] # Drained /\ \A m \in n + 1 .. Issued' : T[m] # T[n]
  BY <1>1, <1>2, <1>3 DEF AnswerInv
<1>6. AnswerInv(T)'
  BY <1>4, <1>5 DEF AnswerInv
<1>7. \A a \in Agent : TileOfAgent(a, T)'
  BY <1>1, AgentTileKept DEF TileInv
<1>8. StoredInv(T)'
  BY <1>1, StoredKept DEF TileInv, Read, Uses
<1>. QED BY <1>1, <1>6, <1>7, <1>8 DEF TileInv

(* The rest of the steps leave the answers alone.                            *)
LEMMA WorkingAnswers ==
  ASSUME ClusterTypes, RoundInv, kernel' = kernel, NEW T, TileInv(T), Working
  PROVE  AnswerInv(T)'
<1>1. UNCHANGED <<request, handle, given>>
  BY DEF Working, Load, Teardown, SayBye, WaitBye, Dealloc, Mma, MmaAcquire, MmaIssue, TensorDone,
         Consumer, ConsumerWait, Writeback, ClusterSync
<1>. QED BY <1>1, WorkingRounds, AnswerKept DEF TileInv

(* Waits and the hand-shake at the end move one role.                        *)
LEMMA MoveTiles ==
  ASSUME ClusterTypes, RoundInv, kernel' = kernel, NEW T, TileInv(T),
         \/ \E i \in WG : MmaAcquire(i)
         \/ \E c \in CTA, i \in WG : ConsumerWait(c, i)
         \/ \E c \in CTA : Teardown(c)
  PROVE  TileInv(T)'
<1>0. kernel \in Kernels /\ 0 \in WG
  BY Sizes DEF ClusterTypes, RoleTypes
<1>1. AnswerInv(T)'
  BY WorkingAnswers DEF Working, Mma, Consumer
<1>2. ASSUME NEW i \in WG, MmaAcquire(i) PROVE TileInv(T)'
  <2>. DEFINE x == <<"mma", i>>
  <2>1. x \in Agent /\ x[1] # "load" /\ x[1] # "con"
    BY <1>0, AgentNames
  <2>2. At(x) = "acquire" /\ agent' = Moved(x, "issue") /\ UNCHANGED <<loads, stored>>
    BY <1>2 DEF MmaAcquire, At
  <2>. HIDE DEF x
  <2>. QED BY <1>1, <2>1, <2>2, TilesMoved DEF Over, Place
<1>3. ASSUME NEW c \in CTA, NEW i \in WG, ConsumerWait(c, i) PROVE TileInv(T)'
  <2>. DEFINE x == <<"con", c, i>>
  <2>1. x \in Agent /\ x[1] # "load"
    BY <1>0, AgentNames
  <2>2. At(x) = "wait" /\ agent' = Moved(x, "read") /\ UNCHANGED <<loads, stored>>
    BY <1>3 DEF ConsumerWait, At
  <2>. HIDE DEF x
  <2>. QED BY <1>1, <2>1, <2>2, TilesMoved DEF Over, Place
<1>4. ASSUME NEW c \in CTA, Teardown(c) PROVE TileInv(T)'
  <2>. DEFINE x == <<"con", c, 0>>
  <2>1. x \in Agent /\ x[1] # "load"
    BY <1>0, AgentNames
  <2>2. PICK p \in {"byewait", "free", "left"} :
          At(x) \in {"bye", "byewait", "free"} /\ agent' = Moved(x, p) /\ UNCHANGED <<loads, stored>>
    BY <1>4 DEF Teardown, SayBye, WaitBye, Dealloc, At
  <2>. HIDE DEF x
  <2>. QED BY <1>1, <2>1, <2>2, TilesMoved DEF Over, Place
<1>. QED BY <1>2, <1>3, <1>4

(* A CTA loads the tile its loader decoded.                                  *)
LEMMA LoadTiles ==
  ASSUME ClusterTypes, RoundInv, kernel' = kernel, NEW T, TileInv(T), NEW c \in CTA, Load(c)
  PROVE  TileInv(T)'
<1>. DEFINE x == <<"load", c>>
<1>0. /\ kernel \in Kernels /\ RoleTypes /\ x \in Agent /\ Agent' = Agent /\ WG' = WG
      /\ loads[c] \in Seq(Answer) /\ c \in CTA
  BY Fixed, AgentNames DEF ClusterTypes, RoleTypes, DataTypes
<1>1. AnswerInv(T)'
  BY WorkingAnswers DEF Working
<1>2. /\ At(x) = "load" /\ agent' = Moved(x, "decode") /\ stored' = stored
      /\ loads' = [loads EXCEPT ![c] = Append(@, agent[x].tile)]
  BY DEF Load, At
<1>3. /\ \A a \in Agent \ {x} : agent'[a] = agent[a]
      /\ At(x)' = "decode" /\ Seen(x)' = Seen(x) /\ Uses(x)' = Uses(x)
      /\ agent'[x].tile = agent[x].tile /\ agent'[x].next = agent[x].next
  BY <1>0, <1>2, MovedAgent DEF Place
<1>4. x[1] = "load" /\ x[2] = c /\ agent[x].tile \in Answer /\ Seen(x) \in Nat
  BY <1>0, AgentTyped
<1>5. /\ loads'[c] = Append(loads[c], agent[x].tile)
      /\ \A d : d # c => loads'[d] = loads[d]
  BY <1>0, <1>2 DEF ClusterTypes, DataTypes
<1>6. TileOfAgent(x, T)'
  <2>1. TileOfAgent(x, T)
    BY <1>0 DEF TileInv
  <2>2. /\ Len(loads[c]) = Seen(x) /\ agent[x].tile = T[Seen(x)]
        /\ \A n \in 1 .. Len(loads[c]) : loads[c][n] = T[n - 1]
    BY <1>2, <1>4, <2>1 DEF TileOfAgent
  <2>. DEFINE L == Len(loads[c])
  <2>3. /\ Len(loads'[c]) = L + 1 /\ loads'[c][L + 1] = agent[x].tile
        /\ \A n \in 1 .. L : loads'[c][n] = loads[c][n]
    BY <1>0, <1>4, <1>5
  <2>4. L = Seen(x)
    BY <2>2
  <2>5. \A n \in 1 .. L : loads'[c][n] = T[n - 1]
    BY <2>2, <2>3
  <2>. HIDE DEF L
  <2>6. \A n \in 1 .. L + 1 : loads'[c][n] = T[n - 1]
    <3>1. loads'[c][L + 1] = T[(L + 1) - 1]
      BY <1>4, <2>2, <2>3, <2>4
    <3>2. \A n \in 1 .. L + 1 : n = L + 1 \/ n \in 1 .. L
      BY <1>4, <2>4
    <3>. QED BY <2>5, <3>1, <3>2
  <2>7. \A n \in 1 .. Len(loads'[c]) : loads'[c][n] = T[n - 1]
    BY <2>3, <2>6
  <2>8. Len(loads'[c]) = Seen(x)' + 1
    BY <1>3, <2>3, <2>4
  <2>9. /\ T[Seen(x)'] # Drained
        /\ Seen(x)' > 0 => agent'[x].next = T[Seen(x)']
    BY <1>2, <1>3, <2>1 DEF TileOfAgent
  <2>. HIDE DEF x
  <2>. QED BY <1>3, <1>4, <2>7, <2>8, <2>9 DEF TileOfAgent, Over
<1>7. ASSUME NEW a \in Agent PROVE TileOfAgent(a, T)'
  <2>1. CASE a = x
    BY <1>6, <2>1
  <2>2. CASE a # x
    <3>1. a[1] = "load" => a[2] # c
      BY <1>0, <2>2, KindOf, Kinds
    <3>2. a[1] = "load" => loads'[a[2]] = loads[a[2]]
      BY <1>5, <3>1
    <3>3. TileOfAgent(a, T)
      BY DEF TileInv
    <3>. HIDE DEF x
    <3>. QED BY <1>3, <2>2, <3>2, <3>3, AgentTileKept
  <2>. QED BY <2>1, <2>2
<1>8. StoredInv(T)'
  <2>1. \A d \in CTA, i \in WG : Read(d, i)' = Read(d, i)
    BY <1>0, <1>3, AgentNames, AgentApart DEF Read, Uses
  <2>. QED BY <1>2, <2>1, StoredKept DEF TileInv
<1>. QED BY <1>0, <1>1, <1>7, <1>8 DEF TileInv

(* The MMA warp issues its tile and decodes on, unless there is none.        *)
LEMMA IssueTiles ==
  ASSUME ClusterTypes, RoundInv, \A x \in Agent : LaneInv(x), kernel' = kernel,
         NEW T, TileInv(T), NEW i \in WG, MmaIssue(i)
  PROVE  TileInv(T)'
<1>. DEFINE x == <<"mma", i>>
<1>0. kernel \in Kernels /\ RoleTypes /\ Agent' = Agent
  BY Fixed DEF ClusterTypes, RoleTypes
<1>1. AnswerInv(T)'
  BY WorkingAnswers DEF Working, Mma
<1>2. /\ x \in Agent /\ \A a \in Agent \ {x} : agent'[a] = agent[a]
      /\ At(x) = "issue" /\ At(x)' = IF agent[x].next = Drained THEN End ELSE "decode"
      /\ Seen(x)' = Seen(x) /\ Uses(x)' = Uses(x) + 1 /\ agent'[x].next = agent[x].next
      /\ UNCHANGED <<loads, stored>>
  BY IssueAgent DEF MmaIssue
<1>3. x[1] = "mma" /\ Uses(x) \in Nat /\ Seen(x) \in Nat /\ LaneInv(x) /\ TileOfAgent(x, T)
  BY <1>0, <1>2, AgentTyped DEF TileInv
<1>4. Seen(x) > 0
  BY <1>2, <1>3 DEF LaneInv
<1>5. agent[x].next = T[Seen(x)] /\ End \in {"left", "sync"}
  BY <1>3, <1>4 DEF TileOfAgent, End
<1>6. TileOfAgent(x, T)'
  <2>. HIDE DEF x
  <2>. QED BY <1>2, <1>3, <1>5 DEF TileOfAgent, Over
<1>7. ASSUME NEW a \in Agent PROVE TileOfAgent(a, T)'
  <2>1. CASE a = x
    BY <1>6, <2>1
  <2>2. CASE a # x
    <3>1. TileOfAgent(a, T)
      BY DEF TileInv
    <3>. HIDE DEF x
    <3>. QED BY <1>2, <2>2, <3>1, AgentTileKept
  <2>. QED BY <2>1, <2>2
<1>8. StoredInv(T)'
  <2>1. \A d \in CTA, j \in WG : Read(d, j)' = Read(d, j)
    BY <1>0, <1>2, AgentNames, AgentApart DEF Read, Uses
  <2>. QED BY <1>2, <2>1, StoredKept DEF TileInv
<1>. QED BY <1>0, <1>1, <1>7, <1>8 DEF TileInv

LEMMA DoneTiles ==
  ASSUME ClusterTypes, RoundInv, kernel' = kernel, NEW T, TileInv(T), NEW i \in WG, TensorDone(i)
  PROVE  TileInv(T)'
<1>1. AnswerInv(T)'
  BY WorkingAnswers DEF Working
<1>2. UNCHANGED <<agent, loads, stored>> /\ Agent' = Agent
  BY Fixed DEF TensorDone
<1>3. \A a \in Agent : TileOfAgent(a, T)'
  BY <1>2, AgentTileKept DEF TileInv
<1>4. StoredInv(T)'
  BY <1>2, StoredKept DEF TileInv, Read, Uses
<1>. QED BY <1>1, <1>2, <1>3, <1>4 DEF TileInv

(* Without overlap all part at once; none of them has a tile left.           *)
LEMMA SyncTiles ==
  ASSUME ClusterTypes, RoundInv, kernel' = kernel, NEW T, TileInv(T), ClusterSync
  PROVE  TileInv(T)'
<1>1. AnswerInv(T)'
  BY WorkingAnswers DEF Working
<1>2. /\ \A a \in Agent : /\ At(a) = "sync" /\ At(a)' \in {"free", "left"}
                          /\ Seen(a)' = Seen(a) /\ Uses(a)' = Uses(a)
                          /\ agent'[a].tile = agent[a].tile /\ agent'[a].next = agent[a].next
      /\ UNCHANGED <<loads, stored>> /\ Agent' = Agent /\ kernel \in Kernels
  BY Fixed, SyncAgents DEF ClusterSync, ClusterTypes, RoleTypes
<1>3. ASSUME NEW a \in Agent PROVE TileOfAgent(a, T)'
  <2>1. TileOfAgent(a, T)
    BY DEF TileInv
  <2>. QED BY <1>2, <2>1 DEF TileOfAgent, Over
<1>4. StoredInv(T)'
  <2>1. \A d \in CTA, j \in WG : Read(d, j)' = Read(d, j)
    BY <1>2, AgentNames DEF Read
  <2>. QED BY <1>2, <2>1, StoredKept DEF TileInv
<1>. QED BY <1>1, <1>2, <1>3, <1>4 DEF TileInv

(* A consumer stores its tile, and turns to the one it decoded.              *)
LEMMA WritebackTiles ==
  ASSUME ClusterTypes, RoundInv, \A x \in Agent : LaneInv(x), kernel' = kernel,
         NEW T, TileInv(T), NEW c \in CTA, NEW i \in WG, Writeback(c, i)
  PROVE  TileInv(T)'
<1>. DEFINE x == <<"con", c, i>>
<1>0. kernel \in Kernels /\ RoleTypes /\ Agent' = Agent /\ WG' = WG /\ Answer' = Answer
  BY Fixed DEF ClusterTypes, RoleTypes
<1>1. AnswerInv(T)'
  BY WorkingAnswers DEF Working, Consumer
<1>2. /\ x \in Agent /\ \A a \in Agent \ {x} : agent'[a] = agent[a]
      /\ At(x) = "read"
      /\ At(x)' = IF agent[x].next # Drained THEN "decode" ELSE IF OVERLAP THEN "bye" ELSE "sync"
      /\ Seen(x)' = Seen(x) /\ Uses(x)' = Uses(x) + 1 /\ agent'[x].next = agent[x].next
      /\ agent'[x].tile = IF agent[x].next = Drained THEN agent[x].tile ELSE agent[x].next
      /\ loads' = loads /\ stored' = stored \cup {<<c, i, agent[x].tile>>}
  BY WritebackAgent DEF Writeback
<1>3. x[1] = "con" /\ Uses(x) \in Nat /\ Seen(x) \in Nat /\ LaneInv(x) /\ TileOfAgent(x, T)
  BY <1>0, <1>2, AgentTyped DEF TileInv
<1>4. Seen(x) = Uses(x) + 1
  BY <1>2, <1>3 DEF LaneInv
<1>5. agent[x].next = T[Seen(x)] /\ agent[x].tile = T[Uses(x)]
  BY <1>2, <1>3, <1>4 DEF TileOfAgent, Over
<1>6. TileOfAgent(x, T)'
  <2>. HIDE DEF x
  <2>. QED BY <1>2, <1>3, <1>4, <1>5 DEF TileOfAgent, Over
<1>7. ASSUME NEW a \in Agent PROVE TileOfAgent(a, T)'
  <2>1. CASE a = x
    BY <1>6, <2>1
  <2>2. CASE a # x
    <3>1. TileOfAgent(a, T)
      BY DEF TileInv
    <3>. HIDE DEF x
    <3>. QED BY <1>2, <2>2, <3>1, AgentTileKept
  <2>. QED BY <2>1, <2>2
<1>8. ASSUME NEW d \in CTA, NEW j \in WG, NEW t \in Answer
      PROVE  <<d, j, t>> \in stored' <=> \E n \in 0 .. Read(d, j)' - 1 : t = T[n]
  <2>1. <<d, j, t>> \in stored <=> \E n \in 0 .. Read(d, j) - 1 : t = T[n]
    BY DEF TileInv, StoredInv
  <2>2. CASE d = c /\ j = i
    <3>1. Read(d, j) = Uses(x) /\ Read(d, j)' = Uses(x) + 1
      BY <1>2, <2>2 DEF Read
    <3>2. <<d, j, t>> \in stored' <=> <<d, j, t>> \in stored \/ t = T[Uses(x)]
      BY <1>2, <1>5, <2>2
    <3>. HIDE DEF x
    <3>3. \A n : n \in 0 .. (Uses(x) + 1) - 1 <=> n \in 0 .. Uses(x) - 1 \/ n = Uses(x)
      BY <1>3
    <3>. QED BY <2>1, <3>1, <3>2, <3>3
  <2>3. CASE ~(d = c /\ j = i)
    <3>1. <<"con", d, j>> \in Agent \ {x}
      BY <1>0, <2>3, AgentNames, AgentApart
    <3>2. Read(d, j)' = Read(d, j)
      BY <1>2, <3>1 DEF Read, Uses
    <3>3. <<d, j, t>> \in stored' <=> <<d, j, t>> \in stored
      BY <1>2, <2>3
    <3>. QED BY <2>1, <3>2, <3>3
  <2>. QED BY <2>2, <2>3
<1>9. \A d \in CTA, j \in WG', t \in Answer' :
        <<d, j, t>> \in stored' <=> \E n \in 0 .. Read(d, j)' - 1 : t = T[n]
  BY <1>0, <1>8
<1>10. StoredInv(T)'
  BY <1>9 DEF StoredInv
<1>. QED BY <1>0, <1>1, <1>7, <1>10 DEF TileInv

LEMMA TileStep ==
  ASSUME ControlInv, kernel' = kernel, Step, NEW T \in [Nat -> Answer], TileInv(T)
  PROVE  \E U \in [Nat -> Answer'] : TileInv(U)'
<1>1. Answer' = Answer
  BY Fixed
<1>. USE DEF ControlInv
<1>2. CASE Cancel
  BY <1>2, CancelTiles
<1>3. CASE ~Cancel
  <2>1. TileInv(T)'
    <3>1. ASSUME NEW a \in Agent, Consume(a) PROVE TileInv(T)'
      BY <3>1, ConsumeTiles
    <3>2. ASSUME NEW c \in CTA, SchedExpect(c) PROVE TileInv(T)'
      BY <3>2, ExpectTiles
    <3>3. ASSUME NEW c \in CTA, Deliver(c) PROVE TileInv(T)'
      BY <3>3, DeliverTiles
    <3>4. ASSUME NEW c \in CTA, Load(c) PROVE TileInv(T)'
      BY <3>4, LoadTiles
    <3>5. ASSUME NEW i \in WG, MmaIssue(i) PROVE TileInv(T)'
      BY <3>5, IssueTiles
    <3>6. ASSUME NEW i \in WG, TensorDone(i) PROVE TileInv(T)'
      BY <3>6, DoneTiles
    <3>7. ASSUME NEW c \in CTA, NEW i \in WG, Writeback(c, i) PROVE TileInv(T)'
      BY <3>7, WritebackTiles
    <3>8. ASSUME ClusterSync PROVE TileInv(T)'
      BY <3>8, SyncTiles
    <3>9. ASSUME \/ \E i \in WG : MmaAcquire(i)
                 \/ \E c \in CTA, i \in WG : ConsumerWait(c, i)
                 \/ \E c \in CTA : Teardown(c)
          PROVE  TileInv(T)'
      BY <3>9, MoveTiles
    <3>. QED
      BY <1>3, <3>1, <3>2, <3>3, <3>4, <3>5, <3>6, <3>7, <3>8, <3>9 DEF Step, Sched, Mma, Consumer
  <2>. QED BY <1>1, <2>1
<1>. QED BY <1>2, <1>3

----------------------------------------------------------------------------
(* The start, and the invariant.                                             *)
LEMMA FirstPlaces ==
  ASSUME kernel \in Kernels
  PROVE  /\ FirstPlace(<<"sched", 0>>) = "cancel" /\ FirstPlace(<<"sched", 1>>) = "expect"
         /\ \A c \in CTA : FirstPlace(<<"load", c>>) = "load"
         /\ \A i \in WG : FirstPlace(<<"mma", i>>) = "decode"
         /\ \A c \in CTA, i \in WG : FirstPlace(<<"con", c, i>>) = "decode"
BY AgentApart, Kinds DEF FirstPlace

LEMMA Starts ==
  ASSUME Init
  PROVE  /\ kernel \in Kernels
         /\ \A a \in Agent : /\ At(a) = FirstPlace(a) /\ Seen(a) = 0 /\ Uses(a) = 0
                             /\ agent[a].tile = 0 /\ agent[a].next = Drained
                             /\ At(a) \in PlacesOf(a) /\ At(a) \in {"cancel", "expect", "load", "decode"}
                             /\ (a[1] = "load" => At(a) = "load")
                             /\ (a[1] \in {"mma", "con"} => At(a) = "decode")
                             /\ (a = <<"sched", 0>> => At(a) = "cancel")
         /\ At(<<"sched", 0>>) = "cancel" /\ At(<<"sched", 1>>) = "expect"
         /\ Issued = 0 /\ Expected(0) = 0 /\ Expected(1) = 0 /\ \A c \in CTA : Delivered(c) = 0
         /\ \A i \in WG : Uses(<<"mma", i>>) = 0 /\ Acquired(i) = 0
         /\ \A c \in CTA, i \in WG : Read(c, i) = 0
         /\ \A b \in Barrier : bar[b] = Bar(0, Count(b), 0, Count(b))
<1>1. /\ kernel \in Kernels
      /\ \A a \in Agent : agent[a] = [place |-> FirstPlace(a), tile |-> 0, next |-> Drained,
                                      seen |-> 0, uses |-> 0]
      /\ \A b \in Barrier : bar[b] = Armed(Count(b)) /\ request.to = {}
  BY DEF Init
<1>2. \A a \in Agent : /\ At(a) = FirstPlace(a) /\ Seen(a) = 0 /\ Uses(a) = 0
                       /\ agent[a].tile = 0 /\ agent[a].next = Drained
  <2>. TAKE a \in Agent
  <2>1. PICK p : p = FirstPlace(a)
    OBVIOUS
  <2>2. agent[a] = [place |-> p, tile |-> 0, next |-> Drained, seen |-> 0, uses |-> 0]
    BY <1>1, <2>1
  <2>3. /\ agent[a].place = p /\ agent[a].tile = 0 /\ agent[a].next = Drained
        /\ agent[a].seen = 0 /\ agent[a].uses = 0
    BY <2>2
  <2>. QED BY <2>1, <2>3 DEF At, Seen, Uses
<1>3. /\ CTA = {0, 1} /\ <<"sched", 0>> \in Agent /\ <<"sched", 1>> \in Agent
      /\ \A i \in WG : <<"mma", i>> \in Agent
      /\ \A c \in CTA, i \in WG : <<"con", c, i>> \in Agent
  BY <1>1, Sizes, AgentNames
<1>4. At(<<"sched", 0>>) = "cancel" /\ At(<<"sched", 1>>) = "expect"
  BY <1>1, <1>2, <1>3, FirstPlaces
<1>5. request.to = {}
  BY DEF Init
<1>6. Issued = 0 /\ Expected(0) = 0 /\ Expected(1) = 0 /\ \A c \in CTA : Delivered(c) = 0
  BY <1>2, <1>3, <1>4, <1>5 DEF Issued, Expected, Delivered
<1>7. \A i \in WG : Uses(<<"mma", i>>) = 0 /\ Acquired(i) = 0
  <2>. TAKE i \in WG
  <2>1. At(<<"mma", i>>) = "decode" /\ Uses(<<"mma", i>>) = 0
    BY <1>1, <1>2, <1>3, FirstPlaces
  <2>. QED BY <2>1 DEF Acquired
<1>8. \A c \in CTA, i \in WG : Read(c, i) = 0
  BY <1>2, <1>3 DEF Read
<1>9. \A b \in Barrier : bar[b] = Bar(0, Count(b), 0, Count(b))
  BY <1>1 DEF Armed, Bar
<1>10. ASSUME NEW a \in Agent
       PROVE  /\ At(a) \in PlacesOf(a) /\ At(a) \in {"cancel", "expect", "load", "decode"}
              /\ (a[1] = "load" => At(a) = "load")
              /\ (a[1] \in {"mma", "con"} => At(a) = "decode")
              /\ (a = <<"sched", 0>> => At(a) = "cancel")
  <2>1. CASE \E c \in CTA : a = <<"sched", c>>
    <3>1. a[1] = "sched" /\ (a = <<"sched", 0>> \/ a = <<"sched", 1>>)
      BY <1>3, <2>1
    <3>. QED BY <1>1, <1>4, <3>1, LanePlaces, AgentApart
  <2>2. CASE \E c \in CTA : a = <<"load", c>>
    <3>1. PICK c \in CTA : a = <<"load", c>>
      BY <2>2
    <3>2. a[1] = "load" /\ a # <<"sched", 0>> /\ At(a) = "load"
      BY <1>1, <1>2, <3>1, FirstPlaces
    <3>. QED BY <1>1, <3>1, <3>2, LanePlaces
  <2>3. CASE \E i \in WG : a = <<"mma", i>>
    <3>1. PICK i \in WG : a = <<"mma", i>>
      BY <2>3
    <3>2. a[1] = "mma" /\ a # <<"sched", 0>> /\ At(a) = "decode"
      BY <1>1, <1>2, <3>1, FirstPlaces
    <3>. QED BY <1>1, <3>1, <3>2, LanePlaces
  <2>4. CASE \E c \in CTA, i \in WG : a = <<"con", c, i>>
    <3>1. PICK c \in CTA, i \in WG : a = <<"con", c, i>>
      BY <2>4
    <3>2. a[1] = "con" /\ a # <<"sched", 0>> /\ At(a) = "decode"
      BY <1>1, <1>2, <3>1, FirstPlaces, AgentApart
    <3>. QED BY <1>1, <3>1, <3>2, LanePlaces
  <2>. QED BY <1>1, <2>1, <2>2, <2>3, <2>4, AgentNames
<1>. QED BY <1>1, <1>2, <1>4, <1>6, <1>7, <1>8, <1>9, <1>10

LEMMA FirstCounts ==
  /\ Count(FIN) = FinishArrivals
  /\ \A c : Count(ARR(c)) = 1 /\ Count(BYE(c)) = 1
  /\ \A s : Count(TEMPTY(s)) = 2 /\ \A c : Count(TFULL(c, s)) = 1
<1>1. /\ FIN[1] = "fin" /\ \A c : ARR(c)[1] = "arr" /\ BYE(c)[1] = "bye"
      /\ \A s : TEMPTY(s)[1] = "tempty" /\ \A c : TFULL(c, s)[1] = "tfull"
  BY DEF FIN, ARR, BYE, TEMPTY, TFULL
<1>. QED BY <1>1 DEF Count

LEMMA InitTypes == Init => ClusterTypes
<1>. SUFFICES ASSUME Init PROVE ClusterTypes
  OBVIOUS
<1>1. kernel \in Kernels
  BY DEF Init
<1>2. FinishArrivals \in Int /\ 0 \in Tile /\ CTA = {0, 1}
  BY <1>1, Sizes
<1>3. bar \in [Barrier -> BarRecord]
  <2>1. \A b \in Barrier : Count(b) \in Int
    BY <1>2 DEF Count
  <2>2. \A n \in Int : Armed(n) \in BarRecord
    BY DEF Armed, BarRecord
  <2>3. bar = [b \in Barrier |-> Armed(Count(b))]
    BY DEF Init
  <2>. QED BY <2>1, <2>2, <2>3
<1>4. agent \in [Agent -> AgentRecord]
  <2>1. \A a \in Agent : FirstPlace(a) \in Place
    BY DEF FirstPlace, Place
  <2>2. 0 \in Answer /\ Drained \in Answer /\ 0 \in Nat
    BY <1>2 DEF Answer
  <2>3. agent = [a \in Agent |-> [place |-> FirstPlace(a), tile |-> 0, next |-> Drained,
                                  seen |-> 0, uses |-> 0]]
    BY DEF Init
  <2>. QED BY <2>1, <2>2, <2>3 DEF AgentRecord
<1>5. AnswerTypes
  BY <1>2 DEF Init, AnswerTypes, Answer
<1>6. DataTypes
  <2>1. loads \in [CTA -> Seq(Answer)] /\ queue \in [WG -> Seq(Slot)]
    BY DEF Init
  <2>. QED BY <2>1 DEF Init, DataTypes
<1>. QED BY <1>1, <1>3, <1>4, <1>5, <1>6 DEF ClusterTypes, RoleTypes

LEMMA InitRounds == Init => RoundInv
<1>. SUFFICES ASSUME Init PROVE RoundInv
  OBVIOUS
<1>1. kernel \in Kernels /\ CTA = {0, 1} /\ FinishArrivals \in {7, 10}
  BY Sizes DEF Init
<1>2. bar[FIN] = Bar(0, FinishArrivals, 0, FinishArrivals) /\ \A c \in CTA : bar[ARR(c)] = Bar(0, 1, 0, 1)
  BY Starts, FirstCounts, BarNames
<1>3. Rounds = 0 /\ \A c \in CTA : bar[ARR(c)].turn = 0
  BY <1>2 DEF Rounds, Bar
<1>4. Ahead = {} /\ <<"sched", 0>> \in Agent
  BY <1>1, <1>3, Starts, AgentNames DEF Ahead
<1>5. FinInv
  <2>1. Cardinality({}) = 0
    BY FS_EmptySet
  <2>2. FinishArrivals - 0 = FinishArrivals
    BY <1>1
  <2>. QED BY <1>2, <1>3, <1>4, <2>1, <2>2, Starts DEF FinInv
<1>6. ASSUME NEW c \in CTA PROVE ArrInv(c)
  <2>1. Expected(c) = 0 /\ Delivered(c) = 0
    BY <1>1, Starts
  <2>2. 0 - 0 = 0 /\ ~(0 > 0) /\ 0 \in -1 .. 1
    OBVIOUS
  <2>3. \A a \in Agent : Seen(a) <= bar[ARR(c)].turn
    BY <1>3, Starts
  <2>. QED BY <1>2, <2>1, <2>2, <2>3 DEF ArrInv
<1>. QED BY <1>5, <1>6 DEF RoundInv

LEMMA InitTmem == Init => TmemInv
<1>. SUFFICES ASSUME Init PROVE TmemInv
  OBVIOUS
<1>1. /\ kernel \in Kernels /\ CTA = {0, 1} /\ Slot = {0, 1} /\ TMEM_PHASE_DEPTH \in {1, 2} /\ 0 \in WG
      /\ WG = IF OVERLAP THEN {0} ELSE {0, 1}
  BY Sizes DEF Init
<1>2. ASSUME NEW i \in WG PROVE MmaInv(i)
  <2>1. mmaDone[i] = 0 /\ queue[i] = <<>> /\ Len(queue[i]) = 0
    BY DEF Init
  <2>2. Uses(<<"mma", i>>) = 0 /\ Acquired(i) = 0 /\ \A c \in CTA : Read(c, i) = 0
    BY Starts
  <2>3. \A c \in CTA : loads[c] = <<>> /\ Len(loads[c]) = 0
    BY DEF Init
  <2>4. \A c \in CTA : At(<<"con", c, i>>) # "read"
    <3>. TAKE c \in CTA
    <3>1. <<"con", c, i>> \in Agent
      BY <1>1, AgentNames
    <3>. QED BY <3>1, Starts
  <2>5. \A n \in Nat : ~(n < mmaDone[i])
    BY <2>1
  <2>6. 0 <= 0 + TMEM_PHASE_DEPTH
    BY <1>1
  <2>7. /\ mmaDone[i] <= Uses(<<"mma", i>>) /\ Len(queue[i]) = Uses(<<"mma", i>>) - mmaDone[i]
        /\ \A k \in 1 .. Len(queue[i]) : queue[i][k] = SlotOf(i, mmaDone[i] + k - 1)
    BY <2>1, <2>2
  <2>8. \A c \in CTA : /\ Read(c, i) <= mmaDone[i] /\ Acquired(i) <= Read(c, i) + TMEM_PHASE_DEPTH
                      /\ Uses(<<"mma", i>>) <= Len(loads[c])
    BY <2>1, <2>2, <2>3, <2>6
  <2>. QED BY <2>4, <2>5, <2>7, <2>8 DEF MmaInv
<1>3. ASSUME NEW s \in Slot PROVE SlotInv(s)
  <2>1. Owner(s) \in WG \/ ~OVERLAP
    BY <1>1 DEF Owner
  <2>2. Owner(s) \in WG
    BY <1>1 DEF Owner
  <2>3. UsesOf(s, 0) = 0
    BY <1>1 DEF UsesOf
  <2>4. mmaDone[Owner(s)] = 0 /\ \A c \in CTA : Freed(c, s) = 0
    BY <2>2, <2>3, Starts DEF Init, Freed
  <2>5. bar[TEMPTY(s)] = Bar(0, 2, 0, 2) /\ \A c \in CTA : bar[TFULL(c, s)] = Bar(0, 1, 0, 1)
    BY Starts, FirstCounts, BarNames
  <2>6. Freed(0, s) = 0 /\ Freed(1, s) = 0
    BY <1>1, <2>4
  <2>. QED BY <2>3, <2>4, <2>5, <2>6 DEF SlotInv
<1>. QED BY <1>2, <1>3 DEF TmemInv

LEMMA InitEnd == Init => EndInv
<1>. SUFFICES ASSUME Init PROVE EndInv
  OBVIOUS
<1>1. kernel \in Kernels /\ CTA = {0, 1} /\ 0 \in WG
  BY Sizes DEF Init
<1>2. \A a \in Agent : At(a) \notin Over
  BY Starts DEF Over
<1>3. \A c \in CTA : <<"con", c, 0>> \in Agent /\ 1 - c \in CTA
  BY <1>1, AgentNames
<1>4. \A c \in CTA : bar[BYE(c)] = Bar(0, 1, 0, 1)
  BY Starts, FirstCounts, BarNames
<1>. QED BY <1>2, <1>3, <1>4 DEF EndInv, Waved, Over

LEMMA InitTiles == Init => \E T \in [Nat -> Answer] : TileInv(T)
<1>. SUFFICES ASSUME Init PROVE \E T \in [Nat -> Answer] : TileInv(T)
  OBVIOUS
<1>1. kernel \in Kernels /\ CTA = {0, 1} /\ 0 \in Tile /\ Drained # 0
  BY Sizes DEF Init, Drained
<1>2. PICK T \in [Nat -> Answer] : T[0] = 0
  <2>. DEFINE S == [n \in Nat |-> 0]
  <2>1. S \in [Nat -> Answer] /\ S[0] = 0
    BY <1>1 DEF Answer
  <2>. QED BY <2>1
<1>3. AnswerInv(T)
  <2>1. Issued = 0 /\ \A c \in CTA : Delivered(c) = 0
    BY Starts
  <2>2. request.answer = Drained /\ given = {0} /\ \A c \in CTA : handle[c] = Drained
    BY DEF Init
  <2>3. {T[n] : n \in 0 .. 0} = {0}
    BY <1>2
  <2>4. {0} \ {Drained} = {0}
    BY <1>1
  <2>. QED BY <1>2, <2>1, <2>2, <2>3, <2>4 DEF AnswerInv
<1>4. StoredInv(T)
  <2>1. stored = {} /\ \A c \in CTA, i \in WG : Read(c, i) = 0
    BY Starts DEF Init
  <2>. QED BY <2>1 DEF StoredInv
<1>5. ASSUME NEW a \in Agent PROVE TileOfAgent(a, T)
  <2>1. /\ At(a) \in {"cancel", "expect", "load", "decode"} /\ Seen(a) = 0 /\ Uses(a) = 0 /\ agent[a].tile = 0
        /\ a[1] = "load" => At(a) = "load"
    BY Starts
  <2>2. a[1] = "load" => loads[a[2]] = <<>> /\ Len(loads[a[2]]) = 0
    <3>1. a[1] = "load" => a[2] \in CTA
      BY <1>1, KindOf
    <3>. QED BY <3>1 DEF Init
  <2>. QED BY <1>1, <1>2, <2>1, <2>2 DEF TileOfAgent, Over
<1>. QED BY <1>3, <1>4, <1>5 DEF TileInv

LEMMA InitClc == Init => ClcInv
<1>1. Init => \A a \in Agent : LaneInv(a)
  BY Starts DEF LaneInv
<1>. QED BY <1>1, InitTypes, InitRounds, InitTmem, InitEnd, InitTiles DEF ClcInv, ControlInv

LEMMA StepClc ==
  ASSUME ClcInv, Step, kernel' = kernel
  PROVE  ClcInv'
<1>1. ControlInv
  BY DEF ClcInv
<1>2. ControlInv'
  <2>1. Agent' = Agent
    BY Fixed
  <2>. QED BY <1>1, <2>1, TypesStep, RoundStep, TmemStep, EndStep, LaneStep DEF ControlInv
<1>3. PICK T \in [Nat -> Answer] : TileInv(T)
  BY DEF ClcInv
<1>4. \E U \in [Nat -> Answer'] : TileInv(U)'
  BY <1>1, <1>3, TileStep
<1>. QED BY <1>2, <1>4 DEF ClcInv

LEMMA StillClc ==
  ASSUME ClcInv, UNCHANGED vars
  PROVE  ClcInv'
<1>1. /\ ClusterTypes /\ RoundInv /\ TmemInv /\ EndInv /\ \A a \in Agent : LaneInv(a)
      /\ UNCHANGED <<kernel, bar, agent, request, handle, given, loads, queue, mmaDone, acc, stored>>
  BY DEF ClcInv, ControlInv, vars
<1>2. Agent' = Agent /\ WG' = WG /\ Answer' = Answer /\ Tile' = Tile /\ AgentRecord' = AgentRecord
      /\ Barrier' = Barrier /\ kernel \in Kernels
  BY <1>1, Fixed DEF ClusterTypes, RoleTypes
<1>3. ClusterTypes'
  BY <1>1, <1>2 DEF ClusterTypes, RoleTypes, AnswerTypes, DataTypes
<1>4. \A a \in Agent : Seen(a)' = Seen(a) /\ Uses(a)' = Uses(a) /\ At(a)' = At(a)
  BY <1>1 DEF Seen, Uses, At
<1>5. /\ \A c \in CTA : <<"sched", c>> \in Agent
      /\ \A i \in WG : <<"mma", i>> \in Agent
      /\ \A c \in CTA, i \in WG : <<"con", c, i>> \in Agent
  BY <1>2, AgentNames
<1>6. /\ \A c \in CTA, i \in WG : Read(c, i)' = Read(c, i)
      /\ \A c \in CTA : Len(loads[c]) \in Nat
  BY <1>1, <1>4, <1>5 DEF Read, ClusterTypes, DataTypes
<1>7. RoundInv' /\ Issued' = Issued /\ \A d \in CTA : Delivered(d)' = Delivered(d)
  BY <1>1, <1>4, <1>5, RoundKept
<1>8. TmemInv'
  BY <1>1, <1>4, <1>5, <1>6, TmemKept
<1>9. EndInv' /\ \A a \in Agent : LaneInv(a)'
  BY <1>1, EndKept, LaneKept
<1>10. PICK T \in [Nat -> Answer] : TileInv(T)
  BY DEF ClcInv
<1>11. AnswerInv(T)' /\ StoredInv(T)'
  BY <1>1, <1>6, <1>7, <1>10, AnswerKept, StoredKept DEF TileInv
<1>12. \A a \in Agent : TileOfAgent(a, T)'
  BY <1>1, <1>10, AgentTileKept DEF TileInv
<1>13. TileInv(T)'
  BY <1>2, <1>11, <1>12 DEF TileInv
<1>14. \E U \in [Nat -> Answer'] : TileInv(U)'
  BY <1>2, <1>10, <1>13
<1>15. ControlInv'
  BY <1>2, <1>3, <1>7, <1>8, <1>9 DEF ControlInv
<1>. QED BY <1>14, <1>15 DEF ClcInv

LEMMA ClcInvariant == Spec => []ClcInv
<1>1. ASSUME ClcInv, [Next]_vars PROVE ClcInv'
  <2>1. CASE Step /\ kernel' = kernel
    BY <1>1, <2>1, StepClc
  <2>2. CASE UNCHANGED vars
    BY <1>1, <2>2, StillClc
  <2>. QED BY <1>1, <2>1, <2>2 DEF Next, Terminated
<1>. QED BY <1>1, InitClc, PTL DEF Spec

----------------------------------------------------------------------------
(* What each role knows when it is done: there is no tile after the last.    *)
LEMMA OverMeansLast ==
  ASSUME ControlInv, NEW T, TileInv(T), NEW a \in Agent, At(a) \in Over
  PROVE  Seen(a) = Issued /\ Delivered(CtaOf(a)) = Issued /\ T[Issued] = Drained
<1>1. /\ Seen(a) <= Delivered(CtaOf(a)) /\ Seen(a) <= Issued /\ Seen(a) \in Nat /\ Issued \in Nat
      /\ Delivered(CtaOf(a)) \in {Issued - 1, Issued}
  BY SeenIssued, RoundFacts, Ctas DEF ControlInv, ClusterTypes, RoleTypes
<1>2. T[Seen(a)] = Drained
  BY DEF TileInv, TileOfAgent
<1>3. \A n \in 0 .. Issued - 1 : T[n] # Drained
  BY DEF TileInv, AnswerInv
<1>4. Seen(a) = Issued
  <2>1. Seen(a) \notin 0 .. Issued - 1
    BY <1>2, <1>3
  <2>. QED BY <1>1, <2>1
<1>. QED BY <1>1, <1>2, <1>4

LEMMA OwnTile == ClcInv => StoresItsOwnTile
<1>. SUFFICES ASSUME ClcInv, NEW c \in CTA, NEW i \in WG, agent[<<"con", c, i>>].place = "read"
              PROVE  LET r == agent[<<"con", c, i>>] IN
                     acc[SlotOf(i, r.uses)] = <<r.tile, r.tile>> /\ <<c, i, r.tile>> \notin stored
  BY DEF StoresItsOwnTile
<1>. DEFINE x == <<"con", c, i>>
<1>1. PICK T \in [Nat -> Answer] : TileInv(T)
  BY DEF ClcInv
<1>2. /\ ClusterTypes /\ RoundInv /\ MmaInv(i) /\ kernel \in Kernels /\ RoleTypes
      /\ \A a \in Agent : LaneInv(a)
  BY DEF ClcInv, ControlInv, TmemInv, ClusterTypes, RoleTypes
<1>3. /\ x \in Agent /\ x[1] = "con" /\ At(x) = "read" /\ CTA = {0, 1} /\ LaneInv(x)
      /\ \A d \in CTA : <<"load", d>> \in Agent
  BY <1>2, AgentNames, Sizes DEF At
<1>4. PICK n \in Nat : n = Uses(x)
  BY <1>2, <1>3, AgentTyped
<1>5. n = Read(c, i) /\ n = agent[x].uses
  BY <1>4 DEF Read, Uses
<1>6. agent[x].tile = T[n]
  BY <1>1, <1>3, <1>4 DEF TileInv, TileOfAgent, Over
<1>7. Seen(x) = n + 1 /\ Seen(x) <= Issued /\ Issued \in Nat
  <2>1. Uses(x) = Seen(x) - 1 /\ Seen(x) <= Issued /\ Seen(x) \in Nat /\ Issued \in Nat
    BY <1>2, <1>3, SeenIssued DEF LaneInv
  <2>. QED BY <1>4, <2>1
<1>8. acc[SlotOf(i, n)] = <<loads[0][n + 1], loads[1][n + 1]>>
  <2>1. n < mmaDone[i] /\ Acquired(i) <= n + TMEM_PHASE_DEPTH
    BY <1>2, <1>3, <1>5 DEF MmaInv
  <2>2. Acquired(i) >= Uses(<<"mma", i>>) /\ Acquired(i) \in Nat /\ TMEM_PHASE_DEPTH \in Nat
        /\ Uses(<<"mma", i>>) \in Nat
    BY <1>2, TmemTypes DEF Acquired
  <2>3. Uses(<<"mma", i>>) <= n + TMEM_PHASE_DEPTH
    BY <2>1, <2>2
  <2>. QED BY <1>2, <2>1, <2>3 DEF MmaInv
<1>9. ASSUME NEW d \in CTA PROVE loads[d][n + 1] = T[n]
  <2>. DEFINE y == <<"load", d>>
  <2>1. y \in Agent /\ y[1] = "load" /\ y[2] = d
    BY <1>3
  <2>2. \A m \in 1 .. Len(loads[d]) : loads[d][m] = T[m - 1]
    BY <1>1, <2>1 DEF TileInv, TileOfAgent
  <2>3. n + 1 \in 1 .. Len(loads[d])
    <3>1. /\ n < mmaDone[i] /\ mmaDone[i] <= Uses(<<"mma", i>>) /\ Uses(<<"mma", i>>) <= Len(loads[d])
      BY <1>2, <1>3, <1>5 DEF MmaInv
    <3>2. mmaDone[i] \in Nat /\ Uses(<<"mma", i>>) \in Nat /\ Len(loads[d]) \in Nat
      BY <1>2, TmemTypes
    <3>. QED BY <3>1, <3>2
  <2>. QED BY <2>2, <2>3
<1>10. <<c, i, T[n]>> \notin stored
  <2>1. ASSUME NEW m \in 0 .. n - 1 PROVE T[n] # T[m]
    <3>1. m \in 0 .. Issued - 1 /\ n \in m + 1 .. Issued
      BY <1>7, <2>1
    <3>. QED BY <1>1, <3>1 DEF TileInv, AnswerInv
  <2>2. <<c, i, T[n]>> \in stored <=> \E m \in 0 .. Read(c, i) - 1 : T[n] = T[m]
    BY <1>1 DEF TileInv, StoredInv
  <2>. QED BY <1>5, <2>1, <2>2
<1>. QED BY <1>3, <1>5, <1>6, <1>8, <1>9, <1>10

LEMMA AllStored == ClcInv => NothingLost
<1>. SUFFICES ASSUME ClcInv, \A a \in Agent : agent[a].place = "left"
              PROVE  /\ stored = CTA \X WG \X given
                     /\ request.to = {} /\ \A b \in Barrier : bar[b].tx = 0
  BY DEF NothingLost
<1>1. PICK T \in [Nat -> Answer] : TileInv(T)
  BY DEF ClcInv
<1>2. /\ ControlInv /\ ClusterTypes /\ RoundInv /\ TmemInv /\ EndInv /\ kernel \in Kernels /\ RoleTypes
      /\ \A a \in Agent : LaneInv(a)
  BY DEF ClcInv, ControlInv, ClusterTypes, RoleTypes
<1>3. \A a \in Agent : At(a) = "left" /\ Seen(a) = Issued /\ Delivered(CtaOf(a)) = Issued /\ T[Issued] = Drained
  BY <1>1, <1>2, OverMeansLast DEF At, Over
<1>4. /\ CTA = {0, 1} /\ \A c \in CTA : <<"sched", c>> \in Agent /\ CtaOf(<<"sched", c>>) = c
      /\ \A c \in CTA, i \in WG : <<"con", c, i>> \in Agent
  BY <1>2, AgentNames, Sizes, Ctas
<1>5. PICK N \in Nat : N = Issued
  BY <1>2, RoundFacts
<1>6. request.to = {}
  <2>1. \A c \in CTA : c \notin request.to
    BY <1>2, <1>3, <1>4, RoundFacts
  <2>. QED BY <1>2, <2>1 DEF ClusterTypes, AnswerTypes
<1>7. given = {T[n] : n \in 0 .. N - 1}
  <2>1. given = {T[n] : n \in 0 .. N} \ {Drained} /\ \A n \in 0 .. N - 1 : T[n] # Drained
    BY <1>1, <1>5 DEF TileInv, AnswerInv
  <2>2. T[N] = Drained
    BY <1>3, <1>4, <1>5
  <2>3. \A n : n \in 0 .. N <=> n \in 0 .. N - 1 \/ n = N
    OBVIOUS
  <2>. QED BY <2>1, <2>2, <2>3
<1>8. \A c \in CTA, i \in WG, t \in Answer : <<c, i, t>> \in stored <=> t \in given
  <2>. TAKE c \in CTA, i \in WG, t \in Answer
  <2>1. Read(c, i) = N
    <3>. DEFINE x == <<"con", c, i>>
    <3>1. x \in Agent /\ x[1] = "con" /\ LaneInv(x) /\ At(x) = "left" /\ Seen(x) = N /\ Seen(x) \in Nat
      BY <1>2, <1>3, <1>4, <1>5
    <3>2. Uses(x) = Seen(x) - 0
      BY <3>1 DEF LaneInv
    <3>. QED BY <3>1, <3>2 DEF Read
  <2>2. <<c, i, t>> \in stored <=> \E n \in 0 .. Read(c, i) - 1 : t = T[n]
    BY <1>1 DEF TileInv, StoredInv
  <2>. QED BY <1>7, <2>1, <2>2
<1>9. stored = CTA \X WG \X given
  <2>1. stored \subseteq CTA \X WG \X Answer /\ given \subseteq Answer
    BY <1>2 DEF ClusterTypes, DataTypes, AnswerTypes, Answer
  <2>2. \A z : z \in stored => z \in CTA \X WG \X given
    <3>. TAKE z
    <3>1. HAVE z \in stored
    <3>2. PICK c \in CTA, i \in WG, t \in Answer : z = <<c, i, t>>
      BY <2>1, <3>1
    <3>. QED BY <1>8, <3>1, <3>2
  <2>3. \A z : z \in CTA \X WG \X given => z \in stored
    <3>. TAKE z
    <3>1. HAVE z \in CTA \X WG \X given
    <3>2. PICK c \in CTA, i \in WG, t \in given : z = <<c, i, t>>
      BY <3>1
    <3>. QED BY <1>8, <2>1, <3>2
  <2>. QED BY <2>2, <2>3
<1>10. ASSUME NEW b \in Barrier PROVE bar[b].tx = 0
  <2>1. \A t, p, x, n : Bar(t, p, x, n).tx = x
    BY DEF Bar
  <2>2. bar[FIN].tx = 0
    BY <1>2, <2>1 DEF RoundInv, FinInv
  <2>3. ASSUME NEW c \in CTA PROVE bar[ARR(c)].tx = 0
    <3>1. Expected(c) = N /\ Delivered(c) = N
      BY <1>3, <1>4, <1>5 DEF Expected
    <3>2. bar[ARR(c)].tx = Expected(c) - Delivered(c)
      BY <1>2, <2>1 DEF RoundInv, ArrInv
    <3>. QED BY <3>1, <3>2
  <2>4. \A s \in Slot : bar[TEMPTY(s)].tx = 0 /\ \A c \in CTA : bar[TFULL(c, s)].tx = 0
    BY <1>2, <2>1 DEF TmemInv, SlotInv
  <2>5. ASSUME NEW c \in CTA PROVE bar[BYE(c)].tx = 0
    <3>1. bar[BYE(c)] = Bar(IF OVERLAP /\ Waved(1 - c) THEN 1 ELSE 0, 1, 0, 1)
      BY <1>2 DEF EndInv
    <3>2. PICK t : t = IF OVERLAP /\ Waved(1 - c) THEN 1 ELSE 0
      OBVIOUS
    <3>3. bar[BYE(c)] = Bar(t, 1, 0, 1)
      BY <3>1, <3>2
    <3>. QED BY <2>1, <3>3
  <2>. QED BY <2>2, <2>3, <2>4, <2>5, BarNames
<1>. QED BY <1>6, <1>9, <1>10

LEMMA NobodyComputes ==
  ASSUME ControlInv, NEW T, TileInv(T), NEW i \in WG, \A c \in CTA : At(<<"con", c, i>>) \in Over
  PROVE  queue[i] = <<>> /\ At(<<"mma", i>>) \notin {"acquire", "issue"}
<1>. DEFINE m == <<"mma", i>>
            x == <<"con", 0, i>>
<1>1. /\ ClusterTypes /\ RoundInv /\ MmaInv(i) /\ kernel \in Kernels /\ RoleTypes
      /\ m \in Agent /\ x \in Agent /\ LaneInv(m) /\ LaneInv(x) /\ 0 \in CTA
      /\ m[1] = "mma" /\ x[1] = "con"
  BY AgentNames, Sizes DEF ControlInv, TmemInv, ClusterTypes, RoleTypes
<1>2. Seen(x) = Issued /\ At(x) \in Over
  BY <1>1, OverMeansLast
<1>3. /\ Uses(x) = Seen(x) - 0
      /\ Uses(m) = Seen(m) - (IF At(m) \in {"acquire", "issue"} THEN 1 ELSE 0)
  BY <1>1, <1>2 DEF LaneInv, Over
<1>4. Seen(m) <= Issued /\ Seen(m) \in Nat /\ Issued \in Nat
  BY <1>1, SeenIssued
<1>5. /\ Uses(x) <= mmaDone[i] /\ mmaDone[i] <= Uses(m) /\ Len(queue[i]) = Uses(m) - mmaDone[i]
      /\ mmaDone[i] \in Nat /\ queue[i] \in Seq(Slot)
  BY <1>1 DEF MmaInv, Read, ClusterTypes, DataTypes
<1>. HIDE DEF m, x
<1>6. At(m) \notin {"acquire", "issue"} /\ Len(queue[i]) = 0
  BY <1>2, <1>3, <1>4, <1>5
<1>7. queue[i] = <<>>
  BY <1>5, <1>6
<1>. QED BY <1>6, <1>7 DEF m

LEMMA FreedSafely == ClcInv => FreedLast
<1>. SUFFICES ASSUME ClcInv, NEW d \in CTA, agent[<<"con", d, 0>>].place \in {"free", "left"}
              PROVE  /\ \A i \in WG : queue[i] = <<>> /\ agent[<<"mma", i>>].place \notin {"acquire", "issue"}
                     /\ \A c \in CTA, i \in WG : agent[<<"con", c, i>>].place \notin {"decode", "wait", "read"}
  BY DEF FreedLast
<1>1. PICK T \in [Nat -> Answer] : TileInv(T)
  BY DEF ClcInv
<1>2. ControlInv /\ EndInv /\ kernel \in Kernels
  BY DEF ClcInv, ControlInv, ClusterTypes, RoleTypes
<1>3. /\ CTA = {0, 1} /\ WG = IF OVERLAP THEN {0} ELSE {0, 1}
      /\ <<"con", d, 0>> \in Agent /\ At(<<"con", d, 0>>) \in {"free", "left"}
      /\ \A c \in CTA, i \in WG : <<"con", c, i>> \in Agent
  BY <1>2, Sizes, AgentNames DEF At
<1>4. ASSUME NEW c \in CTA, NEW i \in WG PROVE At(<<"con", c, i>>) \in Over
  <2>1. CASE OVERLAP
    <3>1. i = 0 /\ (c = d \/ c = 1 - d)
      BY <1>3, <2>1
    <3>2. Waved(1 - d)
      BY <1>2, <1>3, <2>1 DEF EndInv
    <3>. QED BY <1>3, <3>1, <3>2 DEF Waved, Over
  <2>2. CASE ~OVERLAP
    BY <1>2, <1>3, <2>2 DEF EndInv, Over
  <2>. QED BY <2>1, <2>2
<1>5. \A i \in WG : queue[i] = <<>> /\ At(<<"mma", i>>) \notin {"acquire", "issue"}
  BY <1>1, <1>2, <1>4, NobodyComputes
<1>. QED BY <1>4, <1>5 DEF At, Over

(* A consumer that reads an accumulator finds in it the product of both      *)
(* CTAs' halves of the very tile it decoded, and has not stored that tile.   *)
THEOREM OwnTileStored == Spec => []StoresItsOwnTile
BY ClcInvariant, OwnTile, PTL

(* When every role has left, each tile the cluster was given is stored by    *)
(* every consumer, and no answer or transfer is on its way.                  *)
THEOREM NoTileLost == Spec => []NothingLost
BY ClcInvariant, AllStored, PTL

(* The accumulators are freed after the last operation and the last read.    *)
THEOREM TmemFreedLast == Spec => []FreedLast
BY ClcInvariant, FreedSafely, PTL

----------------------------------------------------------------------------
(* The hand-over of an answer.                                               *)
Turn(c) == bar[ARR(c)].turn
Cell(c) == IF DecodedBy[c] = RolesOf(c) THEN "none" ELSE handle[c]

(* A phase of ARR can only complete when all roles of the CTA decoded the    *)
(* answer before: until then FIN keeps the next request back.                *)
LEMMA TurnWaits ==
  ASSUME ClusterTypes, RoundInv, NEW c \in CTA, Expected(c) < Issued \/ Delivered(c) < Issued
  PROVE  \A a \in RolesOf(c) : Seen(a) = Turn(c)
<1>1. PICK E \in Int, D \in Int, N \in Nat : E = Expected(c) /\ D = Delivered(c) /\ N = Issued
  <2>1. /\ Issued \in Nat /\ Delivered(c) \in {Issued - 1, Issued} /\ Seen(<<"sched", c>>) \in Nat
        /\ Expected(c) \in {Seen(<<"sched", c>>), Seen(<<"sched", c>>) + 1}
    BY RoundFacts
  <2>2. Expected(c) \in Int /\ Delivered(c) \in Int
    BY <2>1
  <2>. QED BY <2>1, <2>2
<1>2. PICK R \in Int : R = Rounds
  BY RoundFacts
<1>3. N \in {R, R + 1} /\ D \in {N - 1, N} /\ (E < N \/ D < N)
  BY <1>1, <1>2, RoundFacts
<1>4. Turn(c) = IF E > D THEN D ELSE E
  <2>1. bar[ARR(c)] = Bar(IF E > D THEN D ELSE E, IF E > D THEN 0 ELSE 1, E - D, 1)
    BY <1>1 DEF RoundInv, ArrInv
  <2>. QED BY <2>1 DEF Bar, Turn
<1>5. ASSUME NEW a \in RolesOf(c) PROVE Seen(a) = Turn(c)
  <2>1. a \in Agent /\ CtaOf(a) = c
    BY DEF RolesOf
  <2>2. Seen(a) <= Turn(c) /\ Seen(a) \in {R, R + 1}
    BY <1>2, <2>1 DEF RoundInv, FinInv, ArrInv, Turn
  <2>. QED BY <1>3, <1>4, <2>2
<1>. QED BY <1>5

LEMMA AllDecoded ==
  ASSUME NEW c \in CTA, \A a \in RolesOf(c) : Seen(a) = Turn(c)
  PROVE  DecodedBy[c] = RolesOf(c) /\ Cell(c) = "none"
BY DEF DecodedBy, Cell, Seen, Turn

LEMMA RolesThere ==
  ASSUME ClusterTypes, kernel' = kernel
  PROVE  /\ \A c \in CTA : RolesOf(c)' = RolesOf(c) /\ <<"sched", c>> \in RolesOf(c) /\ RolesOf(c) \subseteq Agent
         /\ \A a \in Agent : CtaOf(a) \in CTA /\ a \in RolesOf(CtaOf(a))
<1>1. kernel \in Kernels /\ Agent' = Agent
  BY Fixed DEF ClusterTypes, RoleTypes
<1>. QED BY <1>1, AgentNames, Ctas DEF RolesOf

(* What a CTA shows as long as nothing happens to its answer.                *)
LEMMA CellKept ==
  ASSUME ClusterTypes, kernel' = kernel, NEW c \in CTA, Turn(c)' = Turn(c),
         \A a \in RolesOf(c) : Seen(a)' = Seen(a),
         handle'[c] = handle[c] \/ DecodedBy[c] = RolesOf(c)
  PROVE  DecodedBy'[c] = DecodedBy[c] /\ Cell(c)' = Cell(c)
<1>1. RolesOf(c)' = RolesOf(c)
  BY RolesThere
<1>2. /\ DecodedBy[c] = {a \in RolesOf(c) : Seen(a) = Turn(c)}
      /\ DecodedBy'[c] = {a \in RolesOf(c)' : Seen(a)' = Turn(c)'}
  BY DEF DecodedBy, Seen, Turn
<1>3. DecodedBy'[c] = DecodedBy[c]
  BY <1>1, <1>2
<1>. QED BY <1>1, <1>3 DEF Cell

LEMMA CellFilled ==
  ASSUME ClusterTypes, kernel' = kernel, NEW c \in CTA, Turn(c) \in Int, Turn(c)' = Turn(c) + 1,
         \A a \in RolesOf(c) : Seen(a)' = Seen(a) /\ Seen(a) = Turn(c)
  PROVE  /\ DecodedBy[c] = RolesOf(c) /\ DecodedBy'[c] = {} /\ Cell(c)' = handle'[c]
         /\ RolesOf(c) # {}
<1>1. RolesOf(c)' = RolesOf(c) /\ RolesOf(c) # {}
  BY RolesThere
<1>2. DecodedBy'[c] = {a \in RolesOf(c)' : Seen(a)' = Turn(c)'}
  BY DEF DecodedBy, Seen, Turn
<1>3. DecodedBy'[c] = {}
  BY <1>1, <1>2
<1>4. Cell(c)' = IF DecodedBy'[c] = RolesOf(c)' THEN "none" ELSE handle'[c]
  BY DEF Cell
<1>. QED BY <1>1, <1>3, <1>4, AllDecoded

LEMMA CellTaken ==
  ASSUME ClusterTypes, kernel' = kernel, NEW x \in Agent, NEW c \in CTA, c = CtaOf(x),
         Turn(c) \in Int, Turn(c)' = Turn(c), Seen(x) = Turn(c) - 1, Seen(x)' = Turn(c),
         \A a \in RolesOf(c) \ {x} : Seen(a)' = Seen(a), handle'[c] = handle[c]
  PROVE  /\ x \in RolesOf(c) /\ x \notin DecodedBy[c] /\ DecodedBy'[c] = DecodedBy[c] \cup {x}
         /\ Cell(c)' = IF DecodedBy'[c] = RolesOf(c) THEN "none" ELSE Cell(c)
<1>1. RolesOf(c)' = RolesOf(c) /\ x \in RolesOf(c)
  BY RolesThere
<1>2. /\ DecodedBy[c] = {a \in RolesOf(c) : Seen(a) = Turn(c)}
      /\ DecodedBy'[c] = {a \in RolesOf(c)' : Seen(a)' = Turn(c)'}
  BY DEF DecodedBy, Seen, Turn
<1>3. x \notin DecodedBy[c]
  BY <1>2
<1>4. DecodedBy'[c] = DecodedBy[c] \cup {x}
  BY <1>1, <1>2
<1>5. /\ Cell(c) = handle[c]
      /\ Cell(c)' = IF DecodedBy'[c] = RolesOf(c)' THEN "none" ELSE handle'[c]
  BY <1>1, <1>3 DEF Cell
<1>. QED BY <1>1, <1>3, <1>4, <1>5

TurnsAreLeast ==
  \A c \in CTA : /\ Expected(c) \in Int /\ Delivered(c) \in Int /\ Turn(c) \in Int
                 /\ Expected(c) - Delivered(c) \in -1 .. 1
                 /\ Turn(c) = IF Expected(c) > Delivered(c) THEN Delivered(c) ELSE Expected(c)

LEMMA TurnIs == ClusterTypes /\ RoundInv => TurnsAreLeast
<1>. SUFFICES ASSUME ClusterTypes, RoundInv, NEW c \in CTA
              PROVE  /\ Expected(c) \in Int /\ Delivered(c) \in Int /\ Turn(c) \in Int
                     /\ Expected(c) - Delivered(c) \in -1 .. 1
                     /\ Turn(c) = IF Expected(c) > Delivered(c) THEN Delivered(c) ELSE Expected(c)
  BY DEF TurnsAreLeast
<1>1. /\ Issued \in Nat /\ Delivered(c) \in {Issued - 1, Issued} /\ Seen(<<"sched", c>>) \in Nat
      /\ Expected(c) \in {Seen(<<"sched", c>>), Seen(<<"sched", c>>) + 1}
  BY RoundFacts
<1>2. Expected(c) \in Int /\ Delivered(c) \in Int
  BY <1>1
<1>3. PICK t, p : t = (IF Expected(c) > Delivered(c) THEN Delivered(c) ELSE Expected(c))
                  /\ p = IF Expected(c) > Delivered(c) THEN 0 ELSE 1
  OBVIOUS
<1>4. bar[ARR(c)] = Bar(t, p, Expected(c) - Delivered(c), 1) /\ Expected(c) - Delivered(c) \in -1 .. 1
  BY <1>3 DEF RoundInv, ArrInv
<1>5. Turn(c) = t
  BY <1>4 DEF Turn, Bar
<1>. QED BY <1>2, <1>3, <1>4, <1>5

Readers == [c \in CTA |-> RolesOf(c)]
Shown == [c \in CTA |-> Cell(c)]

(* One answer is put in the cell of a CTA, or one role takes it, or neither. *)
LEMMA CellPut ==
  ASSUME ClusterTypes, kernel' = kernel, NEW c \in CTA, DecodedBy[c] = RolesOf(c), DecodedBy'[c] = {},
         Cell(c)' = handle'[c], handle'[c] \in Answer, RolesOf(c) # {},
         \A d \in CTA \ {c} : DecodedBy'[d] = DecodedBy[d] /\ Cell(d)' = Cell(d)
  PROVE  AnswerCell!Next /\ Readers' = Readers
<1>1. Readers' = Readers /\ kernel \in Kernels
  BY RolesThere DEF Readers, ClusterTypes, RoleTypes
<1>2. /\ DecodedBy = [d \in CTA |-> DecodedBy[d]] /\ DecodedBy' = [d \in CTA |-> DecodedBy'[d]]
      /\ Shown = [d \in CTA |-> Cell(d)] /\ Shown' = [d \in CTA |-> Cell(d)']
  BY DEF DecodedBy, Shown
<1>3. DecodedBy' = [DecodedBy EXCEPT ![c] = {}] /\ DecodedBy' # DecodedBy
  BY <1>2
<1>4. Shown' = [Shown EXCEPT ![c] = Shown'[c]] /\ Shown'[c] = handle'[c]
  BY <1>2
<1>5. Shown'[c] \in Nat \cup {Drained}
  BY <1>1, <1>4, Sizes DEF Answer
<1>6. AnswerCell!Put(c)
  BY <1>3, <1>4, <1>5 DEF AnswerCell!Put, Shown, Cell
<1>. QED BY <1>1, <1>3, <1>6 DEF AnswerCell!Next

LEMMA CellTake ==
  ASSUME ClusterTypes, kernel' = kernel, NEW c \in CTA, NEW x \in RolesOf(c), x \notin DecodedBy[c],
         DecodedBy'[c] = DecodedBy[c] \cup {x},
         Cell(c)' = IF DecodedBy'[c] = RolesOf(c) THEN "none" ELSE Cell(c),
         \A d \in CTA \ {c} : DecodedBy'[d] = DecodedBy[d] /\ Cell(d)' = Cell(d)
  PROVE  AnswerCell!Next /\ Readers' = Readers
<1>1. Readers' = Readers
  BY RolesThere DEF Readers
<1>2. /\ DecodedBy = [d \in CTA |-> DecodedBy[d]] /\ DecodedBy' = [d \in CTA |-> DecodedBy'[d]]
      /\ Shown = [d \in CTA |-> Cell(d)] /\ Shown' = [d \in CTA |-> Cell(d)']
  BY DEF DecodedBy, Shown
<1>3. DecodedBy' = [DecodedBy EXCEPT ![c] = @ \cup {x}] /\ DecodedBy' # DecodedBy
  BY <1>2
<1>4. Shown' = IF DecodedBy'[c] = RolesOf(c) THEN [Shown EXCEPT ![c] = "none"] ELSE Shown
  BY <1>2
<1>5. AnswerCell!Take(c, x)
  BY <1>3, <1>4 DEF AnswerCell!Take, Shown, Cell
<1>. QED BY <1>1, <1>3, <1>5 DEF AnswerCell!Next

LEMMA CellsKept ==
  ASSUME ClusterTypes, kernel' = kernel,
         \A d \in CTA : DecodedBy'[d] = DecodedBy[d] /\ Cell(d)' = Cell(d)
  PROVE  UNCHANGED <<Readers, Shown, DecodedBy>>
<1>1. Readers' = Readers
  BY RolesThere DEF Readers
<1>2. /\ DecodedBy = [d \in CTA |-> DecodedBy[d]] /\ DecodedBy' = [d \in CTA |-> DecodedBy'[d]]
      /\ Shown = [d \in CTA |-> Cell(d)] /\ Shown' = [d \in CTA |-> Cell(d)']
  BY DEF DecodedBy, Shown
<1>. QED BY <1>1, <1>2

LEMMA CellStep ==
  ASSUME ClusterTypes, RoundInv, \A x \in Agent : LaneInv(x), kernel' = kernel, Step,
         ClusterTypes', RoundInv'
  PROVE  (AnswerCell!Next /\ Readers' = Readers) \/ UNCHANGED <<Readers, Shown, DecodedBy>>
<1>0. /\ kernel \in Kernels /\ RoleTypes /\ Agent' = Agent /\ Answer' = Answer
      /\ handle \in [CTA -> Answer] /\ handle' \in [CTA -> Answer]
      /\ \A c \in CTA : RolesOf(c) \subseteq Agent /\ <<"sched", c>> \in RolesOf(c) /\ CtaOf(<<"sched", c>>) = c
  BY Fixed, RolesThere, Ctas DEF ClusterTypes, RoleTypes, AnswerTypes
<1>1. /\ \A c \in CTA :
           /\ Expected(c) \in Int /\ Delivered(c) \in Int /\ Turn(c) \in Int
           /\ Expected(c) - Delivered(c) \in -1 .. 1
           /\ Turn(c) = IF Expected(c) > Delivered(c) THEN Delivered(c) ELSE Expected(c)
      /\ \A c \in CTA :
           /\ Expected(c)' \in Int /\ Delivered(c)' \in Int /\ Turn(c)' \in Int
           /\ Expected(c)' - Delivered(c)' \in -1 .. 1
           /\ Turn(c)' = IF Expected(c)' > Delivered(c)' THEN Delivered(c)' ELSE Expected(c)'
  <2>1. TurnsAreLeast /\ TurnsAreLeast'
    BY TurnIs, PTL
  <2>. QED BY <2>1 DEF TurnsAreLeast
<1>2. \A c \in CTA : Delivered(c) \in {Issued - 1, Issued} /\ Issued \in Nat
  BY RoundFacts
(* Nothing happens to the answers.                                           *)
<1>3. ASSUME \A a \in Agent : Seen(a)' = Seen(a), \A c \in CTA : bar'[ARR(c)] = bar[ARR(c)], handle' = handle
      PROVE  UNCHANGED <<Readers, Shown, DecodedBy>>
  <2>1. ASSUME NEW c \in CTA PROVE DecodedBy'[c] = DecodedBy[c] /\ Cell(c)' = Cell(c)
    <3>1. Turn(c)' = Turn(c) /\ \A a \in RolesOf(c) : Seen(a)' = Seen(a)
      BY <1>0, <1>3 DEF Turn
    <3>. QED BY <1>3, <3>1, CellKept
  <2>. QED BY <2>1, CellsKept
<1>4. ASSUME NEW c \in CTA, SchedExpect(c)
      PROVE  (AnswerCell!Next /\ Readers' = Readers) \/ UNCHANGED <<Readers, Shown, DecodedBy>>
  <2>. DEFINE x == <<"sched", c>>
  <2>1. x \in Agent /\ At(x) = "expect" /\ agent' = Moved(x, "decode") /\ handle' = handle
    BY <1>0, <1>4 DEF SchedExpect, At
  <2>2. /\ \A a \in Agent \ {x} : agent'[a] = agent[a]
        /\ At(x)' = "decode" /\ Seen(x)' = Seen(x)
    BY <1>0, <2>1, MovedAgent DEF Place
  <2>3. \A a \in Agent : Seen(a)' = Seen(a)
    BY <2>2 DEF Seen
  <2>4. Expected(c) = Seen(x) /\ Expected(c)' = Seen(x) + 1
    <3>1. Seen(x) \in Nat
      BY <1>0, <2>1, AgentTyped
    <3>2. Expected(c) = Seen(x) + 0
      BY <2>1 DEF Expected
    <3>. QED BY <2>2, <3>1, <3>2 DEF Expected
  <2>5. \A d \in CTA \ {c} : Expected(d)' = Expected(d)
    <3>. TAKE d \in CTA \ {c}
    <3>1. <<"sched", d>> \in Agent \ {x}
      BY <1>0, AgentApart
    <3>. QED BY <2>2, <3>1 DEF Expected, Seen, At
  <2>6. \A d \in CTA : Delivered(d)' = Delivered(d)
    BY <1>4, ExpectRounds
  <2>7. ASSUME NEW d \in CTA, Turn(d)' = Turn(d) PROVE DecodedBy'[d] = DecodedBy[d] /\ Cell(d)' = Cell(d)
    BY <1>0, <2>1, <2>3, <2>7, CellKept
  <2>8. \A d \in CTA \ {c} : DecodedBy'[d] = DecodedBy[d] /\ Cell(d)' = Cell(d)
    BY <1>1, <2>5, <2>6, <2>7
  <2>9. CASE Expected(c) = Delivered(c)
    <3>1. Turn(c)' = Turn(c)
      BY <1>1, <2>4, <2>6, <2>9
    <3>. QED BY <2>7, <2>8, <3>1, CellsKept
  <2>10. CASE Expected(c) # Delivered(c)
    <3>1. Turn(c)' = Turn(c) + 1 /\ Expected(c) < Delivered(c)
      BY <1>1, <2>4, <2>6, <2>10
    <3>2. Expected(c) < Issued
      BY <1>1, <1>2, <3>1
    <3>3. \A a \in RolesOf(c) : Seen(a)' = Seen(a) /\ Seen(a) = Turn(c)
      BY <1>0, <2>3, <3>2, TurnWaits
    <3>4. DecodedBy[c] = RolesOf(c) /\ DecodedBy'[c] = {} /\ Cell(c)' = handle'[c] /\ RolesOf(c) # {}
      BY <1>1, <3>1, <3>3, CellFilled
    <3>. QED BY <1>0, <2>8, <3>4, CellPut
  <2>. QED BY <2>9, <2>10
<1>5. ASSUME NEW c \in CTA, Deliver(c)
      PROVE  (AnswerCell!Next /\ Readers' = Readers) \/ UNCHANGED <<Readers, Shown, DecodedBy>>
  <2>1. agent' = agent /\ \A d \in CTA \ {c} : handle'[d] = handle[d]
    BY <1>0, <1>5 DEF Deliver
  <2>2. \A a \in Agent : Seen(a)' = Seen(a)
    BY <2>1 DEF Seen
  <2>3. \A d \in CTA : Expected(d)' = Expected(d)
    BY <2>1 DEF Expected, Seen, At
  <2>4. /\ Delivered(c) = Issued - 1 /\ Delivered(c)' = Issued
        /\ \A d \in CTA \ {c} : Delivered(d)' = Delivered(d)
    BY <1>5, DeliverRounds
  <2>5. \A a \in RolesOf(c) : Seen(a)' = Seen(a) /\ Seen(a) = Turn(c)
    <3>1. Delivered(c) < Issued
      BY <1>2, <2>4
    <3>. QED BY <1>0, <2>2, <3>1, TurnWaits
  <2>6. ASSUME NEW d \in CTA \ {c} PROVE DecodedBy'[d] = DecodedBy[d] /\ Cell(d)' = Cell(d)
    <3>1. Turn(d)' = Turn(d)
      BY <1>1, <2>3, <2>4
    <3>. QED BY <1>0, <2>1, <2>2, <3>1, CellKept
  <2>7. CASE Expected(c) = Delivered(c)
    <3>1. Turn(c)' = Turn(c)
      BY <1>1, <1>2, <2>3, <2>4, <2>7
    <3>2. DecodedBy[c] = RolesOf(c)
      BY <2>5, AllDecoded
    <3>3. DecodedBy'[c] = DecodedBy[c] /\ Cell(c)' = Cell(c)
      BY <2>5, <3>1, <3>2, CellKept
    <3>. QED BY <2>6, <3>3, CellsKept
  <2>8. CASE Expected(c) # Delivered(c)
    <3>1. Turn(c)' = Turn(c) + 1
      BY <1>1, <1>2, <2>3, <2>4, <2>8
    <3>2. DecodedBy[c] = RolesOf(c) /\ DecodedBy'[c] = {} /\ Cell(c)' = handle'[c] /\ RolesOf(c) # {}
      BY <1>1, <2>5, <3>1, CellFilled
    <3>. QED BY <1>0, <2>6, <3>2, CellPut
  <2>. QED BY <2>7, <2>8
<1>6. ASSUME NEW x \in Agent, Consume(x)
      PROVE  AnswerCell!Next /\ Readers' = Readers
  <2>1. PICK c \in CTA : c = CtaOf(x)
    BY <1>0, Ctas
  <2>2. /\ \A a \in Agent \ {x} : agent'[a] = agent[a]
        /\ Passed(bar[ARR(CtaOf(x))], Seen(x)) /\ Seen(x)' = Seen(x) + 1
    BY <1>6, ConsumeAgent
  <2>3. /\ handle' = handle /\ bar' = [bar EXCEPT ![FIN] = Arrive(@)]
    BY <1>6 DEF Consume
  <2>4. \A d \in CTA : Turn(d)' = Turn(d)
    BY <1>0, <2>3, BarNames, BarApart DEF Turn, ClusterTypes, RoleTypes
  <2>5. Seen(x) = Rounds /\ Turn(c) = Rounds + 1 /\ Rounds \in Int
    BY <2>1, <2>2, Answered, RoundFacts DEF Turn
  <2>6. Seen(x) = Turn(c) - 1 /\ Seen(x)' = Turn(c)
    BY <2>2, <2>5
  <2>7. \A a \in Agent \ {x} : Seen(a)' = Seen(a)
    BY <2>2 DEF Seen
  <2>8. /\ x \in RolesOf(c) /\ x \notin DecodedBy[c] /\ DecodedBy'[c] = DecodedBy[c] \cup {x}
        /\ Cell(c)' = IF DecodedBy'[c] = RolesOf(c) THEN "none" ELSE Cell(c)
    BY <1>0, <1>1, <2>1, <2>3, <2>4, <2>6, <2>7, CellTaken
  <2>9. ASSUME NEW d \in CTA \ {c} PROVE DecodedBy'[d] = DecodedBy[d] /\ Cell(d)' = Cell(d)
    <3>1. \A a \in RolesOf(d) : Seen(a)' = Seen(a)
      BY <2>1, <2>7 DEF RolesOf
    <3>. QED BY <2>3, <2>4, <3>1, CellKept
  <2>. QED BY <2>8, <2>9, CellTake
<1>7. CASE Cancel
  <2>. DEFINE x == <<"sched", 0>>
  <2>1. x \in Agent /\ agent' = Moved(x, "expect") /\ handle' = handle /\ bar' = bar
    BY <1>0, <1>7, Sizes DEF Cancel
  <2>2. \A a \in Agent : Seen(a)' = Seen(a)
    BY <1>0, <2>1, MovedAgent DEF Place, Seen
  <2>. QED BY <1>3, <2>1, <2>2
<1>8. CASE Working
  <2>1. handle' = handle
    BY <1>8 DEF Working, Load, Teardown, SayBye, WaitBye, Dealloc, Mma, MmaAcquire, MmaIssue, TensorDone,
           Consumer, ConsumerWait, Writeback, ClusterSync
  <2>. QED BY <1>3, <1>8, <2>1, WorkingRounds
<1>. QED BY <1>4, <1>5, <1>6, <1>7, <1>8 DEF Step, Sched, Working

(* Every role of a CTA decodes each answer once, and only then is the next   *)
(* one written over it: the hand-over is that of BroadcastCells.              *)
THEOREM AnswersReachAll == Spec => AnswersBroadcast
<1>1. Init => AnswerCell!Init
  <2>. SUFFICES ASSUME Init PROVE AnswerCell!Init
    OBVIOUS
  <2>1. kernel \in Kernels /\ ClusterTypes /\ RoundInv
    BY InitTypes, InitRounds DEF Init
  <2>2. ASSUME NEW c \in CTA PROVE DecodedBy[c] = RolesOf(c) /\ Cell(c) = "none"
    <3>1. Turn(c) = 0
      <4>1. ARR(c) \in Barrier /\ bar[ARR(c)] = Bar(0, Count(ARR(c)), 0, Count(ARR(c)))
        BY Starts, BarNames
      <4>. QED BY <4>1 DEF Turn, Bar
    <3>2. \A a \in RolesOf(c) : Seen(a) = Turn(c)
      BY <3>1, Starts DEF RolesOf
    <3>. QED BY <3>2, AllDecoded
  <2>3. DecodedBy = [c \in CTA |-> DecodedBy[c]]
    BY DEF DecodedBy
  <2>4. DecodedBy = [c \in CTA |-> RolesOf(c)] /\ Shown = [c \in CTA |-> "none"]
    BY <2>2, <2>3 DEF Shown
  <2>. QED BY <2>4 DEF AnswerCell!Init, Shown, Cell
<1>2. ASSUME ClcInv, ClcInv', [Next]_vars
      PROVE  (AnswerCell!Next /\ Readers' = Readers) \/ UNCHANGED <<Readers, Shown, DecodedBy>>
  <2>1. CASE Step /\ kernel' = kernel
    BY <1>2, <2>1, CellStep DEF ClcInv, ControlInv
  <2>2. CASE UNCHANGED vars
    <3>1. ClusterTypes /\ kernel' = kernel /\ handle' = handle /\ bar' = bar /\ agent' = agent
      BY <1>2, <2>2 DEF ClcInv, ControlInv, vars
    <3>2. \A d \in CTA : DecodedBy'[d] = DecodedBy[d] /\ Cell(d)' = Cell(d)
      BY <3>1, CellKept DEF Turn, Seen
    <3>. QED BY <3>1, <3>2, CellsKept
  <2>. QED BY <1>2, <2>1, <2>2 DEF Next, Terminated
<1>3. ASSUME ClcInv, ClcInv', [Next]_vars
      PROVE  [AnswerCell!Next /\ UNCHANGED [c \in CTA |-> RolesOf(c)]]_<<
                [c \in CTA |-> RolesOf(c)],
                [c \in CTA |-> IF DecodedBy[c] = RolesOf(c) THEN "none" ELSE handle[c]], DecodedBy>>
  BY <1>2, <1>3 DEF Readers, Shown, Cell
<1>. QED BY <1>1, <1>3, ClcInvariant, PTL DEF Spec, AnswersBroadcast, AnswerCell!Spec
=============================================================================
