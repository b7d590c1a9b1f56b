-------------------------- MODULE RadixTopK_proofs --------------------------
(***************************************************************************)
(* The CTAs of a group take the same barriers, and the workspace they share  *)
(* is what the row and the round they are in make it. A place in the row     *)
(* loop says how many barriers lie behind it (PathInv), the arrival counter  *)
(* is within one barrier of all CTAs (CountInv), and so CTAs at work in the   *)
(* rounds of a row are at most one round apart: fewer than there are buffers. *)
(*                                                                         *)
(* On that rests what the histograms hold (DataInv): the one of a round is   *)
(* the histogram of the chunks that were folded into it, the one CTA 0 has   *)
(* cleared waits for the next round, and a CTA knows the leading digits of   *)
(* the row's K-th largest key and how many keys are still wanted. That a     *)
(* radix step finds the next digit is a fact about RadixSelect alone.        *)
(*                                                                         *)
(* What is in the slots rests on both (OutInv): the keys of a row that were  *)
(* given a slot have each their own, below K if they are above the pivot,    *)
(* the slots hold those that were written, and the counters the slots come   *)
(* from (output_counter, the published counts) count exactly those keys.     *)
(***************************************************************************)
EXTENDS RadixTopK, FiniteSetTheorems, WellFoundedInduction, TLAPS

(* Where a CTA is, or where it goes after the barrier it is in.              *)
InBarrier == {"arrive", "wait"}
OfRound == {"fold", "clear", "read", "select"}
AfterRounds == {"publish", "claim", "emit", "eq", "place", "gather"}
OfRow == {"zero", "fold", "clear", "read", "select",
          "publish", "claim", "emit", "eq", "place", "gather"}
Ended == {"reset", "release", "done"}
Spot == {"row", "zero", "fold", "clear", "read", "select", "publish", "claim", "emit", "eq",
         "place", "gather", "reset", "release", "done", "arrive", "wait"}
Aim(c) == IF pc[c] \in InBarrier THEN then[c] ELSE pc[c]
ControlTypes ==
  /\ kernel \in Kernel /\ rows \in Seq(Rows) /\ arrival \in Nat
  /\ pc \in [CTA -> Spot] /\ then \in [CTA -> Spot]
  /\ it \in [CTA -> Nat] /\ rnd \in [CTA -> Nat] /\ phase \in [CTA -> Nat]

(* The barriers of a row, and those of it that lie behind a place.           *)
PerRow == kernel.rounds + 2 + (IF kernel.paged THEN 1 ELSE 0)
Gates == [n \in Nat |-> PerRow * Cardinality({j \in 1 .. n : ~Trivial(rows[j])})]
Stage(c) ==
  LET p == Aim(c) IN
  IF p = "zero" THEN 1
  ELSE IF p \in {"fold", "clear"} THEN rnd[c] + 1
  ELSE IF p \in {"read", "select"} THEN rnd[c] + 2
  ELSE IF p \in {"publish", "claim", "emit"} THEN kernel.rounds + 1
  ELSE IF p \in {"eq", "place"} THEN kernel.rounds + 2
  ELSE IF p = "gather" THEN kernel.rounds + 3
  ELSE 0
Due(c) == phase[c] + (IF pc[c] \in InBarrier THEN 1 ELSE 0)
PathInv(c) ==
  /\ it[c] <= Len(rows) /\ rnd[c] < kernel.rounds
  /\ pc[c] \in InBarrier => then[c] \in {"zero", "fold", "read", "eq", "place", "gather"}
  /\ Aim(c) \in OfRow => it[c] < Len(rows) /\ ~Trivial(Row(c))
  /\ Aim(c) \notin OfRound => rnd[c] = 0
  /\ Aim(c) \in {"zero", "clear"} => c = 0
  /\ pc[c] \in InBarrier /\ then[c] = "fold" => c # 0 /\ rnd[c] = 0
  /\ Aim(c) \in {"publish", "place"} => kernel.det
  /\ Aim(c) \in {"claim", "emit", "eq"} => ~kernel.det
  /\ Aim(c) = "gather" => kernel.paged
  /\ pc[c] \in Ended => it[c] = Len(rows)
  /\ Due(c) = Gates[it[c]] + Stage(c)

(* The arrivals of a CTA in this launch, the one at its exit among them.     *)
Arrivals == [c \in CTA |-> phase[c] + (IF pc[c] \in {"wait", "reset", "release", "done"} THEN 1 ELSE 0)]
Counted(f, n, m) ==
  /\ \A c \in CTA : f[c] \in {m, m + 1}
  /\ n = m * CTAS + Cardinality({c \in CTA : f[c] = m + 1})
CountInv ==
  /\ \A c, d \in CTA : phase[c] <= Arrivals[d]
  /\ IF AllDone THEN arrival = 0 ELSE \E m \in Nat : Counted(Arrivals, arrival, m)
  /\ \A c, d \in CTA : pc[c] \in {"reset", "release"} /\ c # d => pc[d] = "done"

CleanInv ==
  /\ AllDone \/ (\E c \in CTA : pc[c] = "release") =>
       hist = [b \in Buffer |-> NoKeys] /\ scratch = [c \in CTA |-> NoCounts]
  /\ ~kernel.det => scratch = [c \in CTA |-> NoCounts]

ControlInv == ControlTypes /\ (\A c \in CTA : PathInv(c)) /\ CountInv

----------------------------------------------------------------------------
(* The group, and counting in it.                                            *)
LEMMA Group ==
  /\ CTAS \in Nat /\ CTAS >= 2 /\ 0 \in CTA
  /\ IsFiniteSet(CTA) /\ Cardinality(CTA) = CTAS
  /\ \A S : S \subseteq CTA => /\ IsFiniteSet(S) /\ Cardinality(S) \in Nat
                               /\ Cardinality(S) <= CTAS
                               /\ Cardinality(S) = CTAS => S = CTA
<1>1. CTAS \in Nat /\ CTAS >= 2 /\ 0 \in CTA
  BY CtasAssumption DEF CTA
<1>2. IsFiniteSet(CTA) /\ Cardinality(CTA) = CTAS
  <2>1. /\ IsFiniteSet(0 .. CTAS - 1)
        /\ Cardinality(0 .. CTAS - 1) = IF 0 > CTAS - 1 THEN 0 ELSE (CTAS - 1) - 0 + 1
    BY <1>1, FS_Interval
  <2>. QED BY <1>1, <2>1 DEF CTA
<1>. QED BY <1>1, <1>2, FS_Subset, FS_CardinalityType

LEMMA Products ==
  \A m \in Nat : m * CTAS \in Nat /\ (m + 1) * CTAS = m * CTAS + CTAS
BY CtasAssumption

(* One more arrival of a CTA.                                                *)
LEMMA CountArrival ==
  ASSUME NEW f \in [CTA -> Nat], NEW n \in Nat, NEW m \in Nat, NEW c \in CTA,
         Counted(f, n, m), \A d \in CTA : f[c] <= f[d]
  PROVE  \E k \in Nat : Counted([f EXCEPT ![c] = @ + 1], n + 1, k)
<1>. DEFINE g == [f EXCEPT ![c] = @ + 1]
            F(k) == {d \in CTA : f[d] = k}
            G(k) == {d \in CTA : g[d] = k}
<1>1. F(m + 1) \subseteq CTA /\ IsFiniteSet(F(m + 1)) /\ Cardinality(F(m + 1)) \in Nat
  BY Group
<1>2. CASE f[c] = m
  <2>1. G(m + 1) = F(m + 1) \cup {c} /\ c \notin F(m + 1)
    BY <1>2
  <2>2. Cardinality(G(m + 1)) = Cardinality(F(m + 1)) + 1
    BY <1>1, <2>1, FS_AddElement
  <2>3. \A d \in CTA : g[d] \in {m, m + 1}
    BY <1>2 DEF Counted
  <2>4. n + 1 = m * CTAS + Cardinality(G(m + 1))
    <3>1. n = m * CTAS + Cardinality(F(m + 1)) /\ m * CTAS \in Nat
      BY Products DEF Counted
    <3>. QED BY <1>1, <2>2, <3>1
  <2>. QED BY <2>3, <2>4 DEF Counted
<1>3. CASE f[c] = m + 1
  <2>1. F(m + 1) = CTA
    BY <1>3 DEF Counted
  <2>2. G(m + 2) = {c} /\ \A d \in CTA : g[d] \in {m + 1, m + 2}
    BY <2>1
  <2>3. Cardinality(G(m + 2)) = 1
    BY <2>2, FS_Singleton
  <2>4. n + 1 = (m + 1) * CTAS + 1
    BY <2>1, Group, Products DEF Counted
  <2>5. m + 1 \in Nat /\ (m + 1) + 1 = m + 2
    OBVIOUS
  <2>. QED BY <2>2, <2>3, <2>4, <2>5 DEF Counted
<1>. QED BY <1>2, <1>3 DEF Counted

(* The count a CTA waits for is there only with the arrival of all.          *)
LEMMA CountReached ==
  ASSUME NEW f \in [CTA -> Nat], NEW n \in Nat, NEW m \in Nat, NEW c \in CTA,
         Counted(f, n, m), n >= f[c] * CTAS
  PROVE  \A d \in CTA : f[c] <= f[d]
<1>1. CASE f[c] = m
  BY <1>1 DEF Counted
<1>2. CASE f[c] = m + 1
  <2>1. n = m * CTAS + Cardinality({d \in CTA : f[d] = m + 1}) /\ m * CTAS \in Nat
    BY Products DEF Counted
  <2>2. n >= m * CTAS + CTAS
    BY <1>2, Products
  <2>3. {d \in CTA : f[d] = m + 1} \subseteq CTA
    OBVIOUS
  <2>4. {d \in CTA : f[d] = m + 1} = CTA
    BY <2>1, <2>2, <2>3, Group
  <2>. QED BY <1>2, <2>4
<1>. QED BY <1>1, <1>2 DEF Counted

(* The arrival that makes the count a multiple is the last of its barrier.   *)
LEMMA CountLast ==
  ASSUME NEW f \in [CTA -> Nat], NEW n \in Nat, NEW m \in Nat, NEW c \in CTA,
         Counted(f, n, m), \A d \in CTA : f[c] <= f[d]
  PROVE  n + 1 = (f[c] + 1) * CTAS <=> \A d \in CTA \ {c} : f[d] = f[c] + 1
<1>. DEFINE F == {d \in CTA : f[d] = m + 1}
<1>1. F \subseteq CTA /\ IsFiniteSet(F) /\ Cardinality(F) \in Nat /\ Cardinality(F) <= CTAS
  BY Group
<1>2. n = m * CTAS + Cardinality(F) /\ m * CTAS \in Nat /\ (m + 1) * CTAS = m * CTAS + CTAS
      /\ (m + 2) * CTAS = m * CTAS + CTAS + CTAS /\ CTAS \in Nat /\ CTAS >= 2
  BY Products, Group DEF Counted
<1>3. CASE f[c] = m
  <2>1. c \notin F
    BY <1>3
  <2>2. Cardinality(F \cup {c}) = Cardinality(F) + 1 /\ F \cup {c} \subseteq CTA
    BY <1>1, <2>1, FS_AddElement
  <2>3. Cardinality(F) + 1 = CTAS <=> F \cup {c} = CTA
    BY <2>2, Group
  <2>4. n + 1 = (f[c] + 1) * CTAS <=> Cardinality(F) + 1 = CTAS
    <3>. HIDE DEF F
    <3>. QED BY <1>1, <1>2, <1>3
  <2>5. F \cup {c} = CTA <=> \A d \in CTA \ {c} : f[d] = f[c] + 1
    BY <1>3, <2>1
  <2>. QED BY <2>3, <2>4, <2>5
<1>4. CASE f[c] = m + 1
  <2>1. \A d \in CTA : f[d] = m + 1
    BY <1>4 DEF Counted
  <2>2. Cardinality(F) = CTAS
    <3>1. F = CTA
      BY <2>1
    <3>. QED BY <3>1, Group
  <2>3. n + 1 # (f[c] + 1) * CTAS
    <3>1. (f[c] + 1) = m + 2
      BY <1>4
    <3>. HIDE DEF F
    <3>. QED BY <1>1, <1>2, <2>2, <3>1
  <2>4. \E d \in CTA : d # c
    <3>1. 0 \in CTA /\ 1 \in CTA
      BY CtasAssumption DEF CTA
    <3>. QED BY <3>1
  <2>. QED BY <1>4, <2>1, <2>3, <2>4
<1>. QED BY <1>3, <1>4 DEF Counted

----------------------------------------------------------------------------
(* The barriers of the rows before a row.                                    *)
LEMMA GateFacts ==
  ASSUME kernel \in Kernel
  PROVE  /\ PerRow \in Nat /\ PerRow >= 4 /\ Gates[0] = 0
         /\ \A n \in Nat : /\ Gates[n] \in Nat
                           /\ Gates[n + 1] = Gates[n] + (IF Trivial(rows[n + 1]) THEN 0 ELSE PerRow)
         /\ \A n, m \in Nat : n <= m => Gates[n] <= Gates[m]
         /\ \A n, m \in Nat : n < m /\ ~Trivial(rows[n + 1]) => Gates[n] + PerRow <= Gates[m]
<1>. DEFINE W(n) == {j \in 1 .. n : ~Trivial(rows[j])}
<1>1. PerRow \in Nat /\ PerRow >= 4 /\ kernel.rounds \in {2, 4}
  <2>1. kernel.rounds \in {2, 4}
    BY KernelAssumption DEF Kernel
  <2>. QED BY <2>1 DEF PerRow
<1>2. \A n \in Nat : IsFiniteSet(W(n)) /\ Cardinality(W(n)) \in Nat
  <2>. TAKE n \in Nat
  <2>1. IsFiniteSet(1 .. n) /\ W(n) \subseteq 1 .. n
    BY FS_Interval
  <2>. QED BY <2>1, FS_Subset, FS_CardinalityType
<1>3. W(0) = {}
  OBVIOUS
<1>4. Gates[0] = 0
  BY <1>1, <1>3, FS_EmptySet DEF Gates
<1>5. \A n \in Nat : Gates[n] = PerRow * Cardinality(W(n)) /\ Gates[n] \in Nat
  <2>. TAKE n \in Nat
  <2>1. Gates[n] = PerRow * Cardinality(W(n))
    BY DEF Gates
  <2>2. \A x, y \in Nat : x * y \in Nat
    OBVIOUS
  <2>. QED BY <1>1, <1>2, <2>1, <2>2
<1>6. ASSUME NEW n \in Nat
      PROVE  Gates[n + 1] = Gates[n] + (IF Trivial(rows[n + 1]) THEN 0 ELSE PerRow)
  <2>1. CASE Trivial(rows[n + 1])
    <3>1. W(n + 1) = W(n)
      BY <2>1
    <3>. HIDE DEF W
    <3>2. n + 1 \in Nat
      OBVIOUS
    <3>. QED BY <2>1, <3>1, <3>2, <1>5
  <2>2. CASE ~Trivial(rows[n + 1])
    <3>1. W(n + 1) = W(n) \cup {n + 1} /\ n + 1 \notin W(n)
      BY <2>2
    <3>2. Cardinality(W(n + 1)) = Cardinality(W(n)) + 1
      BY <3>1, <1>2, FS_AddElement
    <3>. HIDE DEF W
    <3>3. PerRow * (Cardinality(W(n)) + 1) = PerRow * Cardinality(W(n)) + PerRow
      BY <1>1, <1>2
    <3>4. n + 1 \in Nat
      OBVIOUS
    <3>. QED BY <2>2, <3>2, <3>3, <3>4, <1>5
  <2>. QED BY <2>1, <2>2
<1>7. ASSUME NEW n \in Nat, NEW m \in Nat, n <= m
      PROVE  Gates[n] <= Gates[m]
  <2>1. W(n) \subseteq W(m)
    BY <1>7
  <2>2. Cardinality(W(n)) <= Cardinality(W(m))
    BY <2>1, <1>2, FS_Subset
  <2>. HIDE DEF W
  <2>3. PerRow * Cardinality(W(n)) <= PerRow * Cardinality(W(m))
    BY <1>1, <1>2, <2>2
  <2>. QED BY <2>3, <1>5
<1>8. ASSUME NEW n \in Nat, NEW m \in Nat, n < m, ~Trivial(rows[n + 1])
      PROVE  Gates[n] + PerRow <= Gates[m]
  <2>1. n + 1 \in Nat /\ n + 1 <= m
    BY <1>8
  <2>. QED BY <1>6, <1>7, <1>8, <2>1
<1>. QED BY <1>1, <1>4, <1>5, <1>6, <1>7, <1>8

----------------------------------------------------------------------------
(* A step of CTA c leaves the places of the others as they are.              *)
Alone(c) ==
  /\ UNCHANGED <<kernel, rows>>
  /\ \A d \in CTA \ {c} : /\ pc'[d] = pc[d] /\ then'[d] = then[d] /\ it'[d] = it[d]
                          /\ rnd'[d] = rnd[d] /\ phase'[d] = phase[d]

LEMMA GatesKept == UNCHANGED <<kernel, rows>> => Gates' = Gates /\ PerRow' = PerRow
BY DEF Gates, PerRow

LEMMA PathKept ==
  ASSUME NEW d \in CTA, UNCHANGED <<kernel, rows>>,
         pc'[d] = pc[d], then'[d] = then[d], it'[d] = it[d], rnd'[d] = rnd[d], phase'[d] = phase[d]
  PROVE  (PathInv(d) => PathInv(d)') /\ Aim(d)' = Aim(d)
BY GatesKept DEF PathInv, Aim, Due, Stage, Row

(* What a step does to the place of its CTA, in a row or at a barrier.       *)
Seats == <<pc, then, it, rnd, phase>>
LEMMA Goes ==
  ASSUME ControlTypes, NEW c \in CTA, NEW p \in Spot, Goto(c, p)
  PROVE  pc' \in [CTA -> Spot] /\ pc'[c] = p /\ \A d \in CTA \ {c} : pc'[d] = pc[d]
BY DEF ControlTypes, Goto

LEMMA Meets ==
  ASSUME ControlTypes, NEW c \in CTA, NEW p \in Spot, Meet(c, p)
  PROVE  /\ pc' \in [CTA -> Spot] /\ then' \in [CTA -> Spot]
         /\ pc'[c] = "arrive" /\ then'[c] = p
         /\ \A d \in CTA \ {c} : pc'[d] = pc[d] /\ then'[d] = then[d]
<1>1. Goto(c, "arrive") /\ "arrive" \in Spot /\ then' = [then EXCEPT ![c] = p]
  BY DEF Meet, Spot
<1>. QED BY <1>1, Goes DEF ControlTypes

LEMMA Counts ==
  ASSUME NEW f \in [CTA -> Nat], NEW c \in CTA
  PROVE  /\ [f EXCEPT ![c] = @ + 1] \in [CTA -> Nat] /\ [f EXCEPT ![c] = @ + 1][c] = f[c] + 1
         /\ [f EXCEPT ![c] = 0] \in [CTA -> Nat] /\ [f EXCEPT ![c] = 0][c] = 0
         /\ \A d \in CTA \ {c} : [f EXCEPT ![c] = @ + 1][d] = f[d] /\ [f EXCEPT ![c] = 0][d] = f[d]
OBVIOUS

LEMMA Spots ==
  /\ "row" \in Spot /\ "zero" \in Spot /\ "fold" \in Spot /\ "clear" \in Spot /\ "read" \in Spot
  /\ "select" \in Spot /\ "publish" \in Spot /\ "claim" \in Spot /\ "emit" \in Spot /\ "eq" \in Spot
  /\ "place" \in Spot /\ "gather" \in Spot /\ "reset" \in Spot /\ "release" \in Spot
  /\ "done" \in Spot /\ "arrive" \in Spot /\ "wait" \in Spot
BY DEF Spot

LEMMA BarrierPath ==
  ASSUME ControlTypes, NEW c \in CTA, PathInv(c), Arrive(c) \/ Leave(c)
  PROVE  ControlTypes' /\ Alone(c) /\ PathInv(c)' /\ Aim(c)' = Aim(c)
<1>1. CASE Arrive(c)
  <2>1. /\ pc[c] = "arrive" /\ pc'[c] = "wait" /\ UNCHANGED <<kernel, rows, then, it, rnd, phase>>
        /\ \A d \in CTA \ {c} : pc'[d] = pc[d]
    BY <1>1 DEF Arrive, Goto, ControlTypes
  <2>2. ControlTypes'
    BY <1>1, Goes, Spots DEF Arrive, ControlTypes
  <2>. QED BY <2>1, <2>2, GatesKept DEF Alone, PathInv, Aim, Due, Stage, Row, InBarrier, OfRow, OfRound, AfterRounds, Ended
<1>2. CASE Leave(c)
  <2>1. /\ pc[c] = "wait" /\ pc'[c] = then[c] /\ phase'[c] = phase[c] + 1
        /\ UNCHANGED <<kernel, rows, then, it, rnd, arrival>>
        /\ \A d \in CTA \ {c} : pc'[d] = pc[d] /\ phase'[d] = phase[d]
        /\ then[c] \in Spot /\ phase[c] \in Nat
    BY <1>2 DEF Leave, Goto, ControlTypes, shared
  <2>2. ControlTypes'
    BY <1>2, <2>1, Goes, Counts DEF Leave, ControlTypes
  <2>3. then[c] \in {"zero", "fold", "read", "eq", "place", "gather"}
    BY <2>1 DEF PathInv, InBarrier
  <2>4. Aim(c)' = Aim(c) /\ Due(c)' = Due(c) /\ Stage(c)' = Stage(c)
    BY <2>1, <2>3 DEF Aim, Due, Stage, InBarrier
  <2>. QED BY <2>1, <2>2, <2>3, <2>4, GatesKept DEF Alone, PathInv, Aim, Row, InBarrier, Ended
<1>. QED BY <1>1, <1>2

(* The head of the row loop: a row passed by has no barriers.                *)
LEMMA RowPath ==
  ASSUME ControlTypes, NEW c \in CTA, PathInv(c), NextRow(c)
  PROVE  ControlTypes' /\ Alone(c) /\ PathInv(c)'
<1>1. /\ pc[c] = "row" /\ it[c] < Len(rows) /\ UNCHANGED <<kernel, rows, rnd, phase, arrival>>
      /\ it[c] \in Nat /\ rnd[c] = 0 /\ Len(rows) \in Nat /\ phase[c] = Gates[it[c]]
      /\ phase[c] \in Nat /\ kernel \in Kernel
  <2>1. /\ pc[c] = "row" /\ it[c] < Len(rows) /\ UNCHANGED <<kernel, rows, rnd, phase, arrival>>
    BY DEF NextRow, Takes
  <2>2. it[c] \in Nat /\ phase[c] \in Nat /\ kernel \in Kernel /\ Len(rows) \in Nat
    BY DEF ControlTypes
  <2>3. Gates[it[c]] \in Nat
    BY <2>2, GateFacts
  <2>4. Aim(c) = "row" /\ Due(c) = phase[c] /\ Stage(c) = 0
    BY <2>1, <2>2 DEF Aim, Due, Stage, InBarrier
  <2>. QED BY <2>1, <2>2, <2>3, <2>4 DEF PathInv, OfRound
<1>2. CASE Trivial(Row(c))
  <2>1. UNCHANGED <<pc, then>> /\ it' = [it EXCEPT ![c] = @ + 1]
    BY <1>2 DEF NextRow, Takes
  <2>2. ControlTypes' /\ it'[c] = it[c] + 1 /\ \A d \in CTA \ {c} : it'[d] = it[d]
    BY <1>1, <2>1, Counts DEF ControlTypes
  <2>3. Gates[it[c] + 1] = Gates[it[c]]
    BY <1>1, <1>2, GateFacts DEF Row
  <2>. QED BY <1>1, <2>1, <2>2, <2>3, GatesKept
           DEF Alone, PathInv, Aim, Due, Stage, InBarrier, OfRound, OfRow, AfterRounds, Ended
<1>3. CASE ~Trivial(Row(c))
  <2>. DEFINE p == IF c = 0 THEN "zero" ELSE "fold"
  <2>1. Meet(c, p) /\ UNCHANGED it
    BY <1>3 DEF NextRow, Takes
  <2>2. /\ ControlTypes' /\ pc'[c] = "arrive" /\ then'[c] = p
        /\ \A d \in CTA \ {c} : pc'[d] = pc[d] /\ then'[d] = then[d]
    <3>1. p \in Spot
      BY Spots
    <3>. HIDE DEF p
    <3>. QED BY <1>1, <2>1, <3>1, Meets DEF ControlTypes
  <2>. QED BY <1>1, <1>3, <2>1, <2>2, GatesKept
           DEF Alone, PathInv, Aim, Due, Stage, Row, InBarrier, OfRound, OfRow, AfterRounds, Ended
<1>. QED BY <1>2, <1>3

(* The rounds of a row.                                                      *)
LEMMA RoundPath ==
  ASSUME ControlTypes, NEW c \in CTA, PathInv(c),
         (c = 0 /\ (ZeroOutput \/ ClearNext)) \/ Fold(c) \/ Read(c) \/ Select(c)
  PROVE  ControlTypes' /\ Alone(c) /\ PathInv(c)'
<1>. /\ kernel \in Kernel /\ kernel.rounds \in {2, 4} /\ rnd[c] \in Nat /\ phase[c] \in Nat
     /\ it[c] \in Nat
  BY KernelAssumption DEF ControlTypes, Kernel
<1>. Gates[it[c]] \in Nat
  BY GateFacts
<1>1. CASE c = 0 /\ ZeroOutput
  <2>1. /\ pc[c] = "zero" /\ Goto(c, "fold") /\ UNCHANGED <<kernel, rows, then, it, rnd, phase, arrival>>
    BY <1>1 DEF ZeroOutput
  <2>2. /\ ControlTypes' /\ pc'[c] = "fold" /\ \A d \in CTA \ {c} : pc'[d] = pc[d]
    BY <2>1, Goes, Spots DEF ControlTypes
  <2>. QED BY <2>1, <2>2, GatesKept
           DEF Alone, PathInv, Aim, Due, Stage, Row, InBarrier, OfRound, OfRow, AfterRounds, Ended
<1>2. CASE c = 0 /\ ClearNext
  <2>1. /\ pc[c] = "clear" /\ Meet(c, "read") /\ UNCHANGED <<kernel, rows, it, rnd, phase, arrival>>
    BY <1>2 DEF ClearNext
  <2>2. /\ ControlTypes' /\ pc'[c] = "arrive" /\ then'[c] = "read"
        /\ \A d \in CTA \ {c} : pc'[d] = pc[d] /\ then'[d] = then[d]
    BY <2>1, Meets, Goes, Spots DEF ControlTypes
  <2>3. /\ Aim(c)' = "read" /\ Stage(c)' = rnd[c] + 2 /\ Due(c)' = phase[c] + 1
        /\ Aim(c) = "clear" /\ Stage(c) = rnd[c] + 1 /\ Due(c) = phase[c]
    BY <2>1, <2>2 DEF Aim, Due, Stage, InBarrier
  <2>4. Due(c)' = Gates'[it'[c]] + Stage(c)'
    BY SMTT(30), <2>1, <2>3, GatesKept DEF PathInv
  <2>5. PathInv(c)'
    BY <2>1, <2>2, <2>3, <2>4 DEF PathInv, Row, InBarrier, OfRound, OfRow, Ended
  <2>. QED BY <2>1, <2>2, <2>5 DEF Alone
<1>3. CASE Fold(c)
  <2>1. /\ pc[c] = "fold" /\ UNCHANGED <<kernel, rows, it, rnd, phase, arrival>>
        /\ IF c = 0 THEN Goto(c, "clear") /\ UNCHANGED then ELSE Meet(c, "read")
    BY <1>3 DEF Fold
  <2>2. /\ ControlTypes' /\ \A d \in CTA \ {c} : pc'[d] = pc[d] /\ then'[d] = then[d]
        /\ IF c = 0 THEN pc'[c] = "clear" ELSE pc'[c] = "arrive" /\ then'[c] = "read"
    BY <2>1, Meets, Goes, Spots DEF ControlTypes
  <2>3. /\ Aim(c) = "fold" /\ Stage(c) = rnd[c] + 1 /\ Due(c) = phase[c]
        /\ c = 0 => Aim(c)' = "clear" /\ Stage(c)' = rnd[c] + 1 /\ Due(c)' = phase[c]
        /\ c # 0 => Aim(c)' = "read" /\ Stage(c)' = rnd[c] + 2 /\ Due(c)' = phase[c] + 1
    BY <2>1, <2>2 DEF Aim, Due, Stage, InBarrier
  <2>4. pc'[c] \in InBarrier => then'[c] = "read"
    BY <2>2 DEF InBarrier
  <2>5. Due(c)' = Gates'[it'[c]] + Stage(c)'
    <3>1. phase[c] = Gates[it[c]] + (rnd[c] + 1) /\ Gates'[it'[c]] = Gates[it[c]]
      BY <2>1, <2>3, GatesKept DEF PathInv
    <3>2. CASE c = 0
      BY <3>1, <3>2, <2>3
    <3>3. CASE c # 0
      BY <3>1, <3>3, <2>3
    <3>. QED BY <3>2, <3>3
  <2>6. PathInv(c)'
    <3>1. /\ it'[c] = it[c] /\ rnd'[c] = rnd[c] /\ UNCHANGED <<kernel, rows>>
          /\ it[c] < Len(rows) /\ ~Trivial(Row(c)) /\ rnd[c] < kernel.rounds
      BY <2>1, <2>3 DEF PathInv, OfRow
    <3>2. /\ Aim(c)' \in {"clear", "read"} /\ pc'[c] \notin Ended /\ (Aim(c)' = "clear" => c = 0)
      BY <2>2, <2>3 DEF Ended
    <3>. QED BY <2>4, <2>5, <3>1, <3>2 DEF PathInv, Row, InBarrier, OfRound
  <2>. QED BY <2>1, <2>2, <2>6 DEF Alone
<1>4. CASE Read(c)
  <2>1. /\ pc[c] = "read" /\ Goto(c, "select") /\ UNCHANGED <<kernel, rows, then, it, rnd, phase, arrival>>
    BY <1>4 DEF Read, shared
  <2>2. /\ ControlTypes' /\ pc'[c] = "select" /\ \A d \in CTA \ {c} : pc'[d] = pc[d]
    BY <2>1, Goes, Spots DEF ControlTypes
  <2>. QED BY <2>1, <2>2, GatesKept
           DEF Alone, PathInv, Aim, Due, Stage, Row, InBarrier, OfRound, OfRow, AfterRounds, Ended
<1>5. CASE Select(c)
  <2>. DEFINE p == IF rnd[c] + 1 < kernel.rounds THEN "fold" ELSE IF kernel.det THEN "publish" ELSE "claim"
  <2>1. /\ pc[c] = "select" /\ UNCHANGED <<kernel, rows, then, it, phase, arrival>> /\ Goto(c, p)
        /\ rnd' = [rnd EXCEPT ![c] = IF rnd[c] + 1 < kernel.rounds THEN @ + 1 ELSE 0]
    BY <1>5 DEF Select, shared
  <2>2. p \in Spot
    BY Spots
  <2>3. pc' \in [CTA -> Spot] /\ pc'[c] = p /\ \A d \in CTA \ {c} : pc'[d] = pc[d]
    <3>. HIDE DEF p
    <3>. QED BY <2>1, <2>2, Goes
  <2>4. /\ rnd' \in [CTA -> Nat] /\ \A d \in CTA \ {c} : rnd'[d] = rnd[d]
        /\ rnd'[c] = IF rnd[c] + 1 < kernel.rounds THEN rnd[c] + 1 ELSE 0
    BY <2>1 DEF ControlTypes
  <2>5. ControlTypes'
    BY <2>1, <2>3, <2>4 DEF ControlTypes
  <2>6. /\ Aim(c) = "select" /\ Stage(c) = rnd[c] + 2 /\ Due(c) = phase[c]
        /\ Aim(c)' = p /\ Due(c)' = phase[c]
    BY <2>1, <2>3 DEF Aim, Due, Stage, InBarrier
  <2>7. Stage(c)' = rnd[c] + 2
    <3>1. rnd[c] + 1 < kernel.rounds \/ rnd[c] + 1 = kernel.rounds
      BY DEF PathInv
    <3>. QED BY <2>1, <2>4, <2>6, <3>1 DEF Stage
  <2>8. Due(c)' = Gates'[it'[c]] + Stage(c)'
    BY <2>1, <2>6, <2>7, GatesKept DEF PathInv
  <2>9. PathInv(c)'
    BY <2>1, <2>3, <2>4, <2>6, <2>8 DEF PathInv, Row, InBarrier, OfRound, OfRow, Ended
  <2>. QED BY <2>1, <2>3, <2>4, <2>5, <2>9 DEF Alone
<1>. QED BY <1>1, <1>2, <1>3, <1>4, <1>5

(* After the rounds: the collect, and the way to the next row.               *)
LEMMA WorkedRow ==
  ASSUME ControlTypes, NEW c \in CTA, PathInv(c), Aim(c) \in OfRow
  PROVE  /\ kernel \in Kernel /\ kernel.rounds \in {2, 4} /\ PerRow \in Nat
         /\ it[c] \in Nat /\ phase[c] \in Nat /\ Gates[it[c]] \in Nat /\ it[c] < Len(rows)
         /\ Gates[it[c] + 1] = Gates[it[c]] + PerRow /\ Len(rows) \in Nat
<1>1. kernel \in Kernel /\ it[c] \in Nat /\ phase[c] \in Nat /\ Len(rows) \in Nat
  BY DEF ControlTypes
<1>2. it[c] < Len(rows) /\ ~Trivial(rows[it[c] + 1])
  BY DEF PathInv, Row
<1>3. kernel.rounds \in {2, 4}
  BY <1>1, KernelAssumption DEF Kernel
<1>. QED BY <1>1, <1>2, <1>3, GateFacts

LEMMA NextRowPath ==
  ASSUME ControlTypes, NEW c \in CTA, PathInv(c), UNCHANGED <<kernel, rows, then, rnd, phase, arrival>>,
         Goto(c, "row"), it' = [it EXCEPT ![c] = @ + 1],
         pc[c] \in {"eq", "place", "gather"}, Stage(c) = PerRow
  PROVE  ControlTypes' /\ Alone(c) /\ PathInv(c)'
<1>1. /\ pc' \in [CTA -> Spot] /\ pc'[c] = "row" /\ \A d \in CTA \ {c} : pc'[d] = pc[d]
      /\ it' \in [CTA -> Nat] /\ it'[c] = it[c] + 1 /\ \A d \in CTA \ {c} : it'[d] = it[d]
  BY Goes, Spots, Counts DEF ControlTypes
<1>2. Aim(c) = pc[c] /\ Due(c) = phase[c] /\ Aim(c)' = "row" /\ Due(c)' = phase[c] /\ Stage(c)' = 0
  <2>1. phase[c] \in Nat
    BY DEF ControlTypes
  <2>. QED BY <1>1, <2>1 DEF Aim, Due, Stage, InBarrier
<1>3. it[c] < Len(rows) /\ rnd[c] = 0 /\ Gates[it[c] + 1] = Gates[it[c]] + PerRow
  BY <1>2, WorkedRow DEF PathInv, OfRow, OfRound
<1>4. Due(c)' = Gates'[it'[c]] + Stage(c)'
  <2>1. phase[c] = Gates[it[c]] + PerRow /\ Gates[it[c]] \in Nat /\ PerRow \in Nat
    BY <1>2, WorkedRow DEF PathInv, OfRow
  <2>. QED BY <1>1, <1>2, <1>3, <2>1, GatesKept
<1>5. PathInv(c)'
  <2>1. rnd[c] < kernel.rounds /\ it[c] + 1 <= Len(rows)
    BY <1>2, <1>3, WorkedRow DEF PathInv, OfRow
  <2>. QED BY <1>1, <1>2, <1>3, <1>4, <2>1 DEF PathInv, InBarrier, OfRow, OfRound, Ended
<1>. QED BY <1>1, <1>5 DEF ControlTypes, Alone

LEMMA MeetPath ==
  ASSUME ControlTypes, NEW c \in CTA, NEW p \in {"eq", "place", "gather"}, PathInv(c),
         UNCHANGED <<kernel, rows, it, rnd, phase, arrival>>, Meet(c, p),
         pc[c] \in AfterRounds,
         Stage(c) = kernel.rounds + (IF p = "gather" THEN 2 ELSE 1),
         p = "gather" => kernel.paged, p = "place" => kernel.det, p = "eq" => ~kernel.det
  PROVE  ControlTypes' /\ Alone(c) /\ PathInv(c)'
<1>1. /\ pc' \in [CTA -> Spot] /\ then' \in [CTA -> Spot] /\ pc'[c] = "arrive" /\ then'[c] = p
      /\ \A d \in CTA \ {c} : pc'[d] = pc[d] /\ then'[d] = then[d]
  <2>1. p \in Spot
    BY Spots
  <2>. QED BY <2>1, Meets
<1>2. Aim(c) = pc[c] /\ Due(c) = phase[c] /\ Aim(c)' = p /\ Due(c)' = phase[c] + 1
  <2>1. phase[c] \in Nat
    BY DEF ControlTypes
  <2>. QED BY <1>1, <2>1 DEF Aim, Due, InBarrier, AfterRounds
<1>3. Stage(c)' = Stage(c) + 1
  <2>1. kernel.rounds \in {2, 4}
    BY <1>2, WorkedRow DEF OfRow, AfterRounds
  <2>. QED BY <1>2, <2>1 DEF Stage
<1>4. Due(c)' = Gates'[it'[c]] + Stage(c)'
  <2>1. phase[c] = Gates[it[c]] + Stage(c) /\ Gates[it[c]] \in Nat /\ kernel.rounds \in {2, 4}
    BY <1>2, WorkedRow DEF PathInv, OfRow, AfterRounds
  <2>2. Stage(c) \in Nat
    BY <2>1
  <2>. QED BY <1>2, <1>3, <2>1, <2>2, GatesKept
<1>5. PathInv(c)'
  <2>1. it[c] < Len(rows) /\ ~Trivial(Row(c)) /\ rnd[c] = 0 /\ rnd[c] < kernel.rounds
    BY <1>2, WorkedRow DEF PathInv, OfRow, AfterRounds, OfRound
  <2>2. it'[c] = it[c] /\ rnd'[c] = rnd[c] /\ Row(c)' = Row(c) /\ it[c] <= Len(rows)
    BY DEF Row, PathInv
  <2>. QED BY <1>1, <1>2, <1>4, <2>1, <2>2 DEF PathInv, InBarrier, OfRow, OfRound, Ended
<1>. QED BY <1>1, <1>5 DEF ControlTypes, Alone

LEMMA RowDonePath ==
  ASSUME ControlTypes, NEW c \in CTA, PathInv(c), UNCHANGED <<kernel, rows, rnd, phase, arrival>>,
         RowDone(c), pc[c] \in {"eq", "place"}
  PROVE  ControlTypes' /\ Alone(c) /\ PathInv(c)'
<1>1. Aim(c) = pc[c] /\ Stage(c) = kernel.rounds + 2
  BY DEF Aim, Stage, InBarrier
<1>2. CASE kernel.paged
  BY <1>1, <1>2, MeetPath DEF RowDone, AfterRounds
<1>3. CASE ~kernel.paged
  <2>1. Stage(c) = PerRow
    <3>1. kernel.rounds \in {2, 4}
      BY <1>1, WorkedRow DEF OfRow
    <3>. QED BY <1>1, <1>3, <3>1 DEF PerRow
  <2>. QED BY <1>3, <2>1, NextRowPath DEF RowDone
<1>. QED BY <1>2, <1>3

LEMMA CollectPath ==
  ASSUME ControlTypes, NEW c \in CTA, PathInv(c),
         Claim(c) \/ Emit(c) \/ CollectEq(c) \/ Publish(c) \/ Place(c) \/ Gather(c)
  PROVE  ControlTypes' /\ Alone(c) /\ PathInv(c)'
<1>1. CASE Claim(c)
  <2>1. pc[c] = "claim" /\ Goto(c, "emit") /\ UNCHANGED <<kernel, rows, then, it, rnd, phase, arrival>>
    BY <1>1 DEF Claim
  <2>2. ControlTypes' /\ pc'[c] = "emit" /\ \A d \in CTA \ {c} : pc'[d] = pc[d]
    BY <2>1, Goes, Spots DEF ControlTypes
  <2>3. /\ Aim(c) = "claim" /\ Aim(c)' = "emit" /\ Due(c)' = Due(c) /\ Stage(c)' = Stage(c)
    BY <2>1, <2>2 DEF Aim, Due, Stage, InBarrier
  <2>. QED BY <2>1, <2>2, <2>3, GatesKept DEF Alone, PathInv, Row, InBarrier, OfRow, OfRound, Ended
<1>2. CASE Emit(c)
  <2>1. pc[c] = "emit" /\ Meet(c, "eq") /\ UNCHANGED <<kernel, rows, it, rnd, phase, arrival>>
    BY <1>2 DEF Emit, Emits
  <2>2. Stage(c) = kernel.rounds + 1 /\ ~kernel.det
    BY <2>1 DEF Stage, Aim, InBarrier, PathInv
  <2>. QED BY <2>1, <2>2, MeetPath DEF AfterRounds
<1>3. CASE CollectEq(c)
  <2>1. pc[c] = "eq" /\ UNCHANGED <<kernel, rows, rnd, phase, arrival>>
    BY <1>3 DEF CollectEq
  <2>2. CASE left[c] = {}
    BY <1>3, <2>1, <2>2, RowDonePath DEF CollectEq
  <2>3. CASE left[c] # {}
    <3>1. UNCHANGED <<pc, then, it>>
      BY <1>3, <2>3 DEF CollectEq
    <3>2. ControlTypes' /\ Alone(c)
      BY <2>1, <3>1 DEF ControlTypes, Alone
    <3>. QED BY <2>1, <3>1, <3>2, PathKept
  <2>. QED BY <2>2, <2>3
<1>4. CASE Publish(c)
  <2>1. pc[c] = "publish" /\ Meet(c, "place") /\ UNCHANGED <<kernel, rows, it, rnd, phase, arrival>>
    BY <1>4 DEF Publish
  <2>2. Stage(c) = kernel.rounds + 1 /\ kernel.det
    BY <2>1 DEF Stage, Aim, InBarrier, PathInv
  <2>. QED BY <2>1, <2>2, MeetPath DEF AfterRounds
<1>5. CASE Place(c)
  BY <1>5, RowDonePath DEF Place
<1>6. CASE Gather(c)
  <2>1. /\ pc[c] = "gather" /\ Goto(c, "row") /\ it' = [it EXCEPT ![c] = @ + 1]
        /\ UNCHANGED <<kernel, rows, then, rnd, phase, arrival>>
    BY <1>6 DEF Gather
  <2>2. Stage(c) = PerRow
    <3>1. Aim(c) = "gather" /\ kernel.paged /\ kernel.rounds \in {2, 4}
      BY <2>1, WorkedRow DEF Aim, InBarrier, PathInv, OfRow
    <3>. QED BY <3>1 DEF Stage, PerRow
  <2>. QED BY <2>1, <2>2, NextRowPath
<1>. QED BY <1>1, <1>2, <1>3, <1>4, <1>5, <1>6

(* The way out of a launch.                                                  *)
LEMMA ExitPath ==
  ASSUME ControlTypes, NEW c \in CTA, PathInv(c), Exit(c) \/ Reset(c) \/ Release(c)
  PROVE  ControlTypes' /\ Alone(c) /\ PathInv(c)'
<1>1. /\ pc[c] \in {"row", "reset", "release"} /\ it[c] = Len(rows)
      /\ UNCHANGED <<kernel, rows, then, it, rnd, phase>>
  BY DEF Exit, Reset, Release, PathInv, Ended
<1>2. /\ pc' \in [CTA -> Spot] /\ pc'[c] \in Ended /\ \A d \in CTA \ {c} : pc'[d] = pc[d]
  <2>1. PICK p \in Ended : Goto(c, p)
    BY DEF Exit, Reset, Release, Ended
  <2>2. p \in Spot
    BY Spots DEF Ended
  <2>. QED BY <2>1, <2>2, Goes
<1>3. arrival' \in Nat
  BY DEF Exit, Reset, Release, ControlTypes
<1>4. /\ Aim(c) = pc[c] /\ Aim(c)' = pc'[c] /\ Due(c)' = Due(c) /\ Stage(c)' = Stage(c)
  BY <1>1, <1>2 DEF Aim, Due, Stage, InBarrier, Ended
<1>5. rnd[c] = 0
  BY <1>1, <1>4 DEF PathInv, OfRound
<1>. QED BY <1>1, <1>2, <1>3, <1>4, <1>5, GatesKept
         DEF ControlTypes, Alone, PathInv, Row, InBarrier, OfRow, OfRound, Ended

LEMMA StepPath ==
  ASSUME ControlTypes, \A d \in CTA : PathInv(d), NEW c \in CTA, CtaStep(c)
  PROVE  ControlTypes' /\ Alone(c) /\ \A d \in CTA : PathInv(d)'
<1>1. ControlTypes' /\ Alone(c) /\ PathInv(c)'
  BY BarrierPath, RowPath, RoundPath, CollectPath, ExitPath DEF CtaStep
<1>. QED BY <1>1, PathKept DEF Alone

----------------------------------------------------------------------------
(* The barriers of a launch: no CTA has more of them behind it than its rows *)
(* have, and the one that is through has them all.                          *)
LEMMA DueBound ==
  ASSUME ControlTypes, NEW c \in CTA, PathInv(c)
  PROVE  /\ Due(c) \in Nat /\ Gates[Len(rows)] \in Nat /\ Due(c) <= Gates[Len(rows)]
         /\ Aim(c) = "row" /\ it[c] = Len(rows) => phase[c] = Gates[Len(rows)]
         /\ pc[c] \in Ended => phase[c] = Gates[Len(rows)]
<1>1. /\ kernel \in Kernel /\ it[c] \in Nat /\ phase[c] \in Nat /\ rnd[c] \in Nat /\ Len(rows) \in Nat
      /\ it[c] <= Len(rows) /\ rnd[c] < kernel.rounds /\ Aim(c) \in Spot
  BY DEF ControlTypes, PathInv, Aim
<1>2. kernel.rounds \in {2, 4}
  BY <1>1, KernelAssumption DEF Kernel
<1>3. Due(c) = phase[c] \/ Due(c) = phase[c] + 1
  BY <1>1 DEF Due
<1>4. Due(c) = Gates[it[c]] + Stage(c) /\ Gates[it[c]] \in Nat /\ Gates[Len(rows)] \in Nat
  BY <1>1, GateFacts DEF PathInv
<1>5. CASE Aim(c) \in OfRow
  <2>1. it[c] < Len(rows) /\ ~Trivial(rows[it[c] + 1])
    BY <1>5 DEF PathInv, Row
  <2>2. Gates[it[c]] + PerRow <= Gates[Len(rows)] /\ PerRow \in Nat
    BY <1>1, <2>1, GateFacts
  <2>3. Stage(c) \in Nat /\ Stage(c) <= PerRow
    BY SMTT(30), <1>1, <1>2, <1>5 DEF Stage, PerRow, OfRow, PathInv
  <2>4. Aim(c) # "row" /\ pc[c] \notin Ended
    BY <1>5 DEF OfRow, Aim, Ended, InBarrier
  <2>. QED BY SMTT(30), <1>1, <1>3, <1>4, <2>2, <2>3, <2>4
<1>6. CASE Aim(c) \notin OfRow
  <2>1. Stage(c) = 0
    BY <1>6 DEF Stage, OfRow
  <2>2. Gates[it[c]] <= Gates[Len(rows)]
    BY <1>1, GateFacts
  <2>3. pc[c] \notin InBarrier /\ Due(c) = phase[c]
    BY <1>1, <1>6 DEF PathInv, Aim, OfRow, Due
  <2>. QED BY <1>1, <1>4, <2>1, <2>2, <2>3 DEF PathInv
<1>. QED BY <1>5, <1>6

LEMMA ArrivalFacts ==
  ASSUME ControlTypes
  PROVE  /\ Arrivals \in [CTA -> Nat]
         /\ \A c \in CTA : /\ phase[c] \in Nat
                           /\ pc[c] \in {"wait", "reset", "release", "done"} => Arrivals[c] = phase[c] + 1
                           /\ pc[c] \notin {"wait", "reset", "release", "done"} => Arrivals[c] = phase[c]
                           /\ pc[c] \notin Ended => Arrivals[c] <= Due(c)
BY DEF ControlTypes, Arrivals, Due, Ended, InBarrier

(* A CTA is through exactly if it has arrived once more than there are       *)
(* barriers.                                                                *)
LEMMA EndedArrived ==
  ASSUME ControlTypes, NEW c \in CTA, PathInv(c)
  PROVE  pc[c] \in Ended <=> Arrivals[c] = Gates[Len(rows)] + 1
BY DueBound, ArrivalFacts DEF Ended

LEMMA ArriveCount ==
  ASSUME ControlTypes, CountInv, NEW c \in CTA, PathInv(c), Arrive(c)
  PROVE  CountInv'
<1>1. /\ pc[c] = "arrive" /\ pc'[c] = "wait" /\ arrival' = arrival + 1 /\ UNCHANGED phase
      /\ \A d \in CTA \ {c} : pc'[d] = pc[d]
  BY BarrierPath DEF Arrive, Goto, ControlTypes, Alone
<1>2. Arrivals' = [Arrivals EXCEPT ![c] = @ + 1]
  BY <1>1, ArrivalFacts DEF Arrivals, ControlTypes
<1>3. Arrivals \in [CTA -> Nat] /\ Arrivals[c] = phase[c] /\ arrival \in Nat /\ phase \in [CTA -> Nat]
  BY <1>1, ArrivalFacts DEF ControlTypes
<1>4. ~AllDone /\ ~AllDone'
  BY <1>1 DEF AllDone
<1>5. PICK m \in Nat : Counted(Arrivals, arrival, m)
  BY <1>4 DEF CountInv
<1>6. \A d \in CTA : Arrivals[c] <= Arrivals[d]
  BY <1>3 DEF CountInv
<1>7. \E k \in Nat : Counted(Arrivals', arrival', k)
  BY <1>1, <1>2, <1>3, <1>5, <1>6, CountArrival
<1>8. \A d, e \in CTA : phase'[d] <= Arrivals'[e]
  BY <1>1, <1>2, <1>3 DEF CountInv
<1>. QED BY <1>1, <1>4, <1>7, <1>8 DEF CountInv

LEMMA LeaveCount ==
  ASSUME ControlTypes, CountInv, NEW c \in CTA, PathInv(c), Leave(c)
  PROVE  CountInv' /\ Arrivals' = Arrivals /\ \A d \in CTA : phase[c] + 1 <= Arrivals[d]
<1>1. /\ pc[c] = "wait" /\ pc'[c] = then[c] /\ UNCHANGED arrival /\ arrival >= (phase[c] + 1) * CTAS
      /\ phase'[c] = phase[c] + 1 /\ \A d \in CTA \ {c} : pc'[d] = pc[d] /\ phase'[d] = phase[d]
  BY DEF Leave, Goto, ControlTypes, shared, Target
<1>2. then[c] \in {"zero", "fold", "read", "eq", "place", "gather"}
  BY <1>1 DEF PathInv, InBarrier
<1>3. Arrivals' = Arrivals
  <2>1. \A d \in CTA : phase[d] \in Nat
    BY DEF ControlTypes
  <2>. QED BY <1>1, <1>2, <2>1 DEF Arrivals
<1>4. Arrivals \in [CTA -> Nat] /\ Arrivals[c] = phase[c] + 1 /\ arrival \in Nat /\ phase \in [CTA -> Nat]
  BY <1>1, ArrivalFacts DEF ControlTypes
<1>5. ~AllDone /\ ~AllDone'
  BY <1>1, <1>2 DEF AllDone
<1>6. PICK m \in Nat : Counted(Arrivals, arrival, m)
  BY <1>5 DEF CountInv
<1>7. \A d \in CTA : Arrivals[c] <= Arrivals[d]
  BY <1>1, <1>4, <1>6, CountReached
<1>8. \A d, e \in CTA : phase'[d] <= Arrivals'[e]
  BY <1>1, <1>3, <1>4, <1>7 DEF CountInv
<1>. QED BY <1>1, <1>2, <1>3, <1>4, <1>5, <1>7, <1>8 DEF CountInv

(* Between barriers a step moves no count.                                   *)
LEMMA WorkCount ==
  ASSUME ControlTypes, CountInv, NEW c \in CTA,
         UNCHANGED <<phase, arrival>>, \A d \in CTA \ {c} : pc'[d] = pc[d],
         pc[c] \notin {"wait", "reset", "release", "done"},
         pc'[c] \notin {"wait", "reset", "release", "done"}
  PROVE  CountInv' /\ Arrivals' = Arrivals
<1>1. Arrivals' = Arrivals
  BY DEF Arrivals
<1>2. ~AllDone /\ ~AllDone'
  BY DEF AllDone
<1>. QED BY <1>1, <1>2 DEF CountInv

LEMMA ExitCount ==
  ASSUME ControlTypes, \A d \in CTA : PathInv(d), CountInv, NEW c \in CTA, Exit(c)
  PROVE  CountInv' /\ ~AllDone'
<1>1. /\ pc[c] = "row" /\ it[c] = Len(rows) /\ arrival' = arrival + 1 /\ UNCHANGED <<phase, rows, kernel>>
      /\ pc'[c] = IF arrival + 1 = (phase[c] + 1) * CTAS THEN "reset" ELSE "done"
      /\ \A d \in CTA \ {c} : pc'[d] = pc[d]
  BY DEF Exit, Goto, ControlTypes, Target
<1>2. Arrivals' = [Arrivals EXCEPT ![c] = @ + 1]
  BY <1>1, ArrivalFacts DEF Arrivals, ControlTypes
<1>3. Arrivals \in [CTA -> Nat] /\ Arrivals[c] = phase[c] /\ arrival \in Nat /\ phase \in [CTA -> Nat]
  BY <1>1, ArrivalFacts DEF ControlTypes
<1>4. ~AllDone
  BY <1>1 DEF AllDone
<1>5. PICK m \in Nat : Counted(Arrivals, arrival, m)
  BY <1>4 DEF CountInv
<1>6. \A d \in CTA : Arrivals[c] <= Arrivals[d]
  BY <1>3 DEF CountInv
<1>7. \E k \in Nat : Counted(Arrivals', arrival', k)
  BY <1>1, <1>2, <1>3, <1>5, <1>6, CountArrival
<1>8. \A d, e \in CTA : phase'[d] <= Arrivals'[e]
  BY <1>1, <1>2, <1>3 DEF CountInv
<1>9. phase[c] = Gates[Len(rows)]
  BY <1>1, DueBound DEF Aim, InBarrier
<1>10. arrival + 1 = (phase[c] + 1) * CTAS <=> \A d \in CTA \ {c} : pc[d] \in Ended
  <2>1. arrival + 1 = (phase[c] + 1) * CTAS <=> \A d \in CTA \ {c} : Arrivals[d] = Arrivals[c] + 1
    BY <1>3, <1>5, <1>6, CountLast
  <2>. QED BY <1>3, <1>9, <2>1, EndedArrived
<1>11. \A d \in CTA \ {c} : pc[d] \notin {"reset", "release"}
  BY <1>1 DEF CountInv
<1>12. \A d, e \in CTA : pc'[d] \in {"reset", "release"} /\ d # e => pc'[e] = "done"
  BY <1>1, <1>10, <1>11 DEF Ended
<1>13. ~AllDone'
  BY <1>1, <1>10 DEF AllDone, Ended
<1>. QED BY <1>7, <1>8, <1>12, <1>13 DEF CountInv

LEMMA LastCount ==
  ASSUME ControlTypes, CountInv, NEW c \in CTA, Reset(c) \/ Release(c)
  PROVE  CountInv' /\ Arrivals' = Arrivals /\ \A d \in CTA \ {c} : pc[d] = "done" /\ pc'[d] = "done"
<1>1. /\ pc[c] \in {"reset", "release"} /\ pc'[c] = (IF pc[c] = "reset" THEN "release" ELSE "done")
      /\ arrival' = (IF pc[c] = "reset" THEN arrival ELSE 0) /\ UNCHANGED phase
      /\ \A d \in CTA \ {c} : pc'[d] = pc[d]
  BY DEF Reset, Release, Goto, ControlTypes
<1>2. Arrivals' = Arrivals
  BY <1>1 DEF Arrivals
<1>3. \A d \in CTA \ {c} : pc[d] = "done" /\ pc'[d] = "done"
  BY <1>1 DEF CountInv
<1>4. ~AllDone /\ (AllDone' <=> pc[c] = "release")
  BY <1>1, <1>3 DEF AllDone
<1>. QED BY <1>1, <1>2, <1>3, <1>4 DEF CountInv

LEMMA WorkGoesOn ==
  ASSUME ControlTypes, NEW c \in CTA,
         \/ NextRow(c) \/ Fold(c) \/ Read(c) \/ Select(c) \/ Claim(c) \/ Emit(c) \/ CollectEq(c)
         \/ Publish(c) \/ Place(c) \/ Gather(c) \/ (c = 0 /\ (ZeroOutput \/ ClearNext))
  PROVE  /\ UNCHANGED <<phase, arrival>>
         /\ pc[c] \notin {"wait", "reset", "release", "done"}
         /\ pc'[c] \notin {"wait", "reset", "release", "done"}
<1>2. UNCHANGED <<phase, arrival>>
  BY DEF NextRow, Takes, Fold, Read, Select, Claim, Emit, Emits, CollectEq, Publish, Place, Gather,
              ZeroOutput, ClearNext, shared
<1>3. pc[c] \notin {"wait", "reset", "release", "done"}
  BY DEF NextRow, Takes, Fold, Read, Select, Claim, Emit, Emits, CollectEq, Publish, Place, Gather,
              ZeroOutput, ClearNext
<1>4. UNCHANGED pc \/ \E p \in {"arrive", "row", "fold", "clear", "select", "publish", "claim", "emit"} : Goto(c, p)
  <2>1. CASE NextRow(c) \/ Fold(c) \/ Read(c) \/ (c = 0 /\ (ZeroOutput \/ ClearNext))
    BY <2>1 DEF NextRow, Takes, Fold, Read, ZeroOutput, ClearNext, Meet
  <2>2. CASE Select(c)
    <3>1. Goto(c, "fold") \/ Goto(c, "publish") \/ Goto(c, "claim")
      BY <2>2 DEF Select
    <3>. QED BY <3>1
  <2>3. CASE Claim(c) \/ Emit(c) \/ Publish(c)
    BY <2>3 DEF Claim, Emit, Emits, Publish, Meet
  <2>4. CASE CollectEq(c) \/ Place(c) \/ Gather(c)
    <3>1. RowDone(c) \/ UNCHANGED pc \/ Goto(c, "row")
      <4>1. CASE CollectEq(c)
        BY <4>1 DEF CollectEq
      <4>2. CASE Place(c) \/ Gather(c)
        BY <4>2 DEF Place, Gather
      <4>. QED BY <2>4, <4>1, <4>2
    <3>. QED BY <3>1 DEF RowDone, Meet
  <2>. QED BY <2>1, <2>2, <2>3, <2>4
<1>5. pc'[c] \notin {"wait", "reset", "release", "done"}
  BY <1>3, <1>4 DEF Goto, ControlTypes
<1>. QED BY <1>2, <1>3, <1>5

LEMMA StepCount ==
  ASSUME ControlTypes, \A d \in CTA : PathInv(d), CountInv, NEW c \in CTA, CtaStep(c)
  PROVE  CountInv'
<1>1. CASE Arrive(c)
  BY <1>1, ArriveCount
<1>2. CASE Leave(c)
  BY <1>2, LeaveCount
<1>3. CASE Exit(c)
  BY <1>3, ExitCount
<1>4. CASE Reset(c) \/ Release(c)
  BY <1>4, LastCount
<1>5. CASE \/ NextRow(c) \/ Fold(c) \/ Read(c) \/ Select(c) \/ Claim(c) \/ Emit(c) \/ CollectEq(c)
           \/ Publish(c) \/ Place(c) \/ Gather(c) \/ (c = 0 /\ (ZeroOutput \/ ClearNext))
  BY <1>5, WorkGoesOn, StepPath, WorkCount DEF Alone
<1>. QED BY <1>1, <1>2, <1>3, <1>4, <1>5 DEF CtaStep

----------------------------------------------------------------------------
(* A launch: the first one, and the next on the same workspace.              *)
AtStart ==
  /\ kernel \in Kernel /\ rows \in Work /\ arrival = 0
  /\ pc = AtHead /\ then = AtHead /\ it = Zeros /\ rnd = Zeros /\ phase = Zeros

LEMMA Fresh == AtStart => ControlInv
<1>. SUFFICES ASSUME AtStart PROVE ControlInv
  OBVIOUS
<1>. USE DEF AtStart
<1>1. rows \in Seq(Rows) /\ Len(rows) \in Nat
  <2>1. PICK n \in 1 .. ROW_BOUND : rows \in [1 .. n -> Rows]
    BY DEF Work
  <2>2. n \in Nat
    BY BoundAssumption
  <2>. QED BY <2>1, <2>2
<1>2. ControlTypes
  BY <1>1, Spots DEF ControlTypes, AtHead, Zeros
<1>3. \A c \in CTA : /\ pc[c] = "row" /\ it[c] = 0 /\ rnd[c] = 0 /\ phase[c] = 0
                     /\ Aim(c) = "row" /\ Due(c) = 0 /\ Stage(c) = 0
  BY DEF AtHead, Zeros, Aim, Due, Stage, InBarrier
<1>4. \A c \in CTA : PathInv(c)
  <2>1. kernel.rounds \in {2, 4}
    BY KernelAssumption DEF Kernel
  <2>2. Gates[0] = 0
    BY GateFacts
  <2>. QED BY <1>1, <1>3, <2>1, <2>2 DEF PathInv, InBarrier, OfRow, OfRound, Ended
<1>5. CountInv
  <2>1. Arrivals = [c \in CTA |-> 0]
    BY <1>3 DEF Arrivals
  <2>2. {c \in CTA : Arrivals[c] = 0 + 1} = {} /\ Cardinality({}) = 0
    BY <2>1, FS_EmptySet
  <2>3. 0 * CTAS = 0
    BY CtasAssumption
  <2>4. Counted(Arrivals, arrival, 0)
    BY <2>1, <2>2, <2>3 DEF Counted
  <2>5. ~AllDone
    BY <1>3, Group DEF AllDone
  <2>. QED BY <1>3, <2>1, <2>4, <2>5 DEF CountInv
<1>. QED BY <1>2, <1>4, <1>5 DEF ControlInv

LEMMA ControlStart == Init => ControlInv
BY Fresh DEF Init, AtStart

LEMMA LaunchKernel ==
  ASSUME kernel \in Kernel, Launch
  PROVE  kernel' \in Kernel /\ rows' \in Work /\ kernel'.rounds = kernel.rounds
BY DEF Launch, Kernel

LEMMA LaunchControl ==
  ASSUME ControlInv, Launch
  PROVE  AtStart' /\ ControlInv'
<1>1. AtStart'
  BY LaunchKernel DEF ControlInv, ControlTypes, CountInv, Launch, AtStart
<1>. QED BY <1>1, Fresh, PTL

LEMMA ControlStep == ControlInv /\ [Next]_vars => ControlInv'
<1>. SUFFICES ASSUME ControlInv, [Next]_vars PROVE ControlInv'
  OBVIOUS
<1>1. CASE Launch
  BY <1>1, LaunchControl
<1>2. ASSUME NEW c \in CTA, CtaStep(c)
      PROVE  ControlInv'
  BY <1>2, StepPath, StepCount DEF ControlInv
<1>3. CASE UNCHANGED vars
  <2>1. UNCHANGED <<kernel, rows, pc, then, it, rnd, phase, arrival>>
    BY <1>3 DEF vars, place, shared
  <2>2. UNCHANGED <<Arrivals, AllDone, ControlTypes>>
    BY <2>1 DEF Arrivals, AllDone, ControlTypes
  <2>3. CountInv'
    BY <2>1, <2>2 DEF ControlInv, CountInv
  <2>. QED BY <2>1, <2>2, <2>3, PathKept DEF ControlInv
<1>. QED BY <1>1, <1>2, <1>3 DEF Next, Finished

LEMMA ControlInvariant == Spec => []ControlInv
BY ControlStart, ControlStep, PTL DEF Spec

----------------------------------------------------------------------------
(* What the last CTA leaves behind.                                          *)
NoHist == [b \in Buffer |-> NoKeys]
NoScratch == [c \in CTA |-> NoCounts]

LEMMA StepRuns ==
  ASSUME ControlTypes, NEW c \in CTA, CtaStep(c)
  PROVE  pc[c] # "done"
<1>1. CASE Arrive(c) \/ Leave(c) \/ Exit(c) \/ Reset(c) \/ Release(c)
  BY <1>1 DEF Arrive, Leave, Exit, Reset, Release
<1>2. CASE \/ NextRow(c) \/ Fold(c) \/ Read(c) \/ Select(c) \/ Claim(c) \/ Emit(c) \/ CollectEq(c)
           \/ Publish(c) \/ Place(c) \/ Gather(c) \/ (c = 0 /\ (ZeroOutput \/ ClearNext))
  BY <1>2 DEF NextRow, Takes, Fold, Read, Select, Claim, Emit, Emits, CollectEq, Publish, Place, Gather,
              ZeroOutput, ClearNext
<1>. QED BY <1>1, <1>2 DEF CtaStep

LEMMA StepClean ==
  ASSUME ControlInv, CleanInv, NEW c \in CTA, CtaStep(c)
  PROVE  CleanInv'
<1>. ControlTypes /\ (\A d \in CTA : PathInv(d)) /\ CountInv /\ kernel' = kernel
  BY StepPath DEF ControlInv, Alone
<1>1. pc[c] # "done" /\ ~AllDone
  BY StepRuns DEF AllDone
<1>2. \A d \in CTA \ {c} : pc[d] # "release" /\ pc'[d] = pc[d]
  BY <1>1, StepPath DEF CountInv, Alone
<1>3. CASE Reset(c)
  <2>1. hist' = NoHist /\ scratch' = (IF kernel.det THEN NoScratch ELSE scratch)
    BY <1>3 DEF Reset, NoHist, NoScratch
  <2>. QED BY <2>1 DEF CleanInv, NoHist, NoScratch
<1>4. CASE Release(c)
  BY <1>4 DEF Release, CleanInv
<1>5. CASE ~Reset(c) /\ ~Release(c)
  <2>1. pc'[c] # "release" /\ ~AllDone'
    <3>1. CASE Exit(c)
      BY <3>1, ExitCount DEF Exit, Goto, ControlTypes
    <3>2. CASE Arrive(c) \/ Leave(c)
      <4>1. CASE Arrive(c)
        BY <4>1 DEF Arrive, Goto, ControlTypes, AllDone
      <4>2. CASE Leave(c)
        <5>1. pc'[c] = then[c] /\ then[c] \in {"zero", "fold", "read", "eq", "place", "gather"}
          BY <4>2 DEF Leave, Goto, ControlTypes, PathInv, InBarrier
        <5>. QED BY <5>1 DEF AllDone
      <4>. QED BY <3>2, <4>1, <4>2
    <3>3. CASE \/ NextRow(c) \/ Fold(c) \/ Read(c) \/ Select(c) \/ Claim(c) \/ Emit(c) \/ CollectEq(c)
               \/ Publish(c) \/ Place(c) \/ Gather(c) \/ (c = 0 /\ (ZeroOutput \/ ClearNext))
      BY <3>3, WorkGoesOn DEF AllDone
    <3>. QED BY <1>5, <3>1, <3>2, <3>3 DEF CtaStep
  <2>2. ~kernel.det => scratch' = scratch
    <3>1. CASE Publish(c)
      BY <3>1 DEF Publish, PathInv, Aim, InBarrier
    <3>2. CASE Arrive(c) \/ Leave(c) \/ Exit(c)
      BY <3>2 DEF Arrive, Leave, Exit, shared
    <3>3. CASE \/ NextRow(c) \/ Fold(c) \/ Read(c) \/ Select(c) \/ Claim(c) \/ Emit(c) \/ CollectEq(c)
               \/ Place(c) \/ Gather(c) \/ (c = 0 /\ (ZeroOutput \/ ClearNext))
      BY <3>3 DEF NextRow, Takes, Fold, Read, Select, Claim, Emit, Emits, CollectEq, Place, Gather,
                  ZeroOutput, ClearNext, shared
    <3>. QED BY <1>5, <3>1, <3>2, <3>3 DEF CtaStep
  <2>. QED BY <1>2, <2>1, <2>2 DEF CleanInv
<1>. QED BY <1>3, <1>4, <1>5

LEMMA CleanStep == ControlInv /\ CleanInv /\ [Next]_vars => CleanInv'
<1>. SUFFICES ASSUME ControlInv, CleanInv, [Next]_vars PROVE CleanInv'
  OBVIOUS
<1>1. CASE Launch
  <2>1. hist' = NoHist /\ scratch' = NoScratch
    BY <1>1 DEF Launch, CleanInv, NoHist, NoScratch
  <2>. QED BY <2>1 DEF CleanInv, NoHist, NoScratch
<1>2. CASE UNCHANGED vars
  BY <1>2 DEF vars, place, shared, CleanInv, AllDone
<1>. QED BY <1>1, <1>2, StepClean DEF Next, Finished

LEMMA CleanInvariant == Spec => []CleanInv
<1>1. Init => CleanInv
  BY DEF Init, CleanInv
<1>. QED BY <1>1, CleanStep, ControlInvariant, PTL DEF Spec

(* Every launch of a group leaves the counter, the histograms and the counts *)
(* of the deterministic collect as the next one needs them, whatever its     *)
(* rows and whichever of the two collects it runs.                          *)
THEOREM WorkspaceLeftClean == Spec => []WorkspaceClean
<1>1. ControlInv /\ CleanInv => WorkspaceClean
  BY DEF ControlInv, CountInv, CleanInv, WorkspaceClean
<1>. QED BY <1>1, ControlInvariant, CleanInvariant, PTL

----------------------------------------------------------------------------
(* The group meets as the abstract barrier does.                             *)
Inside == [c \in CTA |-> phase[c] + IF pc[c] = "wait" THEN 1 ELSE 0]

LEMMA InsideFacts ==
  ASSUME ControlInv
  PROVE  /\ Inside \in [CTA -> Nat] /\ phase \in [CTA -> Nat]
         /\ \A c \in CTA : /\ pc[c] = "wait" => Inside[c] = phase[c] + 1
                           /\ pc[c] # "wait" => Inside[c] = phase[c]
                           /\ Arrivals[c] = IF pc[c] \in Ended THEN Inside[c] + 1 ELSE Inside[c]
BY DEF ControlInv, ControlTypes, Inside, Arrivals, Ended

LEMMA LeaveMeets ==
  ASSUME ControlInv, NEW c \in CTA, Leave(c)
  PROVE  \A d \in CTA : Inside[d] > phase[c]
<1>. ControlTypes /\ (\A d \in CTA : PathInv(d)) /\ CountInv
  BY DEF ControlInv
<1>1. pc[c] = "wait"
  BY DEF Leave
<1>2. \A d \in CTA : phase[c] + 1 <= Arrivals[d]
  BY LeaveCount
<1>3. phase[c] + 1 <= Gates[Len(rows)] /\ Gates[Len(rows)] \in Nat /\ phase[c] \in Nat
  BY <1>1, DueBound, InsideFacts DEF Due, InBarrier
<1>4. \A d \in CTA : pc[d] \in Ended => Inside[d] = Gates[Len(rows)]
  <2>. TAKE d \in CTA
  <2>1. pc[d] \in Ended => phase[d] = Gates[Len(rows)] /\ pc[d] # "wait"
    BY DueBound DEF Ended
  <2>. QED BY <2>1, InsideFacts
<1>5. \A d \in CTA : pc[d] \notin Ended => Inside[d] >= phase[c] + 1
  BY <1>2, InsideFacts
<1>6. \A d \in CTA : Inside[d] \in Nat
  BY InsideFacts
<1>. QED BY <1>3, <1>4, <1>5, <1>6

LEMMA RendezvousStep ==
  ASSUME ControlInv, [Next]_vars
  PROVE  \/ /\ \A c, d \in CTA : Inside[c] = phase[d]
            /\ Inside' = [c \in CTA |-> 0] /\ phase' = [c \in CTA |-> 0]
         \/ \E c \in CTA :
              \/ Inside[c] = phase[c] /\ Inside' = [Inside EXCEPT ![c] = @ + 1] /\ phase' = phase
              \/ /\ phase[c] < Inside[c] /\ \A d \in CTA : Inside[d] > phase[c]
                 /\ phase' = [phase EXCEPT ![c] = @ + 1] /\ Inside' = Inside
         \/ Inside' = Inside /\ phase' = phase
<1>. ControlTypes /\ (\A d \in CTA : PathInv(d)) /\ CountInv
  BY DEF ControlInv
<1>1. CASE Launch
  <2>1. \A c \in CTA : pc[c] = "done" /\ phase[c] = Gates[Len(rows)]
    BY <1>1, DueBound DEF Launch, AllDone, Ended
  <2>2. \A c, d \in CTA : Inside[c] = phase[d]
    BY <2>1, InsideFacts
  <2>3. Inside' = [c \in CTA |-> 0] /\ phase' = [c \in CTA |-> 0]
    BY <1>1 DEF Launch, AtHead, Zeros, Inside
  <2>. QED BY <2>2, <2>3
<1>2. ASSUME NEW c \in CTA, CtaStep(c)
      PROVE  \/ Inside[c] = phase[c] /\ Inside' = [Inside EXCEPT ![c] = @ + 1] /\ phase' = phase
             \/ /\ phase[c] < Inside[c] /\ \A d \in CTA : Inside[d] > phase[c]
                /\ phase' = [phase EXCEPT ![c] = @ + 1] /\ Inside' = Inside
             \/ Inside' = Inside /\ phase' = phase
  <2>1. CASE Arrive(c)
    <3>1. pc[c] = "arrive" /\ pc'[c] = "wait" /\ phase' = phase /\ \A d \in CTA \ {c} : pc'[d] = pc[d]
      BY <2>1 DEF Arrive, Goto, ControlTypes
    <3>2. Inside[c] = phase[c] /\ Inside' = [Inside EXCEPT ![c] = @ + 1]
      BY <3>1, InsideFacts DEF Inside
    <3>. QED BY <3>1, <3>2
  <2>2. CASE Leave(c)
    <3>1. /\ pc[c] = "wait" /\ pc'[c] = then[c] /\ \A d \in CTA \ {c} : pc'[d] = pc[d]
          /\ phase' = [phase EXCEPT ![c] = @ + 1]
      BY <2>2 DEF Leave, Goto, ControlTypes
    <3>2. then[c] # "wait"
      BY <3>1 DEF PathInv, InBarrier
    <3>3. Inside' = Inside
      BY <3>1, <3>2, InsideFacts DEF Inside
    <3>4. \A d \in CTA : Inside[d] > phase[c]
      BY <2>2, LeaveMeets
    <3>. QED BY <3>1, <3>3, <3>4
  <2>3. CASE Exit(c) \/ Reset(c) \/ Release(c)
    <3>1. /\ pc[c] # "wait" /\ pc'[c] # "wait" /\ phase' = phase /\ \A d \in CTA \ {c} : pc'[d] = pc[d]
      BY <2>3 DEF Exit, Reset, Release, Goto, ControlTypes
    <3>2. Inside' = Inside
      BY <3>1 DEF Inside
    <3>. QED BY <3>1, <3>2
  <2>4. CASE \/ NextRow(c) \/ Fold(c) \/ Read(c) \/ Select(c) \/ Claim(c) \/ Emit(c) \/ CollectEq(c)
             \/ Publish(c) \/ Place(c) \/ Gather(c) \/ (c = 0 /\ (ZeroOutput \/ ClearNext))
    <3>1. /\ phase' = phase /\ pc[c] # "wait" /\ pc'[c] # "wait" /\ \A d \in CTA \ {c} : pc'[d] = pc[d]
      BY <2>4, <1>2, WorkGoesOn, StepPath DEF Alone
    <3>2. Inside' = Inside
      BY <3>1 DEF Inside
    <3>. QED BY <3>1, <3>2
  <2>. QED BY <1>2, <2>1, <2>2, <2>3, <2>4 DEF CtaStep
<1>3. CASE UNCHANGED vars
  <2>1. UNCHANGED <<pc, phase>>
    BY <1>3 DEF vars, place
  <2>. QED BY <2>1 DEF Inside
<1>. QED BY <1>1, <1>2, <1>3 DEF Next, Finished

(* The CTAs of a group pass their barriers together: none leaves one that    *)
(* another has yet to enter, and a launch begins only after all have passed  *)
(* as many.                                                                 *)
THEOREM GroupMeets == Spec => MeetsAsOne
<1>1. Init => Rendezvous!Init
  BY DEF Init, Rendezvous!Init, AtHead, Zeros
<1>2. ControlInv /\ [Next]_vars => [Rendezvous!Next]_<<[c \in CTA |-> phase[c] + IF pc[c] = "wait" THEN 1 ELSE 0], phase>>
  <2>. SUFFICES ASSUME ControlInv, [Next]_vars
                PROVE  [Rendezvous!Next]_<<Inside, phase>>
    BY DEF Inside
  <2>. QED BY RendezvousStep DEF Rendezvous!Next, Rendezvous!Restart, Rendezvous!Init, Rendezvous!Enter,
                                 Rendezvous!Pass, Inside
<1>. QED BY <1>1, <1>2, ControlInvariant, PTL DEF Spec, MeetsAsOne, Rendezvous!Spec

----------------------------------------------------------------------------
(* The radix step: arithmetic of the digits, suffix sums, the threshold.      *)

(* Induction over the naturals, as a fact about sets of them.                *)
Less == {ss \in Nat \X Nat : ss[1] < ss[2]}
LEMMA LessWellFounded == IsWellFoundedOn(Less, Nat)
BY NatLessThanWellFounded DEF OpToRel, Less

(* A set of naturals that is not empty has a least one.                      *)
LEMMA Smallest ==
  ASSUME NEW T \in SUBSET Nat, T # {}
  PROVE  \E x \in T : \A y \in T : x <= y
<1>1. PICK x \in T : \A y \in T : <<y, x>> \notin Less
  BY LessWellFounded, WFMin
<1>2. \A y \in T : x <= y
  <2>. TAKE y \in T
  <2>1. y \in Nat /\ x \in Nat /\ <<y, x>> \notin Less
    BY <1>1
  <2>2. ~(y < x)
    BY <2>1 DEF Less
  <2>. QED BY <2>1, <2>2
<1>. QED BY <1>2

(* A set that holds 0 and the successor of each of its members holds them all.*)
LEMMA Induct ==
  ASSUME NEW S, 0 \in S, \A n \in Nat : n \in S => n + 1 \in S
  PROVE  \A n \in Nat : n \in S
<1>. DEFINE T == {n \in Nat : n \notin S}
<1>1. SUFFICES ASSUME T # {} PROVE FALSE
  OBVIOUS
<1>2. PICK x \in T : \A y \in T : x <= y
  <2>. HIDE DEF T
  <2>1. T \in SUBSET Nat
    BY DEF T
  <2>. QED BY <1>1, <2>1, Smallest
<1>3. x \in Nat /\ x \notin S /\ x # 0
  OBVIOUS
<1>4. x - 1 \in Nat /\ x - 1 < x /\ (x - 1) + 1 = x
  BY <1>3
<1>5. x - 1 \in S
  BY <1>2, <1>4
<1>. QED BY <1>3, <1>4, <1>5

(* Powers of two.                                                            *)
Doubles(g, n) == g = [i \in 0 .. n |-> IF i = 0 THEN 1 ELSE 2 * g[i - 1]]
LEMMA DoublesAgree ==
  ASSUME NEW f, NEW m \in Nat, Doubles(f, m), NEW g, NEW n \in Nat, Doubles(g, n), m <= n
  PROVE  \A i \in 0 .. m : f[i] = g[i]
<1>. DEFINE S == {i \in Nat : i <= m => f[i] = g[i]}
<1>1. 0 \in S
  BY DEF Doubles
<1>2. ASSUME NEW i \in Nat, i \in S
      PROVE  i + 1 \in S
  <2>1. i + 1 <= m => f[i + 1] = 2 * f[i] /\ g[i + 1] = 2 * g[i]
    <3>. SUFFICES ASSUME i + 1 <= m PROVE f[i + 1] = 2 * f[i] /\ g[i + 1] = 2 * g[i]
      OBVIOUS
    <3>1. i + 1 \in 0 .. m /\ i + 1 \in 0 .. n /\ i + 1 # 0 /\ (i + 1) - 1 = i
      OBVIOUS
    <3>. QED BY <3>1 DEF Doubles
  <2>. QED BY <1>2, <2>1
<1>. HIDE DEF S
<1>3. \A i \in Nat : i \in S
  BY <1>1, <1>2, Induct
<1>. QED BY <1>3 DEF S

LEMMA DoublesExist == \A n \in Nat : \E g : Doubles(g, n)
<1>. DEFINE S == {n \in Nat : \E g : Doubles(g, n)}
<1>1. 0 \in S
  <2>1. Doubles([i \in 0 .. 0 |-> 1], 0)
    BY DEF Doubles
  <2>. QED BY <2>1
<1>2. ASSUME NEW n \in Nat, n \in S
      PROVE  n + 1 \in S
  <2>1. PICK g : Doubles(g, n)
    BY <1>2
  <2>. DEFINE h == [i \in 0 .. n + 1 |-> IF i = n + 1 THEN 2 * g[n] ELSE g[i]]
  <2>2. \A i \in 0 .. n + 1 : h[i] = IF i = 0 THEN 1 ELSE 2 * h[i - 1]
    <3>. TAKE i \in 0 .. n + 1
    <3>1. CASE i = 0
      BY <2>1, <3>1 DEF Doubles
    <3>2. CASE i = n + 1
      <4>1. h[i] = 2 * g[n] /\ h[i - 1] = g[n] /\ i # 0
        BY <3>2
      <4>. QED BY <4>1
    <3>3. CASE i # 0 /\ i # n + 1
      <4>1. i \in 0 .. n /\ i - 1 \in 0 .. n
        BY <3>3
      <4>2. h[i] = g[i] /\ h[i - 1] = g[i - 1]
        BY <3>3, <4>1
      <4>3. g[i] = 2 * g[i - 1]
        BY <2>1, <3>3, <4>1 DEF Doubles
      <4>. QED BY <3>3, <4>2, <4>3
    <3>. QED BY <3>1, <3>2, <3>3
  <2>3. Doubles(h, n + 1)
    <3>1. h = [i \in 0 .. n + 1 |-> h[i]]
      OBVIOUS
    <3>. HIDE DEF h
    <3>. QED BY <2>2, <3>1 DEF Doubles
  <2>. QED BY <2>3
<1>. HIDE DEF S
<1>3. \A n \in Nat : n \in S
  BY <1>1, <1>2, Induct
<1>. QED BY <1>3 DEF S

(* The recursive function is the one its equation describes.                 *)
LEMMA TwoToFunction == TwoTo = [n \in Nat |-> IF n = 0 THEN 1 ELSE 2 * TwoTo[n - 1]]
<1>. DEFINE f == [n \in Nat |-> (CHOOSE g : Doubles(g, n))[n]]
<1>1. \A n \in Nat : Doubles(CHOOSE g : Doubles(g, n), n)
  BY DoublesExist
<1>2. \A n \in Nat : f[n] = IF n = 0 THEN 1 ELSE 2 * f[n - 1]
  <2>. TAKE n \in Nat
  <2>. DEFINE g == CHOOSE g : Doubles(g, n)
              h == CHOOSE h : Doubles(h, n - 1)
  <2>1. CASE n = 0
    <3>1. Doubles(g, n)
      BY <1>1
    <3>2. g[0] = 1
      <4>. HIDE DEF g
      <4>. QED BY <2>1, <3>1 DEF Doubles
    <3>. QED BY <2>1, <3>2
  <2>2. CASE n # 0
    <3>1. n - 1 \in Nat /\ n \in 0 .. n /\ n - 1 \in 0 .. n - 1 /\ n - 1 <= n
      BY <2>2
    <3>2. Doubles(g, n) /\ Doubles(h, n - 1)
      BY <1>1, <3>1
    <3>3. f[n] = g[n] /\ f[n - 1] = h[n - 1]
      BY <3>1
    <3>. HIDE DEF g, h, f
    <3>4. g[n] = 2 * g[n - 1]
      BY <2>2, <3>1, <3>2 DEF Doubles
    <3>5. h[n - 1] = g[n - 1]
      BY <3>1, <3>2, DoublesAgree
    <3>. QED BY <2>2, <3>3, <3>4, <3>5
  <2>. QED BY <2>1, <2>2
<1>3. f = [n \in Nat |-> IF n = 0 THEN 1 ELSE 2 * f[n - 1]]
  <2>1. f = [n \in Nat |-> f[n]]
    OBVIOUS
  <2>. HIDE DEF f
  <2>. QED BY <1>2, <2>1
<1>4. \E g : g = [n \in Nat |-> IF n = 0 THEN 1 ELSE 2 * g[n - 1]]
  <2>. HIDE DEF f
  <2>. QED BY <1>3
<1>. QED BY <1>4 DEF TwoTo

LEMMA TwoToFacts ==
  /\ TwoTo[0] = 1
  /\ \A n \in Nat : TwoTo[n] \in Nat /\ TwoTo[n] >= 1 /\ TwoTo[n + 1] = 2 * TwoTo[n]
  /\ \A m, n \in Nat : TwoTo[m + n] = TwoTo[m] * TwoTo[n]
<1>1. TwoTo[0] = 1
  BY TwoToFunction
<1>2. \A n \in Nat : TwoTo[n + 1] = 2 * TwoTo[n]
  <2>. TAKE n \in Nat
  <2>1. n + 1 \in Nat /\ n + 1 # 0 /\ (n + 1) - 1 = n
    OBVIOUS
  <2>. QED BY <2>1, TwoToFunction
<1>3. \A n \in Nat : TwoTo[n] \in Nat /\ TwoTo[n] >= 1
  <2>. DEFINE S == {n \in Nat : TwoTo[n] \in Nat /\ TwoTo[n] >= 1}
  <2>1. 0 \in S
    BY <1>1
  <2>2. \A n \in Nat : n \in S => n + 1 \in S
    BY <1>2
  <2>. HIDE DEF S
  <2>3. \A n \in Nat : n \in S
    BY <2>1, <2>2, Induct
  <2>. QED BY <2>3 DEF S
<1>4. ASSUME NEW m \in Nat
      PROVE  \A n \in Nat : TwoTo[m + n] = TwoTo[m] * TwoTo[n]
  <2>. DEFINE S == {n \in Nat : TwoTo[m + n] = TwoTo[m] * TwoTo[n]}
  <2>1. 0 \in S
    BY <1>1, <1>3
  <2>2. ASSUME NEW n \in Nat, n \in S
        PROVE  n + 1 \in S
    <3>1. TwoTo[m + (n + 1)] = 2 * TwoTo[m + n]
      <4>1. m + n \in Nat /\ m + (n + 1) = (m + n) + 1
        OBVIOUS
      <4>. QED BY <4>1, <1>2
    <3>2. TwoTo[m + n] = TwoTo[m] * TwoTo[n] /\ TwoTo[n + 1] = 2 * TwoTo[n]
      BY <1>2, <2>2
    <3>3. \A x, y \in Nat : 2 * (x * y) = x * (2 * y)
      OBVIOUS
    <3>. QED BY <3>1, <3>2, <3>3, <1>3
  <2>. HIDE DEF S
  <2>3. \A n \in Nat : n \in S
    BY <2>1, <2>2, Induct
  <2>. QED BY <2>3 DEF S
<1>. QED BY <1>1, <1>2, <1>3, <1>4

(* Powers multiply, and grow.                                                *)
LEMMA TwoToGrows ==
  /\ TwoTo[0] = 1
  /\ \A n \in Nat : TwoTo[n] \in Nat \ {0} /\ TwoTo[n + 1] = 2 * TwoTo[n]
<1>1. \A n \in Nat : TwoTo[n] \in Nat /\ TwoTo[n] >= 1
  BY TwoToFacts
<1>2. \A n \in Nat : TwoTo[n + 1] = 2 * TwoTo[n]
  BY TwoToFacts
<1>3. \A x \in Nat : x >= 1 => x \in Nat \ {0}
  OBVIOUS
<1>4. TwoTo[0] = 1
  BY TwoToFacts
<1>5. \A n \in Nat : TwoTo[n] \in Nat \ {0}
  BY <1>1, <1>3
<1>. QED BY <1>2, <1>4, <1>5

LEMMA Units ==
  /\ RADIX \in Nat /\ RADIX >= 2 /\ Unit(1) = 1
  /\ \A n \in Nat \ {0} : Unit(n) \in Nat /\ Unit(n) >= 1 /\ Unit(n + 1) = RADIX * Unit(n)
<1>1. RADIX \in Nat /\ RADIX >= 2
  <2>1. BITS - 1 \in Nat /\ (BITS - 1) + 1 = BITS
    BY BitsAssumption
  <2>2. TwoTo[BITS - 1] \in Nat /\ TwoTo[BITS - 1] >= 1 /\ TwoTo[BITS] = 2 * TwoTo[BITS - 1]
    BY <2>1, TwoToFacts
  <2>. QED BY <2>2 DEF RADIX
<1>2. Unit(1) = 1
  <2>1. BITS * (1 - 1) = 0
    BY BitsAssumption
  <2>. QED BY <2>1, TwoToFacts DEF Unit
<1>3. ASSUME NEW n \in Nat \ {0}
      PROVE  Unit(n) \in Nat /\ Unit(n) >= 1 /\ Unit(n + 1) = RADIX * Unit(n)
  <2>1. /\ BITS \in Nat /\ BITS * (n - 1) \in Nat
        /\ BITS * ((n + 1) - 1) = BITS + BITS * (n - 1)
    BY BitsAssumption
  <2>. DEFINE m == BITS * (n - 1)
  <2>2. Unit(n) = TwoTo[m] /\ Unit(n + 1) = TwoTo[BITS + m]
    BY <2>1 DEF Unit
  <2>. HIDE DEF m
  <2>3. TwoTo[m] \in Nat /\ TwoTo[m] >= 1 /\ TwoTo[BITS + m] = TwoTo[BITS] * TwoTo[m]
    <3>1. m \in Nat /\ BITS \in Nat
      BY <2>1 DEF m
    <3>. QED BY <3>1, TwoToFacts
  <2>. QED BY <2>2, <2>3 DEF RADIX
<1>. QED BY <1>1, <1>2, <1>3

(* Division, and the digits of a key.                                        *)
LEMMA Quotient ==
  ASSUME NEW x \in Nat, NEW u \in Nat \ {0}
  PROVE  /\ x \div u \in Nat /\ (x \div u) * u <= x /\ x < (x \div u) * u + u
         /\ \A q \in Nat : q * u <= x /\ x < q * u + u => x \div u = q
<1>. DEFINE d == x \div u
<1>1. d \in Nat /\ d * u <= x /\ x < d * u + u
  <2>1. d \in Int /\ d * u <= x /\ x < d * u + u
    OBVIOUS
  <2>2. d >= 0
    <3>. HIDE DEF d
    <3>1. CASE d <= -1
      <4>1. (d + 1) * u <= 0 /\ (d + 1) * u = d * u + u
        BY <2>1, <3>1
      <4>. QED BY <2>1, <4>1
    <3>. QED BY <2>1, <3>1
  <2>. QED BY <2>1, <2>2
<1>2. ASSUME NEW q \in Nat, q * u <= x, x < q * u + u
      PROVE  d = q
  <2>. HIDE DEF d
  <2>1. CASE q < d
    <3>1. (q + 1) * u <= d * u /\ (q + 1) * u = q * u + u
      BY <1>1, <2>1
    <3>. QED BY <1>1, <1>2, <3>1
  <2>2. CASE d < q
    <3>1. (d + 1) * u <= q * u /\ (d + 1) * u = d * u + u
      BY <1>1, <2>2
    <3>. QED BY <1>1, <1>2, <3>1
  <2>. QED BY <1>1, <2>1, <2>2
<1>. QED BY <1>1, <1>2

LEMMA QuotientGrows ==
  ASSUME NEW x \in Nat, NEW y \in Nat, x <= y, NEW u \in Nat \ {0}
  PROVE  x \div u <= y \div u
<1>. DEFINE p == x \div u
            q == y \div u
<1>1. p \in Nat /\ p * u <= x /\ q \in Nat /\ y < q * u + u
  BY Quotient
<1>. HIDE DEF p, q
<1>2. CASE q < p
  <2>1. (q + 1) * u <= p * u /\ (q + 1) * u = q * u + u
    BY <1>1, <1>2
  <2>. QED BY <1>1, <2>1
<1>. QED BY <1>1, <1>2 DEF p, q

(* Dividing twice is dividing by the product.                                *)
LEMMA QuotientTwice ==
  ASSUME NEW x \in Nat, NEW u \in Nat \ {0}, NEW r \in Nat \ {0}
  PROVE  x \div (r * u) = (x \div u) \div r
<1>. DEFINE q == x \div u
            p == q \div r
<1>1. q \in Nat /\ q * u <= x /\ x < q * u + u
  BY Quotient
<1>2. p \in Nat /\ p * r <= q /\ q < p * r + r
  <2>. HIDE DEF q
  <2>. QED BY <1>1, Quotient
<1>. HIDE DEF p, q
<1>3. r * u \in Nat \ {0}
  <2>1. \A a, b \in Nat : a > 0 /\ b > 0 => a * b \in Nat /\ a * b > 0
    OBVIOUS
  <2>. QED BY <2>1
<1>4. p * (r * u) <= x
  <2>1. (p * r) * u <= q * u
    BY <1>1, <1>2
  <2>2. p * (r * u) = (p * r) * u
    BY <1>2
  <2>. QED BY <1>1, <1>2, <2>1, <2>2
<1>5. x < p * (r * u) + r * u
  <2>1. (q + 1) * u <= (p * r + r) * u
    <3>1. p * r + r \in Nat /\ q + 1 <= p * r + r
      BY <1>1, <1>2
    <3>2. \A a, b \in Nat : a <= b => a * u <= b * u
      OBVIOUS
    <3>. QED BY <1>1, <3>1, <3>2
  <2>2. (q + 1) * u = q * u + u /\ (p * r + r) * u = p * (r * u) + r * u
    BY <1>1, <1>2
  <2>3. p * (r * u) \in Nat /\ r * u \in Nat /\ q * u \in Nat
    <3>1. \A a, b \in Nat : a * b \in Nat
      OBVIOUS
    <3>. QED BY <1>1, <1>2, <3>1
  <2>. QED BY <1>1, <2>1, <2>2, <2>3
<1>6. x \div (r * u) = p
  BY <1>2, <1>3, <1>4, <1>5, Quotient
<1>. QED BY <1>6 DEF p, q

(* The last digit of a quotient, and the quotient without it.                *)
LEMMA Digits ==
  ASSUME NEW x \in Nat, NEW n \in Nat \ {0}
  PROVE  LET q == x \div Unit(n)
             p == x \div Unit(n + 1)
         IN /\ p \in Nat /\ q \in Nat /\ Digit(x, n) \in Nat /\ Digit(x, n) < RADIX
            /\ q = p * RADIX + Digit(x, n)
            /\ Masked(x, n) = p * Unit(n + 1) /\ Masked(x, n - 1) = q * Unit(n)
<1>. DEFINE q == x \div Unit(n)
            p == x \div Unit(n + 1)
            u == Unit(n)
            r == RADIX
<1>1. u \in Nat \ {0} /\ r \in Nat \ {0} /\ Unit(n + 1) = r * u
  BY Units
<1>2. r * u \in Nat \ {0}
  <2>1. \A a, b \in Nat : a > 0 /\ b > 0 => a * b \in Nat /\ a * b > 0
    OBVIOUS
  <2>. HIDE DEF u, r
  <2>. QED BY <1>1, <2>1
<1>3. q \in Nat /\ p \in Nat /\ p = q \div r
  <2>. HIDE DEF u, r
  <2>1. x \div (r * u) = (x \div u) \div r
    <3>1. u \in Nat \ {0} /\ r \in Nat \ {0}
      BY <1>1
    <3>. QED BY ONLY <3>1, x \in Nat, QuotientTwice
  <2>2. \A v \in Nat \ {0} : x \div v \in Nat
    BY Quotient
  <2>. QED BY <1>1, <1>2, <2>1, <2>2 DEF u
<1>4. (q % r) \in Nat /\ (q % r) < r /\ q = (q \div r) * r + (q % r)
  <2>1. \A a \in Int, b \in Nat \ {0} : (a % b) \in 0 .. b - 1 /\ a = b * (a \div b) + (a % b) /\ a \div b \in Int
    OBVIOUS
  <2>2. \A a, b \in Int : a * b = b * a
    OBVIOUS
  <2>. HIDE DEF q, r
  <2>3. (q % r) \in 0 .. r - 1 /\ q = r * (q \div r) + (q % r) /\ q \div r \in Int
    <3>1. q \in Int /\ r \in Nat \ {0}
      BY <1>1, <1>3
    <3>. QED BY ONLY <3>1, <2>1
  <2>. QED BY <1>1, <2>2, <2>3
<1>5. Masked(x, n) = p * Unit(n + 1) /\ Masked(x, n - 1) = q * Unit(n) /\ Digit(x, n) = q % RADIX
  <2>1. (n - 1) + 1 = n
    OBVIOUS
  <2>. QED BY <2>1 DEF Masked, Digit
<1>. QED BY <1>3, <1>4, <1>5

(* One digit more of a key: its masked part and that digit's share.          *)
LEMMA MaskedDigits ==
  ASSUME NEW x \in Nat, NEW n \in Nat \ {0}
  PROVE  /\ Masked(x, n) \in Nat /\ Masked(x, n - 1) \in Nat /\ Digit(x, n) \in Bucket
         /\ Masked(x, n - 1) = Masked(x, n) + Digit(x, n) * Unit(n)
<1>. DEFINE q == x \div Unit(n)
            p == x \div Unit(n + 1)
<1>1. /\ p \in Nat /\ q \in Nat /\ Digit(x, n) \in Nat /\ Digit(x, n) < RADIX
      /\ q = p * RADIX + Digit(x, n) /\ Masked(x, n) = p * Unit(n + 1) /\ Masked(x, n - 1) = q * Unit(n)
  BY Digits
<1>2. Unit(n) \in Nat /\ Unit(n + 1) \in Nat /\ Unit(n + 1) = RADIX * Unit(n) /\ RADIX \in Nat
  BY Units
<1>3. \A a, r, d, u \in Nat : (a * r + d) * u = a * (r * u) + d * u /\ a * u \in Nat
  OBVIOUS
<1>. HIDE DEF p, q
<1>. QED BY <1>1, <1>2, <1>3 DEF Bucket

(* Keys compare as their leading digits do, and then as the next.            *)
LEMMA MaskedOrder ==
  ASSUME NEW x \in Nat, NEW y \in Nat, NEW n \in Nat \ {0}
  PROVE  /\ Masked(x, n - 1) > Masked(y, n - 1) <=>
              \/ Masked(x, n) > Masked(y, n)
              \/ Masked(x, n) = Masked(y, n) /\ Digit(x, n) > Digit(y, n)
         /\ Masked(x, n - 1) = Masked(y, n - 1) <=>
              Masked(x, n) = Masked(y, n) /\ Digit(x, n) = Digit(y, n)
<1>. DEFINE q == x \div Unit(n)
            p == x \div Unit(n + 1)
            s == y \div Unit(n)
            t == y \div Unit(n + 1)
            dx == Digit(x, n)
            dy == Digit(y, n)
            r == RADIX
            u == Unit(n)
            v == Unit(n + 1)
<1>1. /\ p \in Nat /\ q \in Nat /\ dx \in Nat /\ dx < r
      /\ q = p * r + dx /\ Masked(x, n) = p * v /\ Masked(x, n - 1) = q * u
  BY Digits
<1>2. /\ t \in Nat /\ s \in Nat /\ dy \in Nat /\ dy < r
      /\ s = t * r + dy /\ Masked(y, n) = t * v /\ Masked(y, n - 1) = s * u
  BY Digits
<1>3. u \in Nat /\ v \in Nat /\ r \in Nat /\ u >= 1 /\ v >= 1 /\ r >= 2
  BY Units
<1>4. \A a, b, w \in Nat : w >= 1 => (a * w > b * w <=> a > b) /\ (a * w = b * w <=> a = b)
  OBVIOUS
<1>5. (q > s <=> p > t \/ (p = t /\ dx > dy)) /\ (q = s <=> p = t /\ dx = dy)
  <2>. HIDE DEF p, q, s, t, dx, dy, r, u, v
  <2>1. CASE p > t
    <3>1. p * r >= (t + 1) * r /\ (t + 1) * r = t * r + r /\ p * r \in Nat /\ t * r \in Nat
      BY <1>1, <1>2, <1>3, <2>1
    <3>. QED BY <1>1, <1>2, <1>3, <2>1, <3>1
  <2>2. CASE p = t
    <3>1. p * r \in Nat
      BY <1>1, <1>3
    <3>. QED BY <1>1, <1>2, <2>2, <3>1
  <2>3. CASE p < t
    <3>1. t * r >= (p + 1) * r /\ (p + 1) * r = p * r + r /\ p * r \in Nat /\ t * r \in Nat
      BY <1>1, <1>2, <1>3, <2>3
    <3>. QED BY <1>1, <1>2, <1>3, <2>3, <3>1
  <2>. QED BY <1>1, <1>2, <2>1, <2>2, <2>3
<1>. HIDE DEF p, q, s, t, r, u, v
<1>. QED BY <1>1, <1>2, <1>3, <1>4, <1>5 DEF dx, dy

(* All digits masked away leave nothing, none leaves the key.                *)
LEMMA MaskedEnds ==
  ASSUME NEW x \in Nat
  PROVE  /\ Masked(x, 0) = x
         /\ \A n \in Nat : Masked(x, n) \in Nat
         /\ \A n \in Nat \ {0} : x < Unit(n + 1) => Masked(x, n) = 0
         /\ \A n \in Nat, y \in Nat : x <= y => Masked(x, n) <= Masked(y, n)
<1>1. \A n \in Nat : Unit(n + 1) \in Nat \ {0}
  <2>. TAKE n \in Nat
  <2>1. n + 1 \in Nat \ {0}
    OBVIOUS
  <2>. QED BY <2>1, Units
<1>2. \A n \in Nat : x \div Unit(n + 1) \in Nat
  BY <1>1, Quotient
<1>3. \A a, b \in Nat : a * b \in Nat
  OBVIOUS
<1>4. Masked(x, 0) = x
  <2>1. Unit(0 + 1) = 1 /\ x \div 1 = x
    BY Units
  <2>. QED BY <2>1 DEF Masked
<1>5. \A n \in Nat : Masked(x, n) \in Nat
  BY <1>1, <1>2, <1>3 DEF Masked
<1>6. ASSUME NEW n \in Nat \ {0}, x < Unit(n + 1)
      PROVE  Masked(x, n) = 0
  <2>. DEFINE v == Unit(n + 1)
  <2>1. v \in Nat \ {0} /\ x < v
    BY <1>1, <1>6
  <2>2. x \div v = 0
    <3>. HIDE DEF v
    <3>1. 0 * v <= x /\ x < 0 * v + v /\ 0 \in Nat
      BY <2>1
    <3>. QED BY <2>1, <3>1, Quotient
  <2>3. 0 * v = 0
    BY <2>1
  <2>. QED BY <2>2, <2>3 DEF Masked
<1>7. ASSUME NEW n \in Nat, NEW y \in Nat, x <= y
      PROVE  Masked(x, n) <= Masked(y, n)
  <2>. DEFINE v == Unit(n + 1)
              p == x \div v
              q == y \div v
  <2>1. v \in Nat \ {0} /\ p \in Nat /\ q \in Nat
    BY <1>1, Quotient
  <2>2. p <= q
    <3>. HIDE DEF v
    <3>. QED BY <2>1, <1>7, QuotientGrows
  <2>3. \A a, b, c \in Nat : a <= b => a * c <= b * c
    OBVIOUS
  <2>4. p * v <= q * v
    <3>. HIDE DEF p, q, v
    <3>. QED BY <2>1, <2>2, <2>3
  <2>. QED BY <2>4 DEF Masked
<1>. QED BY <1>4, <1>5, <1>6, <1>7

(* The scan: after n strides a bucket has the sum of the 2^n from it on.     *)
IsScan(scan, h) ==
  scan = [n \in 0 .. BITS |-> IF n = 0 THEN h ELSE Strided(scan[n - 1], TwoTo[n - 1])]
Within(S, dig, b, m) == {i \in S : b <= dig[i] /\ dig[i] < b + m}
WithinSums(S, dig, m) == [b \in Bucket |-> Cardinality(Within(S, dig, b, m))]

LEMMA DisjointUnion ==
  ASSUME NEW A, NEW B, IsFiniteSet(A), IsFiniteSet(B), A \cap B = {}
  PROVE  IsFiniteSet(A \cup B) /\ Cardinality(A \cup B) = Cardinality(A) + Cardinality(B)
<1>1. Cardinality(A \cup B) = Cardinality(A) + Cardinality(B) - Cardinality(A \cap B) /\ IsFiniteSet(A \cup B)
  BY FS_Union
<1>2. Cardinality(A \cap B) = 0
  BY FS_EmptySet
<1>3. Cardinality(A) \in Nat /\ Cardinality(B) \in Nat
  BY FS_CardinalityType
<1>. QED BY <1>1, <1>2, <1>3

(* One strided pass doubles the span a bucket's sum covers.                  *)
LEMMA StridedSums ==
  ASSUME NEW S, IsFiniteSet(S), NEW dig \in [S -> Bucket], NEW m \in Nat \ {0}
  PROVE  Strided(WithinSums(S, dig, m), m) = WithinSums(S, dig, 2 * m)
<1>0. \A i \in S : dig[i] \in Nat /\ dig[i] < RADIX
  BY Units DEF Bucket
<1>1. ASSUME NEW b \in Bucket
      PROVE  Strided(WithinSums(S, dig, m), m)[b] = Cardinality(Within(S, dig, b, 2 * m))
  <2>. DEFINE A == Within(S, dig, b, m)
              B == Within(S, dig, b + m, m)
              C == Within(S, dig, b, 2 * m)
  <2>1. b \in Nat /\ b < RADIX /\ RADIX \in Nat
    BY Units DEF Bucket
  <2>2. C = A \cup B /\ A \cap B = {}
    BY <1>0, <2>1 DEF Within
  <2>3. IsFiniteSet(A) /\ IsFiniteSet(B) /\ Cardinality(A) \in Nat
    BY FS_Subset, FS_CardinalityType DEF Within
  <2>4. Cardinality(C) = Cardinality(A) + Cardinality(B)
    <3>. HIDE DEF A, B, C
    <3>. QED BY <2>2, <2>3, DisjointUnion
  <2>5. CASE b + m < RADIX
    <3>1. b + m \in Bucket
      BY <2>1, <2>5 DEF Bucket
    <3>. QED BY <2>4, <2>5, <3>1 DEF Strided, WithinSums
  <2>6. CASE ~(b + m < RADIX)
    <3>1. B = {}
      BY <1>0, <2>1, <2>6 DEF Within
    <3>2. Cardinality(B) = 0
      BY <3>1, FS_EmptySet
    <3>. QED BY <2>3, <2>4, <2>6, <3>2 DEF Strided, WithinSums
  <2>. QED BY <2>5, <2>6
<1>. QED BY <1>1 DEF Strided, WithinSums

(* After n passes a bucket's sum covers 1 << n buckets from it on.           *)
LEMMA ScanSums ==
  ASSUME NEW S, IsFiniteSet(S), NEW dig \in [S -> Bucket], NEW scan, IsScan(scan, WithinSums(S, dig, 1))
  PROVE  \A n \in 0 .. BITS : scan[n] = WithinSums(S, dig, TwoTo[n])
<1>. DEFINE T == {n \in Nat : n <= BITS => scan[n] = WithinSums(S, dig, TwoTo[n])}
<1>0. BITS \in Nat
  BY BitsAssumption
<1>1. 0 \in T
  <2>1. 0 \in 0 .. BITS
    BY <1>0
  <2>2. scan[0] = WithinSums(S, dig, 1)
    BY <2>1 DEF IsScan
  <2>. QED BY <2>2, TwoToGrows
<1>2. ASSUME NEW n \in Nat, n \in T
      PROVE  n + 1 \in T
  <2>1. SUFFICES ASSUME n + 1 <= BITS PROVE scan[n + 1] = WithinSums(S, dig, TwoTo[n + 1])
    OBVIOUS
  <2>2. n + 1 \in 0 .. BITS /\ n + 1 # 0 /\ (n + 1) - 1 = n
    BY <1>0, <2>1
  <2>3. scan[n + 1] = Strided(scan[n], TwoTo[n])
    BY <2>2 DEF IsScan
  <2>4. scan[n] = WithinSums(S, dig, TwoTo[n])
    BY <1>0, <1>2, <2>1
  <2>5. TwoTo[n] \in Nat \ {0} /\ TwoTo[n + 1] = 2 * TwoTo[n]
    BY TwoToGrows
  <2>. QED BY <2>3, <2>4, <2>5, StridedSums
<1>. HIDE DEF T
<1>3. \A n \in Nat : n \in T
  BY <1>1, <1>2, Induct
<1>. QED BY <1>0, <1>3 DEF T

LEMMA ScanExists ==
  ASSUME NEW S, IsFiniteSet(S), NEW dig \in [S -> Bucket]
  PROVE  IsScan([n \in 0 .. BITS |-> WithinSums(S, dig, TwoTo[n])], WithinSums(S, dig, 1))
<1>. DEFINE sums == [n \in 0 .. BITS |-> WithinSums(S, dig, TwoTo[n])]
<1>1. ASSUME NEW n \in 0 .. BITS
      PROVE  WithinSums(S, dig, TwoTo[n]) = IF n = 0 THEN WithinSums(S, dig, 1) ELSE Strided(sums[n - 1], TwoTo[n - 1])
  <2>1. CASE n = 0
    BY <2>1, TwoToGrows
  <2>2. CASE n # 0
    <3>1. n - 1 \in Nat /\ n - 1 \in 0 .. BITS /\ (n - 1) + 1 = n
      BY <2>2, BitsAssumption
    <3>2. TwoTo[n - 1] \in Nat \ {0} /\ TwoTo[n] = 2 * TwoTo[n - 1]
      BY <3>1, TwoToGrows
    <3>. QED BY <2>2, <3>1, <3>2, StridedSums
  <2>. QED BY <2>1, <2>2
<1>. QED BY <1>1 DEF IsScan

Tally(S, dig) == [b \in Bucket |-> Cardinality({i \in S : dig[i] = b})]
TallyFrom(S, dig) == [b \in Bucket |-> Cardinality({i \in S : dig[i] >= b})]
LEMMA SuffixCounts ==
  ASSUME NEW S, IsFiniteSet(S), NEW dig \in [S -> Bucket]
  PROVE  SuffixSums(Tally(S, dig)) = TallyFrom(S, dig)
<1>. DEFINE h == Tally(S, dig)
<1>0. (\A i \in S : dig[i] \in Nat /\ dig[i] < RADIX) /\ (\A b \in Bucket : b \in Nat) /\ RADIX \in Nat
  BY Units DEF Bucket
<1>1. h = WithinSums(S, dig, 1)
  <2>1. \A b \in Bucket : Within(S, dig, b, 1) = {i \in S : dig[i] = b}
    BY <1>0 DEF Within
  <2>. QED BY <2>1 DEF WithinSums, Tally
<1>. HIDE DEF h
<1>2. \E scan : IsScan(scan, h)
  BY <1>1, ScanExists
<1>3. PICK scan : IsScan(scan, h) /\ SuffixSums(h) = scan[BITS]
  <2>. DEFINE s == CHOOSE scan : IsScan(scan, h)
  <2>1. IsScan(s, h)
    BY <1>2
  <2>2. SuffixSums(h) = s[BITS]
    BY DEF SuffixSums, IsScan
  <2>. HIDE DEF s
  <2>. QED BY <2>1, <2>2
<1>4. BITS \in 0 .. BITS
  BY BitsAssumption
<1>5. SuffixSums(h) = WithinSums(S, dig, RADIX)
  <2>1. scan[BITS] = WithinSums(S, dig, TwoTo[BITS])
    <3>1. IsScan(scan, WithinSums(S, dig, 1))
      BY <1>1, <1>3
    <3>. QED BY <3>1, <1>4, ScanSums
  <2>. QED BY <2>1, <1>3 DEF RADIX
<1>6. \A b \in Bucket : Within(S, dig, b, RADIX) = {i \in S : dig[i] >= b}
  BY <1>0 DEF Within
<1>. QED BY <1>5, <1>6 DEF WithinSums, TallyFrom, h

(* The K-th largest key is there.                                            *)
IsKth(keys, k, v) ==
  /\ v \in {keys[i] : i \in DOMAIN keys}
  /\ Cardinality({i \in DOMAIN keys : keys[i] > v}) < k
  /\ Cardinality({i \in DOMAIN keys : keys[i] >= v}) >= k

(* Among at least k keys there is a k-th largest.                            *)
LEMMA KthExists ==
  ASSUME NEW D, IsFiniteSet(D), NEW keys \in [D -> Nat], NEW k \in Nat \ {0},
         Cardinality(D) >= k, NEW top \in Nat, \A i \in D : keys[i] < top
  PROVE  IsKth(keys, k, KthLargest(keys, k))
<1>. DEFINE T == {v \in Nat : Cardinality({i \in D : keys[i] > v}) < k}
            F(v) == {i \in D : keys[i] > v}
            G(v) == {i \in D : keys[i] >= v}
<1>1. top \in T
  <2>1. {i \in D : keys[i] > top} = {}
    OBVIOUS
  <2>2. Cardinality({i \in D : keys[i] > top}) = 0
    BY <2>1, FS_EmptySet
  <2>. QED BY <2>2
<1>2. PICK v \in T : \A w \in T : v <= w
  <2>1. T \in SUBSET Nat /\ T # {}
    BY <1>1
  <2>. HIDE DEF T
  <2>. QED BY <2>1, Smallest
<1>3. v \in Nat /\ Cardinality(F(v)) < k
  OBVIOUS
<1>4. Cardinality(G(v)) >= k
  <2>1. CASE v = 0
    <3>1. G(v) = D
      BY <2>1
    <3>. HIDE DEF G
    <3>. QED BY <3>1
  <2>2. CASE v # 0
    <3>1. v - 1 \in Nat /\ ~(v <= v - 1)
      BY <1>3, <2>2
    <3>2. v - 1 \notin T
      BY <1>2, <3>1
    <3>3. ~(Cardinality(F(v - 1)) < k)
      BY <3>1, <3>2
    <3>4. F(v - 1) = G(v)
      BY <1>3, <2>2
    <3>5. Cardinality(F(v - 1)) \in Nat
      BY FS_Subset, FS_CardinalityType
    <3>. HIDE DEF F, G
    <3>. QED BY <3>3, <3>4, <3>5
  <2>. QED BY <2>1, <2>2
<1>5. F(v) # G(v)
  <2>1. Cardinality(F(v)) \in Nat
    BY FS_Subset, FS_CardinalityType
  <2>. HIDE DEF F, G
  <2>. QED BY <1>3, <1>4, <2>1
<1>6. v \in {keys[i] : i \in D}
  BY <1>3, <1>5
<1>7. IsKth(keys, k, v)
  BY <1>3, <1>4, <1>6 DEF IsKth
<1>8. \E w \in {keys[i] : i \in DOMAIN keys} :
        /\ Cardinality({i \in DOMAIN keys : keys[i] > w}) < k
        /\ Cardinality({i \in DOMAIN keys : keys[i] >= w}) >= k
  BY <1>7 DEF IsKth
<1>. HIDE DEF T, F, G
<1>. QED BY <1>8 DEF IsKth, KthLargest

(* The bucket in which the count passes the number wanted is the pivot's.    *)
Ahead(keys, v, n) == {i \in DOMAIN keys : Masked(keys[i], n) > Masked(v, n)}
Agree(keys, v, n) == {i \in DOMAIN keys : Masked(keys[i], n) = Masked(v, n)}
UpTo(keys, v, n, b) == Ahead(keys, v, n) \cup {i \in Agree(keys, v, n) : Digit(keys[i], n) >= b}

(* The pivot's digit is where the count of larger keys passes k.             *)
LEMMA UpToFacts ==
  ASSUME NEW D, IsFiniteSet(D), NEW keys \in [D -> Nat], NEW k \in Nat \ {0}, NEW v, IsKth(keys, k, v),
         NEW n \in Nat \ {0}
  PROVE  /\ v \in Nat /\ Digit(v, n) \in Bucket
         /\ Cardinality(UpTo(keys, v, n, Digit(v, n))) >= k
         /\ UpTo(keys, v, n, Digit(v, n) + 1) = Ahead(keys, v, n - 1)
         /\ Cardinality(Ahead(keys, v, n - 1)) < k
         /\ \A b, c \in Nat : b <= c => UpTo(keys, v, n, c) \subseteq UpTo(keys, v, n, b)
<1>1. v \in Nat /\ DOMAIN keys = D /\ \A i \in D : keys[i] \in Nat
  BY DEF IsKth
<1>2. Digit(v, n) \in Nat /\ Digit(v, n) \in Bucket
  <2>1. Digit(v, n) \in Bucket
    BY <1>1, MaskedDigits
  <2>. QED BY <2>1, Units DEF Bucket
<1>3. \A i \in D : Digit(keys[i], n) \in Nat /\ Masked(keys[i], n) \in Nat /\ Masked(keys[i], n - 1) \in Nat
  <2>1. \A i \in D : Digit(keys[i], n) \in Bucket /\ Masked(keys[i], n) \in Nat /\ Masked(keys[i], n - 1) \in Nat
    BY <1>1, MaskedDigits
  <2>. QED BY <2>1, Units DEF Bucket
<1>4. Masked(v, n) \in Nat /\ Masked(v, n - 1) \in Nat
  BY <1>1, MaskedDigits
<1>5. {i \in D : keys[i] >= v} \subseteq UpTo(keys, v, n, Digit(v, n))
  <2>. SUFFICES ASSUME NEW i \in D, keys[i] >= v
                PROVE  i \in UpTo(keys, v, n, Digit(v, n))
    OBVIOUS
  <2>1. keys[i] \in Nat /\ v <= keys[i] /\ n - 1 \in Nat
    BY <1>1
  <2>2. Masked(v, n - 1) <= Masked(keys[i], n - 1)
    BY <1>1, <2>1, MaskedEnds
  <2>3. \/ Masked(keys[i], n - 1) > Masked(v, n - 1)
        \/ Masked(keys[i], n - 1) = Masked(v, n - 1)
    BY <1>3, <1>4, <2>2
  <2>4. \/ Masked(keys[i], n) > Masked(v, n)
        \/ Masked(keys[i], n) = Masked(v, n) /\ Digit(keys[i], n) > Digit(v, n)
        \/ Masked(keys[i], n) = Masked(v, n) /\ Digit(keys[i], n) = Digit(v, n)
    BY <1>1, <2>1, <2>3, MaskedOrder
  <2>. QED BY <1>1, <1>2, <1>3, <2>4 DEF UpTo, Ahead, Agree
<1>6. UpTo(keys, v, n, Digit(v, n) + 1) = Ahead(keys, v, n - 1)
  <2>1. \A i \in D : Masked(keys[i], n - 1) > Masked(v, n - 1) <=>
           \/ Masked(keys[i], n) > Masked(v, n)
           \/ Masked(keys[i], n) = Masked(v, n) /\ Digit(keys[i], n) > Digit(v, n)
    BY <1>1, MaskedOrder
  <2>2. \A i \in D : Digit(keys[i], n) > Digit(v, n) <=> Digit(keys[i], n) >= Digit(v, n) + 1
    BY <1>2, <1>3
  <2>. QED BY <1>1, <2>1, <2>2 DEF UpTo, Ahead, Agree
<1>7. Ahead(keys, v, n - 1) \subseteq {i \in D : keys[i] > v}
  <2>. SUFFICES ASSUME NEW i \in D, Masked(keys[i], n - 1) > Masked(v, n - 1), ~(keys[i] > v)
                PROVE  FALSE
    BY <1>1 DEF Ahead
  <2>1. keys[i] \in Nat /\ keys[i] <= v /\ n - 1 \in Nat
    BY <1>1
  <2>2. Masked(keys[i], n - 1) <= Masked(v, n - 1)
    BY <1>1, <2>1, MaskedEnds
  <2>. QED BY <1>3, <1>4, <2>2
<1>8. Cardinality(UpTo(keys, v, n, Digit(v, n))) >= k
  <2>1. Cardinality({i \in D : keys[i] >= v}) >= k
    BY <1>1 DEF IsKth
  <2>2. IsFiniteSet(UpTo(keys, v, n, Digit(v, n)))
    <3>1. UpTo(keys, v, n, Digit(v, n)) \subseteq D
      BY <1>1 DEF UpTo, Ahead, Agree
    <3>. QED BY <3>1, FS_Subset
  <2>3. Cardinality({i \in D : keys[i] >= v}) <= Cardinality(UpTo(keys, v, n, Digit(v, n)))
    BY <1>5, <2>2, FS_Subset
  <2>4. Cardinality({i \in D : keys[i] >= v}) \in Nat /\ Cardinality(UpTo(keys, v, n, Digit(v, n))) \in Nat
    BY <2>2, FS_Subset, FS_CardinalityType
  <2>. QED BY <2>1, <2>3, <2>4
<1>9. Cardinality(Ahead(keys, v, n - 1)) < k
  <2>1. Cardinality({i \in D : keys[i] > v}) < k
    BY <1>1 DEF IsKth
  <2>2. Cardinality(Ahead(keys, v, n - 1)) <= Cardinality({i \in D : keys[i] > v})
    BY <1>7, FS_Subset
  <2>3. Cardinality({i \in D : keys[i] > v}) \in Nat /\ Cardinality(Ahead(keys, v, n - 1)) \in Nat
    BY <1>7, FS_Subset, FS_CardinalityType
  <2>. QED BY <2>1, <2>2, <2>3
<1>10. \A b, c \in Nat : b <= c => UpTo(keys, v, n, c) \subseteq UpTo(keys, v, n, b)
  BY <1>1, <1>3 DEF UpTo, Agree
<1>. QED BY <1>1, <1>2, <1>6, <1>8, <1>9, <1>10

(* One radix step finds the pivot's next digit, and what is left to find.    *)
LEMMA ThresholdFinds ==
  ASSUME NEW D, IsFiniteSet(D), NEW keys \in [D -> Nat], NEW k \in Nat \ {0}, NEW v, IsKth(keys, k, v),
         NEW n \in Nat \ {0}
  PROVE  Threshold(Histogram(keys, Masked(v, n), n), k - Cardinality(Ahead(keys, v, n)))
           = {[bucket |-> Digit(v, n), wanted |-> k - Cardinality(Ahead(keys, v, n - 1))]}
<1>. DEFINE S == Agree(keys, v, n)
            dig == [i \in S |-> Digit(keys[i], n)]
            h == Histogram(keys, Masked(v, n), n)
            sums == SuffixSums(h)
            d == Digit(v, n)
            w == k - Cardinality(Ahead(keys, v, n))
            FromOn(b) == {i \in S : dig[i] >= b}
<1>1. DOMAIN keys = D /\ S \subseteq D /\ IsFiniteSet(S) /\ \A i \in D : keys[i] \in Nat
  BY FS_Subset DEF Agree
<1>2. dig \in [S -> Bucket]
  <2>1. \A i \in S : Digit(keys[i], n) \in Bucket
    <3>. TAKE i \in S
    <3>1. keys[i] \in Nat
      BY <1>1
    <3>. QED BY <3>1, MaskedDigits
  <2>. QED BY <2>1
<1>3. h = Tally(S, dig)
  <2>1. ASSUME NEW b \in Bucket
        PROVE  {i \in DOMAIN keys : Masked(keys[i], n) = Masked(v, n) /\ Digit(keys[i], n) = b}
                 = {i \in S : dig[i] = b}
    BY DEF Agree
  <2>. QED BY <2>1 DEF Histogram, Tally
<1>4. sums = [b \in Bucket |-> Cardinality(FromOn(b))]
  <2>1. sums = TallyFrom(S, dig)
    <3>. HIDE DEF S, dig, h
    <3>. QED BY <1>1, <1>2, <1>3, SuffixCounts
  <2>. QED BY <2>1 DEF TallyFrom
<1>5. (\A b \in Bucket : b \in Nat /\ b < RADIX) /\ RADIX \in Nat /\ (\A i \in S : dig[i] \in Nat /\ dig[i] < RADIX)
      /\ \A b \in Nat : b < RADIX => b \in Bucket
  BY <1>2, Units DEF Bucket
<1>6. \A b \in Bucket : sums[b] = Cardinality(FromOn(b)) /\ Beyond(sums, b) = Cardinality(FromOn(b + 1))
  <2>. TAKE b \in Bucket
  <2>1. CASE b + 1 < RADIX
    <3>1. b + 1 \in Bucket
      BY <1>5, <2>1
    <3>. HIDE DEF S, dig, h, sums
    <3>. QED BY <1>4, <2>1, <3>1 DEF Beyond
  <2>2. CASE ~(b + 1 < RADIX)
    <3>1. FromOn(b + 1) = {}
      <4>. HIDE DEF S, dig
      <4>. QED BY <1>5, <2>2
    <3>2. Cardinality(FromOn(b + 1)) = 0
      BY <3>1, FS_EmptySet
    <3>. HIDE DEF S, dig, h, sums, FromOn
    <3>. QED BY <1>4, <2>2, <3>2 DEF Beyond
  <2>. QED BY <2>1, <2>2
<1>7. ASSUME NEW b \in Nat
      PROVE  /\ Cardinality(UpTo(keys, v, n, b)) = Cardinality(Ahead(keys, v, n)) + Cardinality(FromOn(b))
             /\ Cardinality(UpTo(keys, v, n, b)) \in Nat /\ Cardinality(FromOn(b)) \in Nat
             /\ IsFiniteSet(UpTo(keys, v, n, b))
  <2>1. UpTo(keys, v, n, b) = Ahead(keys, v, n) \cup FromOn(b)
    BY DEF UpTo
  <2>2. Ahead(keys, v, n) \cap FromOn(b) = {}
    <3>. SUFFICES ASSUME NEW i \in D, Masked(keys[i], n) > Masked(v, n), Masked(keys[i], n) = Masked(v, n)
                  PROVE  FALSE
      BY <1>1 DEF Ahead, Agree
    <3>1. Masked(v, n) \in Nat
      <4>1. v \in Nat
        BY <1>1 DEF IsKth
      <4>. QED BY <4>1, MaskedDigits
    <3>. QED BY <3>1
  <2>3. Ahead(keys, v, n) \subseteq D /\ FromOn(b) \subseteq D
    BY <1>1 DEF Ahead
  <2>4. IsFiniteSet(Ahead(keys, v, n)) /\ IsFiniteSet(FromOn(b))
    BY <2>3, FS_Subset
  <2>. HIDE DEF FromOn, S, dig
  <2>. QED BY SMTT(30), <2>1, <2>2, <2>4, DisjointUnion, FS_CardinalityType
<1>8. Cardinality(Ahead(keys, v, n)) \in Nat
  <2>1. Ahead(keys, v, n) \subseteq D
    BY <1>1 DEF Ahead
  <2>. QED BY <2>1, FS_Subset, FS_CardinalityType
<1>9. /\ d \in Bucket /\ d \in Nat /\ Cardinality(UpTo(keys, v, n, d)) >= k
      /\ UpTo(keys, v, n, d + 1) = Ahead(keys, v, n - 1) /\ Cardinality(UpTo(keys, v, n, d + 1)) < k
      /\ \A b, c \in Nat : b <= c => UpTo(keys, v, n, c) \subseteq UpTo(keys, v, n, b)
  BY <1>5, UpToFacts
<1>. HIDE DEF S, dig, FromOn, d, h, sums
<1>10. \A b, c \in Nat : b <= c => Cardinality(UpTo(keys, v, n, c)) <= Cardinality(UpTo(keys, v, n, b))
  <2>. TAKE b, c \in Nat
  <2>. HAVE b <= c
  <2>1. UpTo(keys, v, n, c) \subseteq UpTo(keys, v, n, b) /\ IsFiniteSet(UpTo(keys, v, n, b))
    BY <1>7, <1>9
  <2>. QED BY <2>1, FS_Subset
<1>11. \A b \in Bucket : Found(sums, b, w) <=> /\ Cardinality(UpTo(keys, v, n, b)) >= k
                                              /\ Cardinality(UpTo(keys, v, n, b + 1)) < k
  <2>. TAKE b \in Bucket
  <2>1. b \in Nat /\ b + 1 \in Nat
    BY <1>5
  <2>. QED BY <1>6, <1>7, <1>8, <2>1 DEF Found
<1>12. ASSUME NEW b \in Bucket
       PROVE  Found(sums, b, w) <=> b = d
  <2>1. b \in Nat /\ b + 1 \in Nat /\ d \in Nat /\ d + 1 \in Nat
    BY <1>5, <1>9
  <2>2. CASE b = d
    BY <1>9, <1>11, <2>2
  <2>3. CASE b < d
    <3>1. Cardinality(UpTo(keys, v, n, d)) <= Cardinality(UpTo(keys, v, n, b + 1))
      BY <1>10, <2>1, <2>3
    <3>. QED BY SMTT(30), <1>7, <1>9, <1>11, <2>1, <2>3, <3>1
  <2>4. CASE b > d
    <3>1. Cardinality(UpTo(keys, v, n, b)) <= Cardinality(UpTo(keys, v, n, d + 1))
      BY <1>10, <2>1, <2>4
    <3>. QED BY SMTT(30), <1>7, <1>9, <1>11, <2>1, <2>4, <3>1
  <2>. QED BY <2>1, <2>2, <2>3, <2>4
<1>13. {b \in Bucket : Found(sums, b, w)} = {d}
  BY <1>9, <1>12
<1>14. w - Beyond(sums, d) = k - Cardinality(Ahead(keys, v, n - 1))
  BY <1>6, <1>7, <1>8, <1>9
<1>15. Threshold(h, w) = {[bucket |-> b, wanted |-> w - Beyond(sums, b)] : b \in {d}}
  BY <1>13 DEF Threshold, sums
<1>. HIDE DEF w
<1>16. Threshold(h, w) = {[bucket |-> d, wanted |-> w - Beyond(sums, d)]}
  BY <1>15
<1>. QED BY <1>14, <1>16 DEF h, w, d

----------------------------------------------------------------------------
(* What the histograms hold.                                                 *)
(* What the CTAs of a round have folded into a histogram so far.             *)
KeysOf(row, ds) == [x \in UNION {{c} \X DOMAIN row[c] : c \in ds} |-> row[x[1]][x[2]]]
FoldedIn(d, i, k) ==
  /\ it[d] = i
  /\ \/ Aim(d) \in AfterRounds
     \/ Aim(d) \in OfRound /\ rnd[d] > k
     \/ Aim(d) \in {"clear", "read", "select"} /\ rnd[d] = k
Folders(i, k) == {d \in CTA : FoldedIn(d, i, k)}
Sought(row, n) == Masked(Pivot(row), n)
Partial(i, k) ==
  Histogram(KeysOf(rows[i + 1], Folders(i, k)), Sought(rows[i + 1], kernel.rounds - k), kernel.rounds - k)
InRound(c) ==
  \/ pc[c] \in {"fold", "clear", "read"}
  \/ pc[c] \in InBarrier /\ then[c] = "read"
RoundInv(c) == InRound(c) => hist[CurHist(c)] = Partial(it[c], rnd[c])

(* The round whose histogram CTA 0 cleared last, and the group folds into.   *)
Cleared == IF Aim(0) \in AfterRounds \/ (Aim(0) \in {"read", "select"} /\ rnd[0] + 1 = kernel.rounds)
           THEN <<it[0] + 1, 0>>
           ELSE IF Aim(0) \in {"read", "select"} THEN <<it[0], rnd[0] + 1>> ELSE <<it[0], rnd[0]>>
NextInv == hist[(Cleared[1] * kernel.rounds + Cleared[2]) % BUFFERS] = Partial(Cleared[1], Cleared[2])

Wanted(row, n) == K - Cardinality(Ahead(Keys(row), Pivot(row), n))
TrueFound(row, n) == [prefix |-> Sought(row, n), wanted |-> Wanted(row, n)]
FoundInv(c) ==
  /\ Aim(c) \in OfRound \cup {"zero"} => found[c] = TrueFound(Row(c), kernel.rounds - rnd[c])
  /\ Aim(c) \in AfterRounds => found[c] = TrueFound(Row(c), 0)
  /\ pc[c] = "select" => seen[c] = Histogram(Keys(Row(c)), found[c].prefix, DigitsLeft(c))
DataTypes ==
  /\ hist \in [Buffer -> [Bucket -> Nat]] /\ seen \in [CTA -> [Bucket -> Nat]]
  /\ found \in [CTA -> [prefix : Nat, wanted : Int]]
DataInv == DataTypes /\ NextInv /\ (\A c \in CTA : RoundInv(c)) /\ (\A c \in CTA : FoundInv(c))

----------------------------------------------------------------------------
(* The keys of a row, and of the chunks of some CTAs.                        *)
LEMMA RowKeys ==
  ASSUME NEW row \in Rows
  PROVE  /\ DOMAIN Keys(row) = UNION {{c} \X DOMAIN row[c] : c \in CTA}
         /\ IsFiniteSet(DOMAIN Keys(row)) /\ Keys(row) \in [DOMAIN Keys(row) -> Nat]
         /\ \A n \in Rounds : \A x \in DOMAIN Keys(row) : Keys(row)[x] < Unit(n + 1)
         /\ KeysOf(row, CTA) = Keys(row)
<1>. DEFINE D == UNION {{c} \X DOMAIN row[c] : c \in CTA}
<1>1. /\ \A c \in CTA : row[c] \in Seq(Nat)
      /\ \A c \in CTA : \A i \in DOMAIN row[c] : \A n \in Rounds : row[c][i] < Unit(n + 1)
  BY RowsAssumption
<1>2. \A c \in CTA : DOMAIN row[c] = 1 .. Len(row[c]) /\ Len(row[c]) \in Nat
                     /\ \A i \in DOMAIN row[c] : row[c][i] \in Nat
  BY <1>1
<1>3. IsFiniteSet(D)
  <2>. DEFINE f == [c \in CTA |-> {c} \X DOMAIN row[c]]
              R == {f[c] : c \in CTA}
  <2>1. D = UNION R
    OBVIOUS
  <2>2. IsFiniteSet(R)
    <3>1. f \in Surjection(CTA, R)
      BY DEF Surjection
    <3>. HIDE DEF R, f
    <3>. QED BY <3>1, Group, FS_Surjection
  <2>3. \A T \in R : IsFiniteSet(T)
    <3>. TAKE T \in R
    <3>1. PICK c \in CTA : T = {c} \X DOMAIN row[c]
      OBVIOUS
    <3>2. IsFiniteSet({c}) /\ IsFiniteSet(DOMAIN row[c])
      <4>1. Len(row[c]) \in Int /\ 1 \in Int /\ DOMAIN row[c] = 1 .. Len(row[c])
        BY <1>2
      <4>2. IsFiniteSet(1 .. Len(row[c]))
        BY <4>1, FS_Interval
      <4>. QED BY <4>1, <4>2, FS_Singleton
    <3>. QED BY <3>1, <3>2, FS_Product
  <2>. HIDE DEF R
  <2>. QED BY <2>1, <2>2, <2>3, FS_UNION
<1>4. \A x \in D : x[1] \in CTA /\ x[2] \in DOMAIN row[x[1]]
  OBVIOUS
<1>5. Keys(row) = [x \in D |-> row[x[1]][x[2]]] /\ KeysOf(row, CTA) = Keys(row)
  BY DEF Keys, KeysOf
<1>6. DOMAIN Keys(row) = D
  BY <1>5
<1>. HIDE DEF D
<1>7. \A x \in D : Keys(row)[x] = row[x[1]][x[2]]
  BY <1>5
<1>8. Keys(row) \in [D -> Nat]
  <2>1. \A x \in D : row[x[1]][x[2]] \in Nat
    BY <1>2, <1>4
  <2>. QED BY <1>5, <2>1
<1>9. \A n \in Rounds : \A x \in D : Keys(row)[x] < Unit(n + 1)
  BY <1>1, <1>4, <1>7
<1>. QED BY <1>3, <1>5, <1>6, <1>8, <1>9 DEF D

(* The row a worked row is: its K-th largest key exists.                     *)
LEMMA RowPivot ==
  ASSUME NEW row \in Rows, ~Trivial(row), Rounds # {}
  PROVE  /\ IsKth(Keys(row), K, Pivot(row)) /\ Pivot(row) \in Nat
         /\ \A n \in Rounds : Pivot(row) < Unit(n + 1)
<1>. DEFINE D == DOMAIN Keys(row)
<1>1. IsFiniteSet(D) /\ Keys(row) \in [D -> Nat] /\ \A n \in Rounds : \A x \in D : Keys(row)[x] < Unit(n + 1)
  BY RowKeys
<1>2. Cardinality(D) \in Nat /\ Cardinality(D) >= K /\ K \in Nat \ {0}
  BY <1>1, FS_CardinalityType, KernelAssumption DEF Trivial
<1>3. PICK n \in Rounds : TRUE
  OBVIOUS
<1>4. Unit(n + 1) \in Nat
  <2>1. n + 1 \in Nat \ {0}
    BY KernelAssumption
  <2>. QED BY <2>1, Units
<1>5. IsKth(Keys(row), K, Pivot(row))
  <2>. DEFINE keys == Keys(row)
  <2>1. keys \in [D -> Nat] /\ \A x \in D : keys[x] < Unit(n + 1)
    BY <1>1
  <2>. HIDE DEF D, keys
  <2>2. IsKth(keys, K, KthLargest(keys, K))
    BY <1>1, <1>2, <1>4, <2>1, KthExists
  <2>. QED BY <2>2 DEF Pivot, keys
<1>6. PICK x \in D : Pivot(row) = Keys(row)[x]
  BY <1>5 DEF IsKth
<1>. QED BY <1>1, <1>5, <1>6

LEMMA HistogramType ==
  ASSUME NEW D, IsFiniteSet(D), NEW keys, DOMAIN keys = D, NEW p, NEW n
  PROVE  Histogram(keys, p, n) \in [Bucket -> Nat]
<1>1. \A b \in Bucket : {i \in DOMAIN keys : Masked(keys[i], n) = p /\ Digit(keys[i], n) = b} \subseteq D
  OBVIOUS
<1>2. \A b \in Bucket : Cardinality({i \in DOMAIN keys : Masked(keys[i], n) = p /\ Digit(keys[i], n) = b}) \in Nat
  BY <1>1, FS_Subset, FS_CardinalityType
<1>. QED BY <1>2 DEF Histogram

LEMMA HistogramOfNone ==
  ASSUME NEW row, NEW p, NEW n
  PROVE  Histogram(KeysOf(row, {}), p, n) = NoKeys
<1>1. DOMAIN KeysOf(row, {}) = {}
  BY DEF KeysOf
<1>2. \A b \in Bucket : Cardinality({i \in DOMAIN KeysOf(row, {}) :
         Masked(KeysOf(row, {})[i], n) = p /\ Digit(KeysOf(row, {})[i], n) = b}) = 0
  BY <1>1, FS_EmptySet
<1>. QED BY <1>2 DEF Histogram, NoKeys

(* A chunk more: its histogram is added.                                     *)
LEMMA HistogramAdds ==
  ASSUME NEW row \in Rows, NEW ds \in SUBSET CTA, NEW d \in CTA \ ds, NEW p, NEW n
  PROVE  Histogram(KeysOf(row, ds \cup {d}), p, n)
           = Added(Histogram(KeysOf(row, ds), p, n), Histogram(row[d], p, n))
<1>. DEFINE D(es) == UNION {{c} \X DOMAIN row[c] : c \in es}
            A(b) == {x \in D(ds) : Masked(row[x[1]][x[2]], n) = p /\ Digit(row[x[1]][x[2]], n) = b}
            B(b) == {x \in D(ds \cup {d}) : Masked(row[x[1]][x[2]], n) = p /\ Digit(row[x[1]][x[2]], n) = b}
            C(b) == {i \in DOMAIN row[d] : Masked(row[d][i], n) = p /\ Digit(row[d][i], n) = b}
<1>1. \A es : DOMAIN KeysOf(row, es) = D(es) /\ \A x \in D(es) : KeysOf(row, es)[x] = row[x[1]][x[2]]
  BY DEF KeysOf
<1>2. Histogram(KeysOf(row, ds), p, n) = [b \in Bucket |-> Cardinality(A(b))]
  <2>1. \A b \in Bucket : {i \in DOMAIN KeysOf(row, ds) : Masked(KeysOf(row, ds)[i], n) = p
                                                         /\ Digit(KeysOf(row, ds)[i], n) = b} = A(b)
    <3>. HIDE DEF D
    <3>. QED BY <1>1
  <2>. QED BY <2>1 DEF Histogram
<1>3. Histogram(KeysOf(row, ds \cup {d}), p, n) = [b \in Bucket |-> Cardinality(B(b))]
  <2>1. \A b \in Bucket : {i \in DOMAIN KeysOf(row, ds \cup {d}) : Masked(KeysOf(row, ds \cup {d})[i], n) = p
                                                                  /\ Digit(KeysOf(row, ds \cup {d})[i], n) = b} = B(b)
    <3>. HIDE DEF D
    <3>. QED BY <1>1
  <2>. QED BY <2>1 DEF Histogram
<1>4. Histogram(row[d], p, n) = [b \in Bucket |-> Cardinality(C(b))]
  BY DEF Histogram
<1>5. ASSUME NEW b \in Bucket
      PROVE  Cardinality(B(b)) = Cardinality(A(b)) + Cardinality(C(b))
  <2>1. B(b) = A(b) \cup ({d} \X C(b)) /\ A(b) \cap ({d} \X C(b)) = {}
    <3>1. B(b) \subseteq A(b) \cup ({d} \X C(b))
      OBVIOUS
    <3>2. A(b) \cup ({d} \X C(b)) \subseteq B(b)
      OBVIOUS
    <3>3. A(b) \cap ({d} \X C(b)) = {}
      <4>1. \A x \in D(ds) : x[1] \in ds
        OBVIOUS
      <4>2. \A x \in {d} \X C(b) : x[1] = d
        OBVIOUS
      <4>. HIDE DEF D, C
      <4>. QED BY <4>1, <4>2
    <3>. QED BY <3>1, <3>2, <3>3
  <2>2. IsFiniteSet(A(b))
    <3>1. D(ds) \subseteq DOMAIN Keys(row) /\ IsFiniteSet(DOMAIN Keys(row))
      <4>1. DOMAIN Keys(row) = UNION {{c} \X DOMAIN row[c] : c \in CTA} /\ IsFiniteSet(DOMAIN Keys(row))
        BY RowKeys
      <4>. QED BY <4>1
    <3>2. A(b) \subseteq DOMAIN Keys(row)
      BY <3>1
    <3>. QED BY <3>1, <3>2, FS_Subset
  <2>3. IsFiniteSet(C(b)) /\ Cardinality(C(b)) \in Nat
    <3>1. row[d] \in Seq(Nat)
      BY RowsAssumption
    <3>2. DOMAIN row[d] = 1 .. Len(row[d]) /\ Len(row[d]) \in Nat
      BY <3>1
    <3>3. IsFiniteSet(DOMAIN row[d])
      BY <3>2, FS_Interval
    <3>. QED BY <3>3, FS_Subset, FS_CardinalityType
  <2>4. IsFiniteSet({d} \X C(b)) /\ Cardinality({d} \X C(b)) = Cardinality(C(b))
    <3>1. IsFiniteSet({d}) /\ Cardinality({d}) = 1
      BY FS_Singleton
    <3>. HIDE DEF C
    <3>2. /\ IsFiniteSet({d} \X C(b))
          /\ Cardinality({d} \X C(b)) = Cardinality({d}) * Cardinality(C(b))
      BY <2>3, <3>1, FS_Product
    <3>. QED BY <2>3, <3>1, <3>2
  <2>. HIDE DEF A, B, C
  <2>. QED BY <2>1, <2>2, <2>4, DisjointUnion
<1>. HIDE DEF A, B, C
<1>. QED BY <1>2, <1>3, <1>4, <1>5 DEF Added

----------------------------------------------------------------------------
(* How far apart the CTAs of a group can be.                                 *)
LEMMA Rounds24 ==
  ASSUME ControlTypes
  PROVE  /\ kernel \in Kernel /\ kernel.rounds \in Rounds /\ kernel.rounds \in {2, 4}
         /\ PerRow \in Nat /\ PerRow >= kernel.rounds + 2
<1>1. kernel \in Kernel /\ kernel.rounds \in Rounds /\ kernel.rounds \in {2, 4}
  BY KernelAssumption DEF ControlTypes, Kernel
<1>. QED BY <1>1 DEF PerRow

LEMMA Seat ==
  ASSUME ControlInv, NEW d \in CTA
  PROVE  /\ it[d] \in Nat /\ rnd[d] \in Nat /\ phase[d] \in Nat /\ rnd[d] < kernel.rounds
         /\ Gates[it[d]] \in Nat /\ Stage(d) \in Nat /\ Stage(d) <= PerRow
         /\ Due(d) = Gates[it[d]] + Stage(d) /\ Due(d) \in Nat
         /\ pc[d] \in InBarrier => Due(d) = phase[d] + 1
         /\ pc[d] \notin InBarrier => Due(d) = phase[d]
         /\ Aim(d) \notin OfRow => Stage(d) = 0
         /\ Aim(d) \in OfRow => Stage(d) >= 1 /\ it[d] < Len(rows) /\ ~Trivial(rows[it[d] + 1])
<1>. ControlTypes /\ PathInv(d)
  BY DEF ControlInv
<1>1. it[d] \in Nat /\ rnd[d] \in Nat /\ phase[d] \in Nat /\ rnd[d] < kernel.rounds
  BY DEF ControlTypes, PathInv
<1>2. kernel.rounds \in {2, 4} /\ kernel \in Kernel
  BY Rounds24
<1>3. Gates[it[d]] \in Nat
  BY <1>1, <1>2, GateFacts
<1>4. Stage(d) \in Nat /\ (Aim(d) \notin OfRow => Stage(d) = 0) /\ (Aim(d) \in OfRow => Stage(d) >= 1)
  BY <1>1, <1>2 DEF Stage, OfRow
<1>5. Stage(d) <= PerRow
  <2>1. Aim(d) = "gather" => kernel.paged
    BY DEF PathInv
  <2>2. Aim(d) = "gather" => PerRow = kernel.rounds + 3
    BY <1>2, <2>1 DEF PerRow
  <2>3. PerRow \in Nat /\ PerRow >= kernel.rounds + 2
    BY Rounds24
  <2>. QED BY <1>1, <1>2, <2>2, <2>3 DEF Stage
<1>6. Due(d) = Gates[it[d]] + Stage(d)
  BY DEF PathInv
<1>7. /\ pc[d] \in InBarrier => Due(d) = phase[d] + 1
      /\ pc[d] \notin InBarrier => Due(d) = phase[d]
  BY <1>1 DEF Due
<1>8. Aim(d) \in OfRow => it[d] < Len(rows) /\ ~Trivial(rows[it[d] + 1])
  BY DEF PathInv, Row
<1>. QED BY <1>1, <1>3, <1>4, <1>5, <1>6, <1>7, <1>8

(* Nobody has a barrier behind it that another has not come to.              *)
LEMMA Near ==
  ASSUME ControlInv, NEW c \in CTA, NEW d \in CTA
  PROVE  phase[c] <= Due(d) /\ Due(c) <= Due(d) + 1
<1>. ControlTypes /\ CountInv /\ PathInv(c) /\ PathInv(d)
  BY DEF ControlInv
<1>1. phase[c] <= Arrivals[d] /\ phase[c] \in Nat /\ Arrivals[d] \in Nat
  BY ArrivalFacts DEF CountInv
<1>2. phase[c] <= Due(d)
  <2>1. CASE pc[d] \in Ended
    <3>1. Due(d) = phase[d] /\ phase[d] = Gates[Len(rows)]
      BY <2>1, Seat, DueBound DEF InBarrier, Ended
    <3>2. Due(c) <= Gates[Len(rows)] /\ Gates[Len(rows)] \in Nat
      BY DueBound
    <3>3. Due(c) \in Nat /\ phase[c] <= Due(c)
      <4>1. /\ pc[c] \in InBarrier => Due(c) = phase[c] + 1
            /\ pc[c] \notin InBarrier => Due(c) = phase[c]
        BY Seat
      <4>. QED BY <1>1, <4>1
    <3>. QED BY <1>1, <3>1, <3>2, <3>3
  <2>2. CASE pc[d] \notin Ended
    BY <1>1, <2>2, ArrivalFacts, Seat
  <2>. QED BY <2>1, <2>2
<1>. QED BY <1>1, <1>2, Seat

(* Whoever has come to a barrier within a worked row is in that row.         *)
LEMMA SameRow ==
  ASSUME ControlInv, NEW c \in CTA, NEW d \in CTA, Aim(c) \in OfRow,
         Gates[it[c]] + 1 <= Due(d), Due(d) < Gates[it[c]] + PerRow
  PROVE  it[d] = it[c] /\ Aim(d) \in OfRow
<1>. ControlTypes /\ kernel \in Kernel /\ PerRow \in Nat
  BY Rounds24 DEF ControlInv
<1>1. it[c] \in Nat /\ it[d] \in Nat /\ ~Trivial(rows[it[c] + 1]) /\ Gates[it[c]] \in Nat /\ Gates[it[d]] \in Nat
  BY Seat
<1>2. Due(d) = Gates[it[d]] + Stage(d) /\ Stage(d) \in Nat /\ Stage(d) <= PerRow
      /\ (Aim(d) \notin OfRow => Stage(d) = 0) /\ (Aim(d) \in OfRow => ~Trivial(rows[it[d] + 1]))
  BY Seat
<1>3. ~(it[c] < it[d])
  <2>1. it[c] < it[d] => Gates[it[c]] + PerRow <= Gates[it[d]]
    BY <1>1, GateFacts
  <2>. QED BY <1>1, <1>2, <2>1
<1>4. ~(it[d] < it[c])
  <2>1. it[d] < it[c] /\ Aim(d) \in OfRow => Gates[it[d]] + PerRow <= Gates[it[c]]
    BY <1>1, <1>2, GateFacts
  <2>2. it[d] < it[c] => Gates[it[d]] <= Gates[it[c]]
    BY <1>1, GateFacts
  <2>. QED BY <1>1, <1>2, <2>1, <2>2
<1>. QED BY <1>1, <1>2, <1>3, <1>4

(* A place and its stage.                                                    *)
LEMMA StageOf ==
  ASSUME ControlInv, NEW d \in CTA
  PROVE  /\ Aim(d) \in {"fold", "clear"} => Stage(d) = rnd[d] + 1
         /\ Aim(d) \in {"read", "select"} => Stage(d) = rnd[d] + 2
         /\ Aim(d) \in AfterRounds => Stage(d) >= kernel.rounds + 1
         /\ Aim(d) \in AfterRounds /\ pc[d] \in InBarrier => Stage(d) >= kernel.rounds + 2
         /\ Aim(d) = "zero" => Stage(d) = 1 /\ d = 0 /\ rnd[d] = 0
         /\ Aim(d) \in {"zero", "clear"} => d = 0
         /\ pc[d] \in InBarrier => Aim(d) \in {"zero", "fold", "read", "eq", "place", "gather"}
         /\ pc[d] \in InBarrier /\ Aim(d) = "fold" => rnd[d] = 0 /\ d # 0
         /\ Aim(d) \in OfRow => Aim(d) \in {"zero", "fold", "clear", "read", "select"} \cup AfterRounds
<1>. PathInv(d) /\ rnd[d] \in Nat /\ kernel.rounds \in {2, 4}
  BY Rounds24 DEF ControlInv, ControlTypes
<1>1. pc[d] \in InBarrier => Aim(d) \in {"zero", "fold", "read", "eq", "place", "gather"} /\ Aim(d) = then[d]
  BY DEF PathInv, Aim
<1>2. /\ Aim(d) \in {"zero", "clear"} => d = 0
      /\ Aim(d) = "zero" => rnd[d] = 0
      /\ pc[d] \in InBarrier /\ Aim(d) = "fold" => rnd[d] = 0 /\ d # 0
  BY <1>1 DEF PathInv, OfRound
<1>. QED BY <1>1, <1>2 DEF Stage, AfterRounds, OfRow

(* Where a CTA is that folds or clears while another is in a round.          *)
LEMMA InRoundSeat ==
  ASSUME ControlInv, NEW c \in CTA, InRound(c)
  PROVE  /\ Aim(c) \in OfRow
         /\ \/ pc[c] \in {"fold", "clear"} /\ Due(c) = Gates[it[c]] + rnd[c] + 1 /\ phase[c] = Due(c)
            \/ pc[c] = "read" /\ Due(c) = Gates[it[c]] + rnd[c] + 2 /\ phase[c] = Due(c)
            \/ pc[c] \in InBarrier /\ Due(c) = Gates[it[c]] + rnd[c] + 2 /\ phase[c] = Due(c) - 1
         /\ phase[c] >= Gates[it[c]] + 1
<1>1. /\ it[c] \in Nat /\ rnd[c] \in Nat /\ phase[c] \in Nat /\ Gates[it[c]] \in Nat
      /\ Due(c) = Gates[it[c]] + Stage(c)
      /\ pc[c] \in InBarrier => Due(c) = phase[c] + 1
      /\ pc[c] \notin InBarrier => Due(c) = phase[c]
  BY Seat
<1>2. CASE pc[c] \in {"fold", "clear", "read"}
  <2>1. Aim(c) = pc[c] /\ pc[c] \notin InBarrier /\ Aim(c) \in OfRow
    BY <1>2 DEF Aim, InBarrier, OfRow
  <2>2. CASE pc[c] = "read"
    <3>1. Stage(c) = rnd[c] + 2
      BY <2>1, <2>2, StageOf
    <3>. QED BY <1>1, <2>1, <2>2, <3>1
  <2>3. CASE pc[c] \in {"fold", "clear"}
    <3>1. Stage(c) = rnd[c] + 1
      BY <2>1, <2>3, StageOf
    <3>. QED BY <1>1, <2>1, <2>3, <3>1
  <2>. QED BY <1>2, <2>1, <2>2, <2>3
<1>3. CASE pc[c] \in InBarrier /\ then[c] = "read"
  <2>1. Aim(c) = "read" /\ Aim(c) \in OfRow
    BY <1>3 DEF Aim, OfRow
  <2>2. Stage(c) = rnd[c] + 2
    BY <2>1, StageOf
  <2>. QED BY <1>1, <1>3, <2>1, <2>2
<1>. QED BY <1>2, <1>3 DEF InRound

----------------------------------------------------------------------------
(* The buffers of rounds that follow each other.                             *)
Buf(i, k) == (i * kernel.rounds + k) % BUFFERS
LEMMA Mod3 ==
  \A n \in Nat : (n % 3) \in 0 .. 2 /\ ((n + 1) % 3) # (n % 3) /\ ((n + 2) % 3) # (n % 3)
OBVIOUS

LEMMA Bufs ==
  ASSUME ControlTypes, NEW i \in Nat, NEW k \in Nat
  PROVE  /\ Buf(i, k) \in Buffer /\ Buf(i, k + 1) # Buf(i, k) /\ Buf(i, k + 2) # Buf(i, k)
         /\ k + 1 = kernel.rounds => Buf(i + 1, 0) = Buf(i, k + 1)
<1>. DEFINE n == i * kernel.rounds + k
<1>1. kernel.rounds \in Nat
  BY Rounds24
<1>2. n \in Nat
  <2>1. \A a, b \in Nat : a * b + k \in Nat
    OBVIOUS
  <2>. QED BY <1>1, <2>1
<1>3. i * kernel.rounds + (k + 1) = n + 1 /\ i * kernel.rounds + (k + 2) = n + 2
  <2>1. \A a, b \in Nat : a * b + (k + 1) = (a * b + k) + 1 /\ a * b + (k + 2) = (a * b + k) + 2
    OBVIOUS
  <2>. QED BY <1>1, <2>1
<1>4. k + 1 = kernel.rounds => (i + 1) * kernel.rounds + 0 = n + 1
  <2>1. \A a, b \in Nat : (a + 1) * b + 0 = a * b + b
    OBVIOUS
  <2>2. (i + 1) * kernel.rounds + 0 = i * kernel.rounds + kernel.rounds
    BY Zenon, <1>1, <2>1
  <2>. QED BY Zenon, <1>3, <2>2
<1>. HIDE DEF n
<1>5. (n % 3) \in 0 .. 2 /\ ((n + 1) % 3) # (n % 3) /\ ((n + 2) % 3) # (n % 3)
  BY <1>2, Mod3
<1>6. BUFFERS = 3 /\ Buffer = 0 .. 2
  BY DEF BUFFERS, Buffer
<1>. QED BY <1>3, <1>4, <1>5, <1>6 DEF Buf, n

LEMMA HistOf ==
  ASSUME ControlTypes, NEW d \in CTA
  PROVE  /\ CurHist(d) = Buf(it[d], rnd[d]) /\ CurHist(d) \in Buffer
         /\ NextHist(d) = Buf(it[d], rnd[d] + 1) /\ NextFirst(d) = Buf(it[d] + 1, 0)
<1>. it[d] \in Nat /\ rnd[d] \in Nat /\ kernel.rounds \in Nat
  BY Rounds24 DEF ControlTypes
<1>1. CurHist(d) = Buf(it[d], rnd[d])
  BY DEF CurHist, GlobalRound, Buf
<1>2. NextHist(d) = Buf(it[d], rnd[d] + 1)
  <2>1. \A a, b, e \in Nat : a * b + e + 1 = a * b + (e + 1)
    OBVIOUS
  <2>. QED BY <2>1 DEF NextHist, GlobalRound, Buf
<1>3. NextFirst(d) = Buf(it[d] + 1, 0)
  <2>1. \A a, b \in Nat : (a + 1) * b = (a + 1) * b + 0
    OBVIOUS
  <2>. QED BY <2>1 DEF NextFirst, Buf
<1>. QED BY <1>1, <1>2, <1>3, Bufs

(* While a CTA is in a round, one that folds or clears is in the same or the *)
(* next, and none is at the head of the row loop.                            *)
LEMMA RoundMates ==
  ASSUME ControlInv, NEW c \in CTA, NEW d \in CTA, InRound(c), pc[d] \in {"fold", "clear"}
  PROVE  it[d] = it[c] /\ rnd[d] \in {rnd[c], rnd[c] + 1}
<1>1. InRound(d) /\ pc[d] \notin InBarrier
  BY DEF InRound, InBarrier
<1>2. Aim(d) \in OfRow /\ Due(d) = Gates[it[d]] + rnd[d] + 1 /\ phase[d] = Due(d)
  BY <1>1, InRoundSeat
<1>3. /\ it[d] \in Nat /\ rnd[d] \in Nat /\ rnd[d] < kernel.rounds /\ Gates[it[d]] \in Nat
      /\ it[c] \in Nat /\ rnd[c] \in Nat /\ phase[c] \in Nat /\ Gates[it[c]] \in Nat
  BY Seat
<1>4. phase[c] <= Due(d) /\ phase[d] <= Due(c) /\ Due(c) <= Due(d) + 1 /\ Due(c) \in Nat
  BY Near, Seat
<1>5. kernel.rounds \in {2, 4} /\ PerRow \in Nat /\ PerRow >= kernel.rounds + 2
  BY Rounds24 DEF ControlInv
<1>6. it[c] = it[d]
  BY <1>2, <1>3, <1>4, <1>5, SameRow
<1>7. \/ Due(c) = Gates[it[c]] + rnd[c] + 1 /\ phase[c] = Due(c)
      \/ Due(c) = Gates[it[c]] + rnd[c] + 2 /\ phase[c] = Due(c)
      \/ Due(c) = Gates[it[c]] + rnd[c] + 2 /\ phase[c] = Due(c) - 1
  BY InRoundSeat
<1>. QED BY <1>2, <1>3, <1>4, <1>6, <1>7

LEMMA NoneAtHead ==
  ASSUME ControlInv, NEW c \in CTA, NEW d \in CTA, InRound(c)
  PROVE  pc[d] \notin {"row", "reset", "release", "done"}
<1>. SUFFICES ASSUME pc[d] \in {"row", "reset", "release", "done"} PROVE FALSE
  OBVIOUS
<1>1. Aim(d) \notin OfRow /\ pc[d] \notin InBarrier
  BY DEF Aim, InBarrier, OfRow
<1>2. phase[d] = Due(d) /\ Due(d) \in Nat
  BY <1>1, Seat
<1>3. /\ it[c] \in Nat /\ rnd[c] \in Nat /\ rnd[c] < kernel.rounds /\ phase[c] \in Nat /\ Gates[it[c]] \in Nat
      /\ Due(c) \in Nat
  BY Seat
<1>4. phase[c] <= Due(d) /\ phase[d] <= Due(c)
  BY Near
<1>5. kernel.rounds \in {2, 4} /\ PerRow \in Nat /\ PerRow >= kernel.rounds + 2
  BY Rounds24 DEF ControlInv
<1>6. /\ Aim(c) \in OfRow /\ phase[c] >= Gates[it[c]] + 1
      /\ \/ Due(c) = Gates[it[c]] + rnd[c] + 1
         \/ Due(c) = Gates[it[c]] + rnd[c] + 2
  BY InRoundSeat
<1>7. Gates[it[c]] + 1 <= Due(d) /\ Due(d) < Gates[it[c]] + PerRow
  BY <1>2, <1>3, <1>4, <1>5, <1>6
<1>. QED BY <1>1, <1>6, <1>7, SameRow

(* A CTA at the start of a round finds what the others folded into it.       *)
LEMMA Opening ==
  ASSUME ControlInv, NextInv, RoundInv(0), NEW c \in CTA, Aim(c) \in OfRow,
         NEW k \in Nat, k < kernel.rounds,
         Gates[it[c]] + k + 1 <= Due(0), phase[0] <= Gates[it[c]] + k + 1
  PROVE  hist[Buf(it[c], k)] = Partial(it[c], k)
<1>. 0 \in CTA
  BY Group
<1>1. /\ it[c] \in Nat /\ Gates[it[c]] \in Nat
      /\ phase[0] \in Nat /\ rnd[0] \in Nat /\ rnd[0] < kernel.rounds /\ it[0] \in Nat
      /\ Stage(0) \in Nat /\ Due(0) = Gates[it[0]] + Stage(0)
      /\ pc[0] \in InBarrier => Due(0) = phase[0] + 1
      /\ pc[0] \notin InBarrier => Due(0) = phase[0]
  BY Seat
<1>2. kernel.rounds \in {2, 4} /\ PerRow \in Nat /\ PerRow >= kernel.rounds + 2
  BY Rounds24 DEF ControlInv
<1>3. it[0] = it[c] /\ Aim(0) \in OfRow
  <2>1. Gates[it[c]] + 1 <= Due(0) /\ Due(0) < Gates[it[c]] + PerRow
    BY <1>1, <1>2
  <2>. QED BY <2>1, SameRow
<1>4. \/ Stage(0) = k + 1
      \/ Stage(0) = k + 2 /\ pc[0] \in InBarrier
  BY <1>1, <1>3
<1>5. CASE Cleared = <<it[c], k>>
  BY <1>5 DEF NextInv, Buf
<1>6. CASE InRound(0) /\ rnd[0] = k
  BY <1>3, <1>6, HistOf DEF RoundInv, ControlInv
<1>7. CASE Aim(0) = "zero"
  <2>1. rnd[0] = 0 /\ Stage(0) = 1
    BY <1>7, StageOf
  <2>2. k = 0
    BY <1>4, <2>1
  <2>3. Cleared = <<it[c], 0>>
    BY <1>3, <1>7, <2>1 DEF Cleared, AfterRounds
  <2>. QED BY <1>5, <2>2, <2>3
<1>8. CASE Aim(0) \in {"fold", "clear"}
  <2>1. Stage(0) = rnd[0] + 1 /\ pc[0] \notin InBarrier
    <3>1. Aim(0) # "clear" \/ pc[0] \notin InBarrier
      BY StageOf
    <3>. QED BY <1>8, <3>1, StageOf
  <2>2. rnd[0] = k
    BY <1>1, <1>4, <2>1
  <2>3. InRound(0)
    BY <1>8, <2>1 DEF InRound, Aim
  <2>. QED BY <1>6, <2>2, <2>3
<1>9. CASE Aim(0) \in {"read", "select"}
  <2>1. Stage(0) = rnd[0] + 2
    BY <1>9, StageOf
  <2>2. CASE Stage(0) = k + 1
    <3>1. rnd[0] + 1 = k /\ rnd[0] + 1 # kernel.rounds
      BY <1>1, <1>2, <2>1, <2>2
    <3>2. Cleared = <<it[c], k>>
      BY <1>3, <1>9, <3>1 DEF Cleared, AfterRounds
    <3>. QED BY <1>5, <3>2
  <2>3. CASE Stage(0) = k + 2 /\ pc[0] \in InBarrier
    <3>1. rnd[0] = k
      BY <1>1, <2>1, <2>3
    <3>2. Aim(0) = "read"
      BY <1>9, <2>3, StageOf
    <3>3. InRound(0)
      BY <2>3, <3>2 DEF InRound, Aim
    <3>. QED BY <1>6, <3>1, <3>3
  <2>. QED BY <1>4, <2>2, <2>3
<1>10. CASE Aim(0) \in AfterRounds
  <2>1. Stage(0) >= kernel.rounds + 1 /\ (pc[0] \in InBarrier => Stage(0) >= kernel.rounds + 2)
    BY <1>10, StageOf
  <2>. QED BY <1>1, <1>2, <1>4, <2>1
<1>. QED BY <1>3, <1>7, <1>8, <1>9, <1>10, StageOf

(* A CTA that folds does so into the histogram CTA 0 cleared last, or CTA 0  *)
(* has cleared the next one.                                                *)
LEMMA FoldersRound ==
  ASSUME ControlInv, NEW d \in CTA, pc[d] = "fold"
  PROVE  \/ Cleared = <<it[d], rnd[d]>>
         \/ Cleared = <<it[d], rnd[d] + 1>> /\ rnd[d] + 1 < kernel.rounds
         \/ Cleared = <<it[d] + 1, 0>> /\ rnd[d] + 1 = kernel.rounds
<1>. 0 \in CTA
  BY Group
<1>1. InRound(d)
  BY DEF InRound
<1>2. Aim(d) \in OfRow /\ Due(d) = Gates[it[d]] + rnd[d] + 1 /\ phase[d] = Due(d)
  BY <1>1, InRoundSeat DEF InBarrier
<1>3. /\ it[d] \in Nat /\ rnd[d] \in Nat /\ rnd[d] < kernel.rounds /\ Gates[it[d]] \in Nat
      /\ phase[0] \in Nat /\ rnd[0] \in Nat /\ rnd[0] < kernel.rounds /\ it[0] \in Nat
      /\ Stage(0) \in Nat /\ Due(0) = Gates[it[0]] + Stage(0)
      /\ pc[0] \in InBarrier => Due(0) = phase[0] + 1
      /\ pc[0] \notin InBarrier => Due(0) = phase[0]
  BY Seat
<1>4. kernel.rounds \in {2, 4} /\ PerRow \in Nat /\ PerRow >= kernel.rounds + 2
  BY Rounds24 DEF ControlInv
<1>5. phase[0] <= Due(d) /\ phase[d] <= Due(0)
  BY Near
<1>6. it[0] = it[d] /\ Aim(0) \in OfRow
  <2>1. Gates[it[d]] + 1 <= Due(0) /\ Due(0) < Gates[it[d]] + PerRow
    BY <1>2, <1>3, <1>4, <1>5
  <2>. QED BY <1>2, <2>1, SameRow
<1>7. \/ Stage(0) = rnd[d] + 1
      \/ Stage(0) = rnd[d] + 2 /\ pc[0] \in InBarrier
  BY <1>2, <1>3, <1>5, <1>6
<1>8. CASE Aim(0) = "zero"
  <2>1. rnd[0] = 0 /\ Stage(0) = 1
    BY <1>8, StageOf
  <2>2. rnd[d] = 0
    BY <1>3, <1>7, <2>1
  <2>. QED BY <1>6, <1>8, <2>1, <2>2 DEF Cleared, AfterRounds
<1>9. CASE Aim(0) \in {"fold", "clear"}
  <2>1. Stage(0) = rnd[0] + 1 /\ pc[0] \notin InBarrier
    <3>1. Aim(0) # "clear" \/ pc[0] \notin InBarrier
      BY StageOf
    <3>. QED BY <1>9, <3>1, StageOf
  <2>2. rnd[0] = rnd[d]
    BY <1>3, <1>7, <2>1
  <2>. QED BY <1>6, <1>9, <2>2 DEF Cleared, AfterRounds
<1>10. CASE Aim(0) \in {"read", "select"}
  <2>1. Stage(0) = rnd[0] + 2
    BY <1>10, StageOf
  <2>2. rnd[0] + 1 = rnd[d] \/ rnd[0] = rnd[d]
    BY <1>3, <1>7, <2>1
  <2>3. Aim(0) \notin AfterRounds
    BY <1>10 DEF AfterRounds
  <2>4. rnd[0] + 1 = kernel.rounds \/ rnd[0] + 1 < kernel.rounds
    BY <1>3, <1>4
  <2>5. CASE rnd[0] + 1 = rnd[d]
    <3>1. rnd[0] + 1 # kernel.rounds
      BY <1>3, <1>4, <2>5
    <3>. QED BY <1>6, <1>10, <2>3, <2>5, <3>1 DEF Cleared
  <2>6. CASE rnd[0] = rnd[d]
    BY <1>6, <1>10, <2>3, <2>4, <2>6 DEF Cleared
  <2>. QED BY <2>2, <2>5, <2>6
<1>11. CASE Aim(0) \in AfterRounds
  <2>1. Stage(0) >= kernel.rounds + 1 /\ (pc[0] \in InBarrier => Stage(0) >= kernel.rounds + 2)
    BY <1>11, StageOf
  <2>. QED BY <1>3, <1>4, <1>7, <2>1
<1>. QED BY <1>6, <1>8, <1>9, <1>10, <1>11, StageOf

----------------------------------------------------------------------------
(* Who has folded, by the barriers behind them.                              *)
LEMMA FoldedStage ==
  ASSUME ControlInv, NEW d \in CTA, NEW i \in Nat, NEW k \in Nat, k < kernel.rounds
  PROVE  /\ FoldedIn(d, i, k) => /\ it[d] = i /\ Aim(d) \in OfRow /\ Stage(d) >= k + 1
                                 /\ d # 0 \/ pc[d] \in InBarrier => Stage(d) >= k + 2
         /\ it[d] = i /\ Stage(d) >= k + 2 => FoldedIn(d, i, k)
<1>1. /\ rnd[d] \in Nat /\ rnd[d] < kernel.rounds /\ Stage(d) \in Nat
      /\ Aim(d) \notin OfRow => Stage(d) = 0
  BY Seat
<1>2. kernel.rounds \in {2, 4}
  BY Rounds24 DEF ControlInv
<1>3. ASSUME FoldedIn(d, i, k)
      PROVE  /\ it[d] = i /\ Aim(d) \in OfRow /\ Stage(d) >= k + 1
             /\ d # 0 \/ pc[d] \in InBarrier => Stage(d) >= k + 2
  <2>1. CASE Aim(d) \in AfterRounds
    <3>1. Stage(d) >= kernel.rounds + 1
      BY <2>1, StageOf
    <3>2. Aim(d) \in OfRow
      BY <2>1 DEF AfterRounds, OfRow
    <3>. QED BY <1>1, <1>2, <1>3, <3>1, <3>2 DEF FoldedIn
  <2>2. CASE Aim(d) \in {"fold", "clear"} /\ rnd[d] > k
    <3>1. Stage(d) = rnd[d] + 1
      BY <2>2, StageOf
    <3>. QED BY <1>1, <1>3, <2>2, <3>1 DEF FoldedIn, OfRow
  <2>3. CASE Aim(d) \in {"read", "select"} /\ rnd[d] >= k
    <3>1. Stage(d) = rnd[d] + 2
      BY <2>3, StageOf
    <3>. QED BY <1>1, <1>3, <2>3, <3>1 DEF FoldedIn, OfRow
  <2>4. CASE Aim(d) = "clear" /\ rnd[d] = k
    <3>1. Stage(d) = rnd[d] + 1 /\ d = 0 /\ pc[d] \notin InBarrier
      BY <2>4, StageOf
    <3>. QED BY <1>1, <1>3, <2>4, <3>1 DEF FoldedIn, OfRow
  <2>. QED BY <1>1, <1>3, <2>1, <2>2, <2>3, <2>4 DEF FoldedIn, OfRound
<1>4. ASSUME it[d] = i, Stage(d) >= k + 2
      PROVE  FoldedIn(d, i, k)
  <2>1. Aim(d) \in OfRow
    BY <1>1, <1>4
  <2>2. CASE Aim(d) = "zero"
    BY <1>4, <2>2, StageOf
  <2>3. CASE Aim(d) \in {"fold", "clear"}
    <3>1. Stage(d) = rnd[d] + 1
      BY <2>3, StageOf
    <3>. QED BY <1>1, <1>4, <2>3, <3>1 DEF FoldedIn, OfRound
  <2>4. CASE Aim(d) \in {"read", "select"}
    <3>1. Stage(d) = rnd[d] + 2
      BY <2>4, StageOf
    <3>. QED BY <1>1, <1>4, <2>4, <3>1 DEF FoldedIn, OfRound
  <2>5. CASE Aim(d) \in AfterRounds
    BY <1>4, <2>5 DEF FoldedIn
  <2>. QED BY <2>1, <2>2, <2>3, <2>4, <2>5, StageOf
<1>. QED BY <1>3, <1>4

(* At the read, all have.                                                    *)
LEMMA AllFolded ==
  ASSUME ControlInv, NEW c \in CTA, pc[c] = "read"
  PROVE  Folders(it[c], rnd[c]) = CTA
<1>1. SUFFICES ASSUME NEW d \in CTA PROVE FoldedIn(d, it[c], rnd[c])
  BY DEF Folders
<1>2. InRound(c)
  BY DEF InRound
<1>3. Aim(c) \in OfRow /\ Due(c) = Gates[it[c]] + rnd[c] + 2 /\ phase[c] = Due(c)
  BY <1>2, InRoundSeat DEF InBarrier
<1>4. /\ it[c] \in Nat /\ rnd[c] \in Nat /\ rnd[c] < kernel.rounds /\ Gates[it[c]] \in Nat
      /\ Due(d) = Gates[it[d]] + Stage(d) /\ Stage(d) \in Nat /\ Due(d) \in Nat
      /\ Aim(d) \in OfRow => Stage(d) >= 1 
  BY Seat
<1>5. kernel.rounds \in {2, 4} /\ PerRow \in Nat /\ PerRow >= kernel.rounds + 2
  BY Rounds24 DEF ControlInv
<1>6. phase[c] <= Due(d) /\ Due(d) <= Due(c) + 1
  BY Near
<1>7. it[d] = it[c]
  <2>1. Gates[it[c]] + 1 <= Due(d) /\ Due(d) <= Gates[it[c]] + PerRow
    BY <1>3, <1>4, <1>5, <1>6
  <2>2. CASE Due(d) < Gates[it[c]] + PerRow
    BY <1>3, <2>1, <2>2, SameRow
  <2>3. CASE Due(d) = Gates[it[c]] + PerRow
    <3>1. pc[d] \in InBarrier
      <4>1. pc[d] \notin InBarrier => phase[d] = Due(d) /\ phase[d] <= Due(c)
        BY Seat, Near
      <4>. QED BY <1>3, <1>4, <1>5, <2>3, <4>1
    <3>2. Aim(d) \in OfRow
      BY <3>1, StageOf DEF OfRow
    <3>3. it[d] \in Nat /\ Gates[it[d]] \in Nat /\ ~Trivial(rows[it[c] + 1]) /\ kernel \in Kernel
      <4>1. kernel \in Kernel
        BY DEF ControlInv, ControlTypes
      <4>. QED BY <1>3, <4>1, Seat
    <3>4. ~(it[c] < it[d])
      <4>1. it[c] < it[d] => Gates[it[c]] + PerRow <= Gates[it[d]]
        BY <1>4, <3>3, GateFacts
      <4>. QED BY <1>4, <1>5, <2>3, <3>2, <3>3, <4>1
    <3>5. ~(it[d] < it[c])
      <4>1. ~Trivial(rows[it[d] + 1]) /\ Stage(d) <= PerRow
        BY <3>2, Seat
      <4>2. it[d] < it[c] => Gates[it[d]] + PerRow <= Gates[it[c]]
        BY <1>4, <3>3, <4>1, GateFacts
      <4>. QED BY <1>4, <1>5, <2>3, <3>3, <4>1, <4>2
    <3>. QED BY <1>4, <3>3, <3>4, <3>5
  <2>. QED BY <1>4, <1>5, <2>1, <2>2, <2>3
<1>8. Stage(d) >= rnd[c] + 2
  BY <1>3, <1>4, <1>6, <1>7
<1>. QED BY <1>4, <1>7, <1>8, FoldedStage

(* Nobody has folded into the histogram that CTA 0 clears.                   *)
LEMMA NoneFolded ==
  ASSUME ControlInv, 0 \in CTA
  PROVE  /\ pc[0] = "clear" /\ rnd[0] + 1 < kernel.rounds => Folders(it[0], rnd[0] + 1) = {}
         /\ pc[0] = "clear" => Folders(it[0] + 1, 0) = {}
         /\ pc[0] = "row" /\ Trivial(rows[it[0] + 1]) => Folders(it[0] + 1, 0) = {}
<1>1. /\ it[0] \in Nat /\ rnd[0] \in Nat /\ rnd[0] < kernel.rounds /\ Gates[it[0]] \in Nat /\ phase[0] \in Nat
  BY Seat
<1>2. kernel.rounds \in {2, 4} /\ PerRow \in Nat /\ PerRow >= kernel.rounds + 2 /\ kernel \in Kernel
  BY Rounds24 DEF ControlInv
<1>3. pc[0] = "clear" => /\ Due(0) = Gates[it[0]] + rnd[0] + 1
                         /\ Gates[it[0] + 1] = Gates[it[0]] + PerRow
  <2>1. SUFFICES ASSUME pc[0] = "clear" PROVE Due(0) = Gates[it[0]] + rnd[0] + 1 /\ Gates[it[0] + 1] = Gates[it[0]] + PerRow
    OBVIOUS
  <2>2. InRound(0)
    BY <2>1 DEF InRound
  <2>3. Aim(0) \in OfRow /\ Due(0) = Gates[it[0]] + rnd[0] + 1
    BY <2>1, <2>2, InRoundSeat DEF InBarrier
  <2>4. ~Trivial(rows[it[0] + 1])
    BY <2>3, Seat
  <2>. QED BY <1>1, <1>2, <2>3, <2>4, GateFacts
<1>4. pc[0] = "row" /\ Trivial(rows[it[0] + 1]) => Due(0) = Gates[it[0]] /\ Gates[it[0] + 1] = Gates[it[0]]
  <2>1. pc[0] = "row" => Aim(0) \notin OfRow
    BY DEF Aim, InBarrier, OfRow
  <2>2. pc[0] = "row" => Due(0) = Gates[it[0]]
    BY <1>1, <2>1, Seat
  <2>. QED BY <1>1, <1>2, <2>2, GateFacts
<1>5. ASSUME NEW d \in CTA, NEW i \in Nat, NEW k \in Nat, k < kernel.rounds, FoldedIn(d, i, k)
      PROVE  /\ it[d] = i /\ Due(d) >= Gates[i] + k + 1 /\ (d # 0 => Due(d) >= Gates[i] + k + 2)
             /\ Due(d) <= Due(0) + 1 /\ Due(d) \in Nat /\ Due(0) \in Nat /\ Gates[i] \in Nat
  <2>1. /\ it[d] = i /\ Stage(d) >= k + 1 /\ (d # 0 => Stage(d) >= k + 2)
    BY <1>5, FoldedStage
  <2>2. Due(d) = Gates[it[d]] + Stage(d) /\ Gates[it[d]] \in Nat /\ Stage(d) \in Nat /\ Due(d) \in Nat /\ Due(0) \in Nat
    BY Seat
  <2>3. Due(d) <= Due(0) + 1
    BY Near
  <2>. QED BY <2>1, <2>2, <2>3
<1>6. ASSUME pc[0] = "clear", rnd[0] + 1 < kernel.rounds
      PROVE  Folders(it[0], rnd[0] + 1) = {}
  <2>1. ASSUME NEW d \in CTA, FoldedIn(d, it[0], rnd[0] + 1)
        PROVE  FALSE
    BY <1>1, <1>3, <1>5, <1>6, <2>1
  <2>. QED BY <2>1 DEF Folders
<1>7. ASSUME pc[0] = "clear"
      PROVE  Folders(it[0] + 1, 0) = {}
  <2>1. ASSUME NEW d \in CTA, FoldedIn(d, it[0] + 1, 0)
        PROVE  FALSE
    BY <1>1, <1>2, <1>3, <1>5, <1>7, <2>1
  <2>. QED BY <2>1 DEF Folders
<1>8. ASSUME pc[0] = "row", Trivial(rows[it[0] + 1])
      PROVE  Folders(it[0] + 1, 0) = {}
  <2>1. ASSUME NEW d \in CTA, FoldedIn(d, it[0] + 1, 0)
        PROVE  FALSE
    <3>1. d # 0
      BY <1>1, <2>1 DEF FoldedIn
    <3>. QED BY <1>1, <1>2, <1>4, <1>5, <1>8, <2>1, <3>1
  <2>. QED BY <2>1 DEF Folders
<1>. QED BY <1>6, <1>7, <1>8

----------------------------------------------------------------------------
(* What a step does, as the histograms see it.                               *)
Quiet(c) ==
  /\ UNCHANGED <<hist, found, seen>> /\ rnd'[c] = rnd[c] /\ pc[c] # "select" /\ pc'[c] # "select"
  /\ \/ it'[c] = it[c] /\ Aim(c)' = Aim(c)
     \/ it'[c] = it[c] /\ Aim(c) = "zero" /\ Aim(c)' = "fold"
     \/ it'[c] = it[c] /\ Aim(c) \in AfterRounds /\ Aim(c)' \in AfterRounds
     \/ /\ it'[c] = it[c] + 1 /\ Aim(c) \in AfterRounds /\ Aim(c)' = "row"
        /\ pc[c] \notin InBarrier /\ Stage(c) = PerRow
     \/ it'[c] = it[c] /\ Aim(c) \in {"row", "release", "done"} /\ Aim(c)' \in Ended

LEMMA QuietCollect ==
  ASSUME ControlTypes, NEW c \in CTA, PathInv(c),
         Claim(c) \/ Emit(c) \/ CollectEq(c) \/ Publish(c) \/ Place(c) \/ Gather(c)
  PROVE  Quiet(c)
<1>0. ControlTypes' /\ kernel.rounds \in {2, 4} /\ kernel' = kernel
  BY CollectPath, Rounds24 DEF Alone
<1>1. CASE Claim(c)
  <2>1. pc[c] = "claim" /\ Goto(c, "emit") /\ UNCHANGED <<hist, found, seen, it, rnd>>
    BY <1>1 DEF Claim
  <2>2. pc'[c] = "emit"
    BY <2>1, Goes, Spots
  <2>. QED BY <2>1, <2>2 DEF Quiet, Aim, InBarrier, AfterRounds
<1>2. ASSUME NEW p \in {"eq", "place", "gather"}, Meet(c, p), pc[c] \in AfterRounds,
             UNCHANGED <<hist, found, seen, it, rnd>>
      PROVE  Quiet(c)
  <2>1. pc'[c] = "arrive" /\ then'[c] = p
    BY <1>2, Meets, Spots
  <2>. QED BY <1>2, <2>1 DEF Quiet, Aim, InBarrier, AfterRounds
<1>3. ASSUME Goto(c, "row"), it' = [it EXCEPT ![c] = @ + 1], pc[c] \in {"eq", "place", "gather"},
             UNCHANGED <<hist, found, seen, rnd>>, Stage(c) = PerRow
      PROVE  Quiet(c)
  <2>1. pc'[c] = "row"
    BY <1>3, Goes, Spots
  <2>2. it'[c] = it[c] + 1
    BY <1>3 DEF ControlTypes
  <2>. QED BY <1>3, <2>1, <2>2 DEF Quiet, Aim, InBarrier, AfterRounds
<1>4. ASSUME RowDone(c), pc[c] \in {"eq", "place"}, UNCHANGED <<hist, found, seen, rnd>>
      PROVE  Quiet(c)
  <2>1. CASE kernel.paged
    BY <1>2, <1>4, <2>1 DEF RowDone, AfterRounds
  <2>2. CASE ~kernel.paged
    <3>1. Stage(c) = PerRow
      BY <1>0, <1>4, <2>2 DEF Stage, PerRow, Aim, InBarrier
    <3>. QED BY <1>3, <1>4, <2>2, <3>1 DEF RowDone
  <2>. QED BY <2>1, <2>2
<1>5. CASE Emit(c)
  <2>1. pc[c] = "emit" /\ Meet(c, "eq") /\ UNCHANGED <<hist, found, seen, it, rnd>>
    BY <1>5 DEF Emit, Emits
  <2>. QED BY <1>2, <2>1 DEF AfterRounds
<1>6. CASE CollectEq(c)
  <2>1. pc[c] = "eq" /\ UNCHANGED <<hist, found, seen, rnd>>
    BY <1>6 DEF CollectEq
  <2>2. CASE left[c] = {}
    BY <1>4, <1>6, <2>1, <2>2 DEF CollectEq
  <2>3. CASE left[c] # {}
    <3>1. UNCHANGED <<pc, then, it>>
      BY <1>6, <2>3 DEF CollectEq
    <3>. QED BY <2>1, <3>1 DEF Quiet, Aim
  <2>. QED BY <2>2, <2>3
<1>7. CASE Publish(c)
  <2>1. pc[c] = "publish" /\ Meet(c, "place") /\ UNCHANGED <<hist, found, seen, it, rnd>>
    BY <1>7 DEF Publish, local
  <2>. QED BY <1>2, <2>1 DEF AfterRounds
<1>8. CASE Place(c)
  <2>1. pc[c] = "place" /\ RowDone(c) /\ UNCHANGED <<hist, found, seen, rnd>>
    BY <1>8 DEF Place, local
  <2>. QED BY <1>4, <2>1
<1>9. CASE Gather(c)
  <2>1. /\ pc[c] = "gather" /\ Goto(c, "row") /\ it' = [it EXCEPT ![c] = @ + 1]
        /\ UNCHANGED <<hist, found, seen, rnd>>
    BY <1>9 DEF Gather, local
  <2>2. Stage(c) = PerRow
    <3>1. kernel.paged
      BY <2>1 DEF PathInv, Aim, InBarrier
    <3>. QED BY <1>0, <2>1, <3>1 DEF Stage, PerRow, Aim, InBarrier
  <2>. QED BY <1>3, <2>1, <2>2
<1>. QED BY <1>1, <1>5, <1>6, <1>7, <1>8, <1>9

LEMMA Moves ==
  ASSUME ControlInv, NEW c \in CTA, CtaStep(c)
  PROVE  \/ NextRow(c) \/ Fold(c) \/ Read(c) \/ Select(c) \/ (c = 0 /\ ClearNext) \/ Reset(c)
         \/ Quiet(c)
<1>. ControlTypes /\ PathInv(c)
  BY DEF ControlInv
<1>1. CASE Arrive(c)
  <2>1. pc[c] = "arrive" /\ pc'[c] = "wait" /\ UNCHANGED <<hist, found, seen, it, rnd>>
    BY <1>1, Goes, Spots DEF Arrive, local
  <2>2. Aim(c)' = Aim(c)
    BY <1>1, BarrierPath
  <2>. QED BY <2>1, <2>2 DEF Quiet
<1>2. CASE Leave(c)
  <2>1. pc[c] = "wait" /\ pc'[c] = then[c] /\ UNCHANGED <<hist, found, seen, it, rnd>>
    BY <1>2 DEF Leave, local, shared, Goto, ControlTypes
  <2>2. Aim(c)' = Aim(c)
    BY <1>2, BarrierPath
  <2>3. then[c] # "select"
    BY <2>1 DEF PathInv, InBarrier
  <2>. QED BY <2>1, <2>2, <2>3 DEF Quiet
<1>3. CASE c = 0 /\ ZeroOutput
  <2>1. pc[c] = "zero" /\ Goto(c, "fold") /\ UNCHANGED <<hist, found, seen, it, rnd>>
    BY <1>3 DEF ZeroOutput, local
  <2>2. pc'[c] = "fold"
    BY <2>1, Goes, Spots
  <2>. QED BY <2>1, <2>2 DEF Quiet, Aim, InBarrier
<1>4. CASE Exit(c) \/ Release(c)
  <2>1. /\ pc[c] \in {"row", "release"} /\ UNCHANGED <<hist, found, seen, it, rnd>>
        /\ Goto(c, "reset") \/ Goto(c, "done")
    BY <1>4 DEF Exit, Release, local
  <2>2. pc'[c] \in {"reset", "done"}
    BY <2>1, Goes, Spots
  <2>. QED BY <2>1, <2>2 DEF Quiet, Aim, InBarrier, Ended
<1>5. CASE Claim(c) \/ Emit(c) \/ CollectEq(c) \/ Publish(c) \/ Place(c) \/ Gather(c)
  BY <1>5, QuietCollect
<1>. QED BY <1>1, <1>2, <1>3, <1>4, <1>5 DEF CtaStep

(* What a step does to the histogram a round has so far.                     *)
LEMMA PartialKept ==
  ASSUME UNCHANGED <<kernel, rows>>, NEW i, NEW k, Folders(i, k)' = Folders(i, k)
  PROVE  Partial(i, k)' = Partial(i, k)
BY DEF Partial

LEMMA OthersFolded ==
  ASSUME NEW c \in CTA, Alone(c), NEW d \in CTA \ {c}, NEW i, NEW k
  PROVE  FoldedIn(d, i, k)' <=> FoldedIn(d, i, k)
<1>1. Aim(d)' = Aim(d) /\ it'[d] = it[d] /\ rnd'[d] = rnd[d]
  BY DEF Alone, Aim
<1>. QED BY <1>1 DEF FoldedIn

(* The place of a CTA before and after its step, but for the quiet ones.     *)
LEMMA Turns ==
  ASSUME ControlInv, NEW c \in CTA
  PROVE  /\ NextRow(c) => /\ Aim(c) = "row" /\ rnd'[c] = 0
                          /\ \/ Trivial(Row(c)) /\ Aim(c)' = "row" /\ it'[c] = it[c] + 1 /\ pc'[c] = "row"
                             \/ ~Trivial(Row(c)) /\ Aim(c)' \in {"zero", "fold"} /\ it'[c] = it[c] /\ pc'[c] = "arrive"
         /\ Fold(c) => /\ Aim(c) = "fold" /\ it'[c] = it[c] /\ rnd'[c] = rnd[c]
                       /\ IF c = 0 THEN Aim(c)' = "clear" /\ pc'[c] = "clear"
                                   ELSE Aim(c)' = "read" /\ pc'[c] = "arrive"
         /\ Read(c) => /\ Aim(c) = "read" /\ Aim(c)' = "select" /\ pc'[c] = "select"
                       /\ it'[c] = it[c] /\ rnd'[c] = rnd[c]
         /\ Select(c) => /\ Aim(c) = "select" /\ it'[c] = it[c]
                         /\ \/ rnd[c] + 1 < kernel.rounds /\ rnd'[c] = rnd[c] + 1 /\ pc'[c] = "fold" /\ Aim(c)' = "fold"
                            \/ /\ rnd[c] + 1 = kernel.rounds /\ rnd'[c] = 0
                               /\ pc'[c] \in {"publish", "claim"} /\ Aim(c)' = pc'[c]
         /\ c = 0 /\ ClearNext => /\ Aim(c) = "clear" /\ Aim(c)' = "read" /\ pc'[c] = "arrive"
                                  /\ it'[c] = it[c] /\ rnd'[c] = rnd[c]
         /\ Reset(c) => /\ Aim(c) = "reset" /\ Aim(c)' = "release" /\ pc'[c] = "release"
                        /\ it'[c] = it[c] /\ rnd'[c] = rnd[c]
<1>. ControlTypes /\ PathInv(c) /\ rnd[c] \in Nat /\ kernel.rounds \in {2, 4}
  BY Rounds24 DEF ControlInv, ControlTypes
<1>1. ASSUME NextRow(c)
      PROVE  /\ Aim(c) = "row" /\ rnd'[c] = 0
             /\ \/ Trivial(Row(c)) /\ Aim(c)' = "row" /\ it'[c] = it[c] + 1 /\ pc'[c] = "row"
                \/ ~Trivial(Row(c)) /\ Aim(c)' \in {"zero", "fold"} /\ it'[c] = it[c] /\ pc'[c] = "arrive"
  <2>1. pc[c] = "row" /\ rnd' = rnd /\ Aim(c) = "row"
    BY <1>1 DEF NextRow, Takes, Aim, InBarrier
  <2>2. rnd[c] = 0
    BY <2>1 DEF PathInv, OfRound
  <2>3. CASE Trivial(Row(c))
    <3>1. UNCHANGED <<pc, then>> /\ it' = [it EXCEPT ![c] = @ + 1]
      BY <1>1, <2>3 DEF NextRow, Takes
    <3>. QED BY <2>1, <2>2, <2>3, <3>1 DEF Aim, InBarrier, ControlTypes
  <2>4. CASE ~Trivial(Row(c))
    <3>1. Meet(c, IF c = 0 THEN "zero" ELSE "fold") /\ it' = it
      BY <1>1, <2>4 DEF NextRow, Takes
    <3>2. PICK p \in {"zero", "fold"} : Meet(c, p)
      BY <3>1
    <3>3. pc'[c] = "arrive" /\ then'[c] = p
      BY <3>2, Meets, Spots
    <3>. QED BY <2>1, <2>2, <2>4, <3>1, <3>3 DEF Aim, InBarrier
  <2>. QED BY <2>3, <2>4
<1>2. ASSUME Fold(c)
      PROVE  /\ Aim(c) = "fold" /\ it'[c] = it[c] /\ rnd'[c] = rnd[c]
             /\ IF c = 0 THEN Aim(c)' = "clear" /\ pc'[c] = "clear"
                         ELSE Aim(c)' = "read" /\ pc'[c] = "arrive"
  <2>1. /\ pc[c] = "fold" /\ UNCHANGED <<it, rnd>>
        /\ IF c = 0 THEN Goto(c, "clear") /\ UNCHANGED then ELSE Meet(c, "read")
    BY <1>2 DEF Fold
  <2>2. IF c = 0 THEN pc'[c] = "clear" ELSE pc'[c] = "arrive" /\ then'[c] = "read"
    BY <2>1, Goes, Meets, Spots
  <2>. QED BY <2>1, <2>2 DEF Aim, InBarrier
<1>3. ASSUME Read(c)
      PROVE  /\ Aim(c) = "read" /\ Aim(c)' = "select" /\ pc'[c] = "select"
             /\ it'[c] = it[c] /\ rnd'[c] = rnd[c]
  <2>1. pc[c] = "read" /\ Goto(c, "select") /\ UNCHANGED <<it, rnd>>
    BY <1>3 DEF Read
  <2>2. pc'[c] = "select"
    BY <2>1, Goes, Spots
  <2>. QED BY <2>1, <2>2 DEF Aim, InBarrier
<1>4. ASSUME Select(c)
      PROVE  /\ Aim(c) = "select" /\ it'[c] = it[c]
             /\ \/ rnd[c] + 1 < kernel.rounds /\ rnd'[c] = rnd[c] + 1 /\ pc'[c] = "fold" /\ Aim(c)' = "fold"
                \/ /\ rnd[c] + 1 = kernel.rounds /\ rnd'[c] = 0
                   /\ pc'[c] \in {"publish", "claim"} /\ Aim(c)' = pc'[c]
  <2>0. pc[c] = "select" /\ it' = it /\ rnd[c] < kernel.rounds
    BY <1>4 DEF Select, PathInv
  <2>1. CASE rnd[c] + 1 < kernel.rounds
    <3>1. rnd' = [rnd EXCEPT ![c] = @ + 1] /\ Goto(c, "fold")
      BY <1>4, <2>1 DEF Select
    <3>2. pc'[c] = "fold" /\ rnd'[c] = rnd[c] + 1
      BY <3>1, Goes, Spots DEF ControlTypes
    <3>. QED BY <2>0, <2>1, <3>2 DEF Aim, InBarrier
  <2>2. CASE ~(rnd[c] + 1 < kernel.rounds)
    <3>1. rnd' = [rnd EXCEPT ![c] = 0] /\ (Goto(c, "publish") \/ Goto(c, "claim"))
      BY <1>4, <2>2 DEF Select
    <3>2. pc'[c] \in {"publish", "claim"} /\ rnd'[c] = 0
      BY <3>1, Goes, Spots DEF ControlTypes
    <3>. QED BY <2>0, <2>2, <3>2 DEF Aim, InBarrier
  <2>. QED BY <2>1, <2>2
<1>5. ASSUME c = 0, ClearNext
      PROVE  /\ Aim(c) = "clear" /\ Aim(c)' = "read" /\ pc'[c] = "arrive"
             /\ it'[c] = it[c] /\ rnd'[c] = rnd[c]
  <2>1. pc[c] = "clear" /\ Meet(c, "read") /\ UNCHANGED <<it, rnd>>
    BY <1>5 DEF ClearNext
  <2>2. pc'[c] = "arrive" /\ then'[c] = "read"
    BY <2>1, Meets, Spots
  <2>. QED BY <2>1, <2>2 DEF Aim, InBarrier
<1>6. ASSUME Reset(c)
      PROVE  /\ Aim(c) = "reset" /\ Aim(c)' = "release" /\ pc'[c] = "release"
             /\ it'[c] = it[c] /\ rnd'[c] = rnd[c]
  <2>1. pc[c] = "reset" /\ Goto(c, "release") /\ UNCHANGED <<it, rnd>>
    BY <1>6 DEF Reset
  <2>2. pc'[c] = "release"
    BY <2>1, Goes, Spots
  <2>. QED BY <2>1, <2>2 DEF Aim, InBarrier
<1>. QED BY <1>1, <1>2, <1>3, <1>4, <1>5, <1>6

LEMMA FoldsKept ==
  ASSUME ControlInv, NEW c \in CTA, CtaStep(c), NEW i \in Nat, NEW k \in Nat, k < kernel.rounds,
         Fold(c) => i # it[c] \/ k # rnd[c],
         Quiet(c) => it'[c] = it[c] \/ it[c] # i
  PROVE  Folders(i, k)' = Folders(i, k) /\ Partial(i, k)' = Partial(i, k)
<1>. ControlTypes /\ Alone(c) /\ rnd[c] \in Nat /\ rnd[c] < kernel.rounds /\ kernel.rounds \in {2, 4}
  BY StepPath, Seat, Rounds24 DEF ControlInv
<1>1. FoldedIn(c, i, k)' <=> FoldedIn(c, i, k)
  <2>1. CASE NextRow(c)
    BY <2>1, Turns DEF FoldedIn, AfterRounds, OfRound
  <2>2. CASE Fold(c)
    BY <2>2, Turns DEF FoldedIn, AfterRounds, OfRound
  <2>3. CASE Read(c) \/ (c = 0 /\ ClearNext)
    BY <2>3, Turns DEF FoldedIn, AfterRounds, OfRound
  <2>4. CASE Select(c)
    BY <2>4, Turns DEF FoldedIn, AfterRounds, OfRound
  <2>5. CASE Reset(c)
    BY <2>5, Turns DEF FoldedIn, AfterRounds, OfRound
  <2>6. CASE Quiet(c)
    <3>1. CASE it'[c] = it[c] /\ Aim(c) = "zero" /\ Aim(c)' = "fold"
      <4>1. rnd[c] = 0 /\ rnd'[c] = 0
        BY <2>6, <3>1, StageOf DEF Quiet
      <4>. QED BY <3>1, <4>1 DEF FoldedIn, AfterRounds, OfRound
    <3>2. CASE /\ it'[c] = it[c] + 1 /\ Aim(c) \in AfterRounds /\ Aim(c)' = "row"
      <4>1. it[c] # i
        BY <2>6, <3>2, Seat
      <4>. QED BY <3>2, <4>1 DEF FoldedIn, AfterRounds, OfRound
    <3>3. CASE it'[c] = it[c] /\ Aim(c)' = Aim(c)
      BY <2>6, <3>3 DEF FoldedIn, Quiet
    <3>4. CASE it'[c] = it[c] /\ Aim(c) \in AfterRounds /\ Aim(c)' \in AfterRounds
      BY <3>4 DEF FoldedIn
    <3>5. CASE it'[c] = it[c] /\ Aim(c) \in {"row", "release", "done"} /\ Aim(c)' \in Ended
      BY <3>5 DEF FoldedIn, AfterRounds, OfRound, Ended
    <3>. QED BY <2>6, <3>1, <3>2, <3>3, <3>4, <3>5 DEF Quiet
  <2>. QED BY <2>1, <2>2, <2>3, <2>4, <2>5, <2>6, Moves
<1>2. Folders(i, k)' = Folders(i, k)
  BY <1>1, OthersFolded DEF Folders
<1>. QED BY <1>2, PartialKept DEF Alone

LEMMA FoldAdds ==
  ASSUME ControlInv, NEW c \in CTA, Fold(c), NEW i, NEW k, i = it[c], k = rnd[c]
  PROVE  c \notin Folders(i, k) /\ Folders(i, k)' = Folders(i, k) \cup {c}
<1>1. Alone(c) /\ rnd[c] \in Nat
  BY StepPath, Seat DEF ControlInv, CtaStep
<1>2. FoldedIn(c, i, k)' /\ ~FoldedIn(c, i, k)
  BY <1>1, Turns DEF FoldedIn, AfterRounds, OfRound
<1>. QED BY <1>1, <1>2, OthersFolded DEF Folders

----------------------------------------------------------------------------
(* The histograms a step writes.                                             *)
LEMMA HistMoves ==
  ASSUME ControlInv, DataTypes, NEW c \in CTA, NEW b \in Buffer
  PROVE  /\ Fold(c) => hist'[b] = IF b = CurHist(c)
                                  THEN Added(hist[b], Histogram(Row(c)[c], found[c].prefix, DigitsLeft(c)))
                                  ELSE hist[b]
         /\ c = 0 /\ ClearNext => hist'[b] = IF b = NextHist(c) THEN NoKeys ELSE hist[b]
         /\ NextRow(c) => hist'[b] = IF c = 0 /\ Trivial(Row(c)) /\ b = NextFirst(c) THEN NoKeys ELSE hist[b]
         /\ Reset(c) => hist'[b] = NoKeys
         /\ Read(c) \/ Select(c) => hist' = hist
<1>. DOMAIN hist = Buffer
  BY DEF DataTypes
<1>1. Fold(c) => hist'[b] = IF b = CurHist(c)
                            THEN Added(hist[b], Histogram(Row(c)[c], found[c].prefix, DigitsLeft(c)))
                            ELSE hist[b]
  <2>1. Fold(c) => hist' = [hist EXCEPT ![CurHist(c)] = Added(@, Histogram(Row(c)[c], found[c].prefix, DigitsLeft(c)))]
    BY DEF Fold
  <2>. QED BY <2>1 DEF DataTypes
<1>2. c = 0 /\ ClearNext => hist'[b] = IF b = NextHist(c) THEN NoKeys ELSE hist[b]
  <2>1. c = 0 /\ ClearNext => hist' = [hist EXCEPT ![NextHist(c)] = NoKeys]
    BY DEF ClearNext
  <2>. QED BY <2>1 DEF DataTypes
<1>3. NextRow(c) => hist'[b] = IF c = 0 /\ Trivial(Row(c)) /\ b = NextFirst(c) THEN NoKeys ELSE hist[b]
  <2>1. NextRow(c) => hist' = IF Trivial(Row(c)) /\ c = 0 THEN [hist EXCEPT ![NextFirst(c)] = NoKeys] ELSE hist
    BY DEF NextRow, Takes, ClearedBySkip
  <2>. QED BY <2>1 DEF DataTypes
<1>4. Reset(c) => hist'[b] = NoKeys
  BY DEF Reset
<1>5. Read(c) \/ Select(c) => hist' = hist
  BY DEF Read, Select, shared
<1>. QED BY <1>1, <1>2, <1>3, <1>4, <1>5

LEMMA RowOf ==
  ASSUME ControlInv, NEW c \in CTA, Aim(c) \in OfRow
  PROVE  /\ Row(c) = rows[it[c] + 1] /\ Row(c) \in Rows /\ ~Trivial(Row(c))
         /\ kernel.rounds \in Rounds /\ Rounds # {}
<1>1. it[c] \in Nat /\ it[c] < Len(rows) /\ ~Trivial(rows[it[c] + 1])
  BY Seat
<1>2. rows \in Seq(Rows) /\ Len(rows) \in Nat /\ it[c] + 1 \in 1 .. Len(rows)
  BY <1>1 DEF ControlInv, ControlTypes
<1>3. rows[it[c] + 1] \in Rows
  BY <1>2
<1>. QED BY <1>1, <1>3, Rounds24, KernelAssumption DEF Row, ControlInv

LEMMA FoldSum ==
  ASSUME ControlInv, NEW c \in CTA, Fold(c), FoundInv(c), NEW i, NEW k, i = it[c], k = rnd[c]
  PROVE  Partial(i, k)' = Added(Partial(i, k), Histogram(Row(c)[c], found[c].prefix, DigitsLeft(c)))
<1>1. Aim(c) \in OfRow /\ Aim(c) \in OfRound
  BY Turns DEF OfRow, OfRound
<1>2. found[c] = TrueFound(Row(c), kernel.rounds - rnd[c])
  BY <1>1 DEF FoundInv
<1>3. found[c].prefix = Sought(rows[i + 1], kernel.rounds - k) /\ DigitsLeft(c) = kernel.rounds - k
  BY <1>2 DEF TrueFound, DigitsLeft, Row
<1>4. rows[i + 1] = Row(c) /\ Row(c) \in Rows
  BY <1>1, RowOf
<1>5. Folders(i, k) \in SUBSET CTA /\ c \in CTA \ Folders(i, k) /\ Folders(i, k)' = Folders(i, k) \cup {c}
  BY FoldAdds DEF Folders
<1>6. kernel' = kernel /\ rows' = rows
  BY StepPath DEF ControlInv, CtaStep, Alone
<1>7. Partial(i, k)' = Histogram(KeysOf(Row(c), Folders(i, k) \cup {c}), found[c].prefix, DigitsLeft(c))
  BY <1>3, <1>4, <1>5, <1>6 DEF Partial
<1>8. Partial(i, k) = Histogram(KeysOf(Row(c), Folders(i, k)), found[c].prefix, DigitsLeft(c))
  BY <1>3, <1>4 DEF Partial
<1>. QED BY <1>4, <1>5, <1>7, <1>8, HistogramAdds

LEMMA NothingFolded ==
  ASSUME NEW i, NEW k, Folders(i, k) = {}
  PROVE  Partial(i, k) = NoKeys
BY HistogramOfNone DEF Partial

(* A row is not behind a CTA while another is in a round of it.              *)
LEMMA RowHeld ==
  ASSUME ControlInv, NEW c \in CTA, NEW d \in CTA, InRound(d),
         pc[c] \notin InBarrier, Stage(c) = PerRow
  PROVE  it[c] # it[d]
<1>1. /\ Due(c) = Gates[it[c]] + PerRow /\ phase[c] = Due(c) /\ Gates[it[c]] \in Nat
      /\ rnd[d] \in Nat /\ rnd[d] < kernel.rounds
  BY Seat
<1>2. phase[c] <= Due(d)
  BY Near
<1>3. \/ Due(d) = Gates[it[d]] + rnd[d] + 1
      \/ Due(d) = Gates[it[d]] + rnd[d] + 2
  BY InRoundSeat
<1>4. kernel.rounds \in {2, 4} /\ PerRow \in Nat /\ PerRow >= kernel.rounds + 2
  BY Rounds24 DEF ControlInv
<1>. QED BY <1>1, <1>2, <1>3, <1>4

LEMMA RoundStepOther ==
  ASSUME ControlInv, DataInv, NEW c \in CTA, CtaStep(c), NEW d \in CTA \ {c}
  PROVE  RoundInv(d)'
<1>. DataTypes /\ RoundInv(d) /\ FoundInv(c) /\ ControlTypes /\ Alone(c)
  BY StepPath DEF DataInv, ControlInv
<1>0. pc'[d] = pc[d] /\ then'[d] = then[d] /\ it'[d] = it[d] /\ rnd'[d] = rnd[d] /\ kernel' = kernel
  BY DEF Alone
<1>1. SUFFICES ASSUME InRound(d) PROVE hist'[CurHist(d)] = Partial(it[d], rnd[d])'
  BY <1>0 DEF RoundInv, InRound, CurHist, GlobalRound
<1>. PICK i \in Nat, k \in Nat : i = it[d] /\ k = rnd[d]
  BY Seat
<1>2. k < kernel.rounds /\ CurHist(d) = Buf(i, k) /\ Buf(i, k) \in Buffer /\ hist[Buf(i, k)] = Partial(i, k)
  BY <1>1, Seat, HistOf DEF RoundInv
<1>3. SUFFICES hist'[Buf(i, k)] = Partial(i, k)'
  BY <1>0, <1>2
<1>4. CASE Fold(c)
  <2>1. it[c] = i /\ rnd[c] \in {k, k + 1} /\ CurHist(c) = Buf(it[c], rnd[c])
    BY <1>1, <1>4, RoundMates, HistOf DEF Fold
  <2>2. CASE rnd[c] = k
    <3>1. hist'[Buf(i, k)] = Added(Partial(i, k), Histogram(Row(c)[c], found[c].prefix, DigitsLeft(c)))
      BY <1>2, <1>4, <2>1, <2>2, HistMoves
    <3>. QED BY <1>4, <2>1, <2>2, <3>1, FoldSum
  <2>3. CASE rnd[c] = k + 1
    <3>1. hist'[Buf(i, k)] = Partial(i, k)
      BY <1>2, <1>4, <2>1, <2>3, HistMoves, Bufs
    <3>2. Partial(i, k)' = Partial(i, k)
      <4>1. ~Quiet(c)
        BY <1>4, Turns DEF Quiet, AfterRounds
      <4>. QED BY <1>2, <1>4, <2>1, <2>3, <4>1, FoldsKept
    <3>. QED BY <3>1, <3>2
  <2>. QED BY <2>1, <2>2, <2>3
<1>5. CASE ~Fold(c)
  <2>1. Quiet(c) => it'[c] = it[c] \/ it[c] # i
    BY <1>1, RowHeld DEF Quiet
  <2>2. Partial(i, k)' = Partial(i, k)
    BY <1>2, <1>5, <2>1, FoldsKept
  <2>3. hist'[Buf(i, k)] = hist[Buf(i, k)]
    <3>1. ~NextRow(c) /\ ~Reset(c)
      BY <1>1, NoneAtHead DEF NextRow, Takes, Reset
    <3>2. CASE c = 0 /\ ClearNext
      <4>1. it[c] = i /\ rnd[c] \in {k, k + 1} /\ NextHist(c) = Buf(it[c], rnd[c] + 1)
        BY <1>1, <3>2, RoundMates, HistOf DEF ClearNext
      <4>2. Buf(i, k + 1) # Buf(i, k) /\ Buf(i, k + 2) # Buf(i, k)
        BY Bufs
      <4>3. (k + 1) + 1 = k + 2
        OBVIOUS
      <4>4. NextHist(c) # Buf(i, k)
        BY <4>1, <4>2, <4>3
      <4>. QED BY <1>2, <3>2, <4>4, HistMoves
    <3>3. CASE Read(c) \/ Select(c)
      BY <1>2, <3>3, HistMoves
    <3>4. CASE Quiet(c)
      BY <3>4 DEF Quiet
    <3>. QED BY <1>5, <3>1, <3>2, <3>3, <3>4, Moves
  <2>. QED BY <1>2, <2>2, <2>3
<1>. QED BY <1>4, <1>5

LEMMA RoundStepOwn ==
  ASSUME ControlInv, DataInv, NEW c \in CTA, CtaStep(c)
  PROVE  RoundInv(c)'
<1>. DataTypes /\ RoundInv(c) /\ FoundInv(c) /\ NextInv /\ RoundInv(0) /\ ControlTypes /\ Alone(c) /\ PathInv(c)
  BY Group, StepPath DEF DataInv, ControlInv
<1>0. kernel' = kernel /\ 0 \in CTA /\ kernel.rounds \in {2, 4}
  BY Group, Rounds24 DEF Alone
<1>. PICK i \in Nat, k \in Nat : i = it[c] /\ k = rnd[c]
  BY Seat
<1>1. k < kernel.rounds /\ CurHist(c) = Buf(i, k) /\ Buf(i, k) \in Buffer
      /\ (InRound(c) => hist[Buf(i, k)] = Partial(i, k))
  BY Seat, HistOf DEF RoundInv
<1>2. ASSUME NEW j \in Nat, NEW n \in Nat, it'[c] = j, rnd'[c] = n, hist'[Buf(j, n)] = Partial(j, n)'
      PROVE  RoundInv(c)'
  <2>1. CurHist(c)' = Buf(j, n)
    BY <1>0, <1>2 DEF CurHist, GlobalRound, Buf
  <2>. QED BY <1>2, <2>1 DEF RoundInv
<1>3. CASE NextRow(c)
  <2>1. pc'[c] = "row" \/ (pc'[c] = "arrive" /\ Aim(c)' \in {"zero", "fold"})
    BY <1>3, Turns
  <2>2. ~InRound(c)'
    BY <2>1 DEF InRound, Aim, InBarrier
  <2>. QED BY <2>2 DEF RoundInv
<1>4. CASE Fold(c)
  <2>1. InRound(c) /\ it'[c] = i /\ rnd'[c] = k
    BY <1>4, Turns DEF InRound, Fold
  <2>2. hist'[Buf(i, k)] = Added(Partial(i, k), Histogram(Row(c)[c], found[c].prefix, DigitsLeft(c)))
    BY <1>1, <1>4, <2>1, HistMoves
  <2>3. hist'[Buf(i, k)] = Partial(i, k)'
    BY <1>4, <2>2, FoldSum
  <2>. QED BY <1>2, <2>1, <2>3
<1>5. CASE Read(c) \/ Reset(c)
  <2>1. pc'[c] \in {"select", "release"}
    BY <1>5, Turns
  <2>2. ~InRound(c)'
    BY <2>1 DEF InRound, InBarrier
  <2>. QED BY <2>2 DEF RoundInv
<1>6. CASE Select(c)
  <2>1. pc[c] = "select" /\ it'[c] = i /\ Aim(c) = "select" /\ ~Fold(c) /\ ~Quiet(c)
    BY <1>6, Turns DEF Select, Fold, Quiet
  <2>2. CASE k + 1 < kernel.rounds
    <3>1. rnd'[c] = k + 1 /\ k + 1 \in Nat
      BY <1>6, <2>2, Turns
    <3>2. Due(c) = Gates[i] + (k + 1) + 1 /\ phase[c] = Due(c) /\ Gates[i] \in Nat
      <4>1. Stage(c) = k + 2 /\ Due(c) = Gates[i] + Stage(c) /\ Gates[i] \in Nat
        BY <2>1, StageOf, Seat
      <4>2. pc[c] \notin InBarrier
        BY <2>1 DEF InBarrier
      <4>3. phase[c] = Due(c)
        BY <4>2, Seat
      <4>. QED BY <4>1, <4>3
    <3>3. phase[c] <= Due(0) /\ phase[0] <= Due(c)
      BY <1>0, Near
    <3>4. hist[Buf(i, k + 1)] = Partial(i, k + 1)
      <4>1. Aim(c) \in OfRow
        BY <2>1 DEF OfRow
      <4>. QED BY <2>2, <3>1, <3>2, <3>3, <4>1, Opening
    <3>5. Partial(i, k + 1)' = Partial(i, k + 1)
      BY <2>1, <2>2, <3>1, FoldsKept
    <3>6. hist' = hist
      BY <1>1, <1>6, HistMoves
    <3>. QED BY <1>2, <2>1, <3>1, <3>4, <3>5, <3>6
  <2>3. CASE ~(k + 1 < kernel.rounds)
    <3>1. pc'[c] \in {"publish", "claim"}
      BY <1>6, <2>3, Turns
    <3>2. ~InRound(c)'
      BY <3>1 DEF InRound, InBarrier
    <3>. QED BY <3>2 DEF RoundInv
  <2>. QED BY <2>2, <2>3
<1>7. CASE c = 0 /\ ClearNext
  <2>1. InRound(c) /\ it'[c] = i /\ rnd'[c] = k /\ ~Fold(c)
    BY <1>7, Turns DEF InRound, ClearNext, Fold
  <2>2. NextHist(c) = Buf(i, k + 1) /\ Buf(i, k + 1) # Buf(i, k)
    BY HistOf, Bufs
  <2>3. hist'[Buf(i, k)] = Partial(i, k)
    BY <1>1, <1>7, <2>1, <2>2, HistMoves
  <2>4. Partial(i, k)' = Partial(i, k)
    BY <1>1, <2>1, FoldsKept
  <2>. QED BY <1>2, <2>1, <2>3, <2>4
<1>8. CASE Quiet(c)
  <2>1. ~Fold(c) /\ hist' = hist /\ rnd'[c] = k
    BY <1>8, Turns DEF Quiet, AfterRounds
  <2>2. CASE Aim(c)' \notin OfRound
    <3>1. ~InRound(c)'
      BY <2>2 DEF InRound, Aim, InBarrier, OfRound
    <3>. QED BY <3>1 DEF RoundInv
  <2>3. CASE it'[c] = i /\ InRound(c)
    <3>1. Partial(i, k)' = Partial(i, k)
      BY <1>1, <2>1, <2>3, FoldsKept
    <3>. QED BY <1>1, <1>2, <2>1, <2>3, <3>1
  <2>4. CASE it'[c] = i /\ ~InRound(c) /\ InRound(c)' /\ Aim(c) \in {"zero", "fold"} /\ k = 0
    <3>1. Due(0) >= Gates[i] + 0 + 1 /\ phase[0] <= Gates[i] + 0 + 1
      <4>1. Stage(c) = 1 /\ Due(c) = Gates[i] + 1 /\ Gates[i] \in Nat /\ phase[0] <= Due(c)
        <5>1. Stage(c) = 1
          <6>1. Aim(c) = "fold" => Stage(c) = rnd[c] + 1
            BY StageOf
          <6>2. Aim(c) = "zero" => Stage(c) = 1
            BY StageOf
          <6>. QED BY <2>4, <6>1, <6>2
        <5>. QED BY <1>0, <5>1, Seat, Near
      <4>2. CASE pc[c] \in InBarrier
        <5>1. Leave(c)
          <6>1. pc'[c] \notin InBarrier
            <7>1. Aim(c)' = "fold" \/ Aim(c)' = "zero"
              BY <1>8, <2>4 DEF Quiet, AfterRounds
            <7>. QED BY <2>4, <7>1 DEF InRound, Aim, InBarrier
          <6>2. ~Arrive(c)
            BY <6>1, Goes, Spots DEF Arrive, InBarrier
          <6>3. \A p \in InBarrier : p \notin {"row", "zero", "fold", "clear", "read", "select", "claim", "emit",
                                              "eq", "publish", "place", "gather", "reset", "release"}
            BY DEF InBarrier
          <6>. QED BY <4>2, <6>2, <6>3 DEF CtaStep, NextRow, Takes, Fold, Read, Select, Claim, Emit, Emits, CollectEq,
                      Publish, Place, Gather, Exit, Reset, Release, ZeroOutput, ClearNext
        <5>2. phase[c] + 1 <= Arrivals[0] /\ phase[c] \in Nat
          BY <1>0, <5>1, LeaveCount, Seat DEF ControlInv
        <5>3. Due(c) = phase[c] + 1
          BY <4>2, Seat
        <5>4. CASE pc[0] \in Ended
          <6>1. Due(0) = phase[0] /\ phase[0] = Gates[Len(rows)] /\ Due(c) <= Gates[Len(rows)]
            BY <1>0, <5>4, Seat, DueBound DEF ControlInv, InBarrier, Ended
          <6>. QED BY <4>1, <6>1
        <5>5. CASE pc[0] \notin Ended
          <6>1. Arrivals[0] <= Due(0) /\ Arrivals[0] \in Nat /\ Due(0) \in Nat
            BY <1>0, <5>5, ArrivalFacts, Seat
          <6>. QED BY <4>1, <5>2, <5>3, <6>1
        <5>. QED BY <5>4, <5>5
      <4>3. CASE pc[c] \notin InBarrier
        <5>1. phase[c] = Due(c) /\ phase[c] <= Due(0)
          BY <1>0, <4>3, Seat, Near
        <5>. QED BY <4>1, <5>1
      <4>. QED BY <4>1, <4>2, <4>3
    <3>2. hist[Buf(i, 0)] = Partial(i, 0)
      <4>1. Aim(c) \in OfRow
        BY <2>4 DEF OfRow
      <4>. QED BY <1>1, <2>4, <3>1, <4>1, Opening
    <3>3. Partial(i, 0)' = Partial(i, 0)
      BY <1>1, <2>1, <2>4, FoldsKept
    <3>. QED BY <1>2, <2>1, <2>4, <3>2, <3>3
  <2>5. CASE it'[c] = i /\ ~InRound(c) /\ InRound(c)'
    <3>1. \/ Aim(c)' = Aim(c) /\ Aim(c) \in OfRound
          \/ Aim(c) = "zero" /\ Aim(c)' = "fold"
      <4>1. Aim(c)' \in OfRound
        BY <2>5 DEF InRound, Aim, InBarrier, OfRound
      <4>. QED BY <1>8, <4>1 DEF Quiet, OfRound, AfterRounds, Ended
    <3>2. CASE Aim(c) = "zero"
      BY <2>4, <2>5, <3>2, StageOf
    <3>3. CASE Aim(c)' = Aim(c) /\ Aim(c) \in OfRound
      <4>1. Aim(c) = "fold" /\ pc[c] \in InBarrier
        <5>1. pc[c] # "select"
          BY <1>8 DEF Quiet
        <5>2. pc[c] \in InBarrier => Aim(c) \in {"zero", "fold", "read", "eq", "place", "gather"}
          BY StageOf
        <5>. QED BY <2>5, <3>3, <5>1, <5>2 DEF InRound, Aim, OfRound
      <4>2. rnd[c] = 0
        BY <4>1, StageOf
      <4>. QED BY <2>4, <2>5, <4>1, <4>2
    <3>. QED BY <3>1, <3>2, <3>3
  <2>6. CASE ~InRound(c)'
    BY <2>6 DEF RoundInv
  <2>7. it'[c] # i => Aim(c)' \notin OfRound
    BY <1>8 DEF Quiet, OfRound
  <2>. QED BY <2>2, <2>3, <2>5, <2>6, <2>7
<1>. QED BY <1>3, <1>4, <1>5, <1>6, <1>7, <1>8, Moves

----------------------------------------------------------------------------
(* The histogram CTA 0 cleared last.                                         *)
LEMMA ClearedType ==
  ASSUME ControlInv
  PROVE  \E i \in Nat, k \in Nat : k < kernel.rounds /\ Cleared = <<i, k>> /\ Buf(i, k) \in Buffer
<1>. 0 \in CTA /\ ControlTypes /\ kernel.rounds \in {2, 4}
  BY Group, Rounds24 DEF ControlInv
<1>1. it[0] \in Nat /\ rnd[0] \in Nat /\ rnd[0] < kernel.rounds
  BY Seat
<1>2. CASE Aim(0) \in AfterRounds \/ (Aim(0) \in {"read", "select"} /\ rnd[0] + 1 = kernel.rounds)
  <2>1. Cleared = <<it[0] + 1, 0>>
    BY <1>2 DEF Cleared
  <2>. QED BY <1>1, <2>1, Bufs
<1>3. CASE /\ Aim(0) \notin AfterRounds /\ Aim(0) \in {"read", "select"}
           /\ rnd[0] + 1 # kernel.rounds
  <2>1. Cleared = <<it[0], rnd[0] + 1>>
    BY <1>3 DEF Cleared
  <2>. QED BY <1>1, <1>3, <2>1, Bufs
<1>4. CASE Aim(0) \notin AfterRounds /\ Aim(0) \notin {"read", "select"}
  <2>1. Cleared = <<it[0], rnd[0]>>
    BY <1>4 DEF Cleared
  <2>. QED BY <1>1, <2>1, Bufs
<1>. QED BY <1>2, <1>3, <1>4

LEMMA NextIs ==
  ASSUME NEW i, NEW k, Cleared = <<i, k>>
  PROVE  NextInv <=> hist[Buf(i, k)] = Partial(i, k)
BY DEF NextInv, Buf

(* Once a row is behind a CTA, CTA 0 has cleared for a later one.            *)
LEMMA ClearedAhead ==
  ASSUME ControlInv, NEW c \in CTA, pc[c] \notin InBarrier, Stage(c) = PerRow, NEW i, NEW k, Cleared = <<i, k>>
  PROVE  it[c] # i
<1>. 0 \in CTA /\ ControlTypes
  BY Group DEF ControlInv
<1>1. /\ Due(c) = Gates[it[c]] + PerRow /\ phase[c] = Due(c) /\ Gates[it[c]] \in Nat /\ it[c] \in Nat
      /\ it[0] \in Nat /\ rnd[0] \in Nat /\ rnd[0] < kernel.rounds /\ Gates[it[0]] \in Nat
      /\ Due(0) = Gates[it[0]] + Stage(0) /\ Stage(0) \in Nat /\ Stage(0) <= PerRow
      /\ Aim(0) \in OfRow => ~Trivial(rows[it[0] + 1])
      /\ Aim(0) \notin OfRow => Stage(0) = 0
  BY Seat
<1>2. kernel.rounds \in {2, 4} /\ PerRow \in Nat /\ PerRow >= kernel.rounds + 2 /\ kernel \in Kernel
  BY Rounds24
<1>3. phase[c] <= Due(0)
  BY Near
<1>4. ~(it[0] < it[c])
  <2>1. it[0] < it[c] /\ Aim(0) \in OfRow => Gates[it[0]] + PerRow <= Gates[it[c]]
    BY <1>1, <1>2, GateFacts
  <2>2. it[0] < it[c] => Gates[it[0]] <= Gates[it[c]]
    BY <1>1, <1>2, GateFacts
  <2>. QED BY <1>1, <1>2, <1>3, <2>1, <2>2
<1>5. it[0] = it[c] => Aim(0) \in AfterRounds
  <2>1. SUFFICES ASSUME it[0] = it[c] PROVE Aim(0) \in AfterRounds
    OBVIOUS
  <2>2. Stage(0) = PerRow
    BY <1>1, <1>2, <1>3, <2>1
  <2>3. Aim(0) \in OfRow
    BY <1>1, <1>2, <2>2
  <2>4. Aim(0) \notin {"zero", "fold", "clear", "read", "select"}
    <3>1. Aim(0) \in {"fold", "clear"} => Stage(0) = rnd[0] + 1
      BY StageOf
    <3>2. Aim(0) \in {"read", "select"} => Stage(0) = rnd[0] + 2
      BY StageOf
    <3>3. Aim(0) = "zero" => Stage(0) = 1
      BY StageOf
    <3>. QED BY <1>1, <1>2, <2>2, <3>1, <3>2, <3>3
  <2>. QED BY <2>3, <2>4, StageOf
<1>6. i \in {it[0], it[0] + 1} /\ (Aim(0) \in AfterRounds => i = it[0] + 1)
  BY DEF Cleared
<1>. QED BY <1>1, <1>4, <1>5, <1>6

LEMMA NextStepOther ==
  ASSUME ControlInv, DataInv, NEW c \in CTA, CtaStep(c), c # 0
  PROVE  NextInv'
<1>. DataTypes /\ FoundInv(c) /\ NextInv /\ ControlTypes /\ Alone(c) /\ PathInv(c) /\ CountInv
  BY StepPath DEF DataInv, ControlInv
<1>0. 0 \in CTA /\ 0 \in CTA \ {c} /\ kernel.rounds \in {2, 4}
  BY Group, Rounds24
<1>1. Cleared' = Cleared
  <2>1. Aim(0)' = Aim(0) /\ it'[0] = it[0] /\ rnd'[0] = rnd[0] /\ kernel' = kernel
    BY <1>0 DEF Alone, Aim
  <2>. QED BY <2>1 DEF Cleared
<1>2. PICK i \in Nat, k \in Nat : k < kernel.rounds /\ Cleared = <<i, k>> /\ Buf(i, k) \in Buffer
  BY ClearedType
<1>3. hist[Buf(i, k)] = Partial(i, k)
  BY <1>2, NextIs
<1>4. SUFFICES hist'[Buf(i, k)] = Partial(i, k)'
  <2>1. kernel' = kernel
    BY DEF Alone
  <2>2. Cleared' = <<i, k>> /\ hist'[Buf(i, k)] = Partial(i, k)' => NextInv'
    BY <2>1 DEF NextInv, Buf
  <2>. QED BY <1>1, <1>2, <1>4, <2>2
<1>5. CASE Fold(c)
  <2>. PICK j \in Nat, n \in Nat : j = it[c] /\ n = rnd[c]
    BY Seat
  <2>1. CurHist(c) = Buf(j, n) /\ ~Quiet(c) /\ Buf(j, n) \in Buffer
    BY <1>5, HistOf, Turns DEF Quiet, AfterRounds
  <2>2. \/ i = j /\ k = n
        \/ i = j /\ k = n + 1
        \/ i = j + 1 /\ k = 0 /\ n + 1 = kernel.rounds
    BY <1>2, <1>5, FoldersRound DEF Fold
  <2>3. CASE i = j /\ k = n
    <3>1. hist'[Buf(i, k)] = Added(Partial(i, k), Histogram(Row(c)[c], found[c].prefix, DigitsLeft(c)))
      BY <1>2, <1>3, <1>5, <2>1, <2>3, HistMoves
    <3>. QED BY <1>5, <2>3, <3>1, FoldSum
  <2>4. CASE ~(i = j /\ k = n)
    <3>1. Buf(i, k) # Buf(j, n)
      <4>1. CASE i = j /\ k = n + 1
        BY <4>1, Bufs
      <4>2. CASE i = j + 1 /\ k = 0 /\ n + 1 = kernel.rounds
        <5>1. Buf(j + 1, 0) = Buf(j, n + 1) /\ Buf(j, n + 1) # Buf(j, n)
          BY <4>2, Bufs
        <5>. QED BY <4>2, <5>1
      <4>. QED BY <2>2, <2>4, <4>1, <4>2
    <3>2. hist'[Buf(i, k)] = hist[Buf(i, k)]
      BY <1>2, <1>5, <2>1, <3>1, HistMoves
    <3>3. Partial(i, k)' = Partial(i, k)
      BY <1>2, <2>1, <2>4, FoldsKept
    <3>. QED BY <1>3, <3>2, <3>3
  <2>. QED BY <2>3, <2>4
<1>6. CASE Reset(c)
  <2>1. pc[0] = "done" /\ Aim(0) = "done"
    BY <1>0, <1>6 DEF CountInv, Reset, Aim, InBarrier
  <2>2. i = it[0] /\ it[0] = Len(rows)
    <3>1. PathInv(0)
      BY <1>0 DEF ControlInv
    <3>. QED BY <1>2, <2>1, <3>1 DEF Cleared, AfterRounds, PathInv, Ended
  <2>3. Folders(i, k) = {}
    <3>1. \A d \in CTA : ~FoldedIn(d, i, k)
      <4>. SUFFICES ASSUME NEW d \in CTA, FoldedIn(d, i, k) PROVE FALSE
        OBVIOUS
      <4>1. Aim(d) \in OfRow /\ it[d] = i
        BY <1>2, FoldedStage
      <4>2. it[d] < Len(rows) /\ it[d] \in Nat
        BY <4>1, Seat
      <4>. QED BY <2>2, <4>1, <4>2
    <3>. QED BY <3>1 DEF Folders
  <2>4. ~Fold(c) /\ ~Quiet(c)
    BY <1>6, Turns DEF Reset, Fold, Quiet, AfterRounds
  <2>5. Partial(i, k)' = Partial(i, k)
    BY <1>2, <2>4, FoldsKept
  <2>6. hist'[Buf(i, k)] = NoKeys
    BY <1>2, <1>6, HistMoves
  <2>. QED BY <2>3, <2>5, <2>6, NothingFolded
<1>7. CASE ~Fold(c) /\ ~Reset(c)
  <2>1. hist'[Buf(i, k)] = hist[Buf(i, k)]
    <3>1. CASE NextRow(c)
      BY <1>2, <3>1, HistMoves
    <3>2. CASE Read(c) \/ Select(c)
      BY <1>2, <3>2, HistMoves
    <3>3. CASE Quiet(c)
      BY <3>3 DEF Quiet
    <3>. QED BY <1>7, <3>1, <3>2, <3>3, Moves
  <2>2. Quiet(c) => it'[c] = it[c] \/ it[c] # i
    BY <1>2, ClearedAhead DEF Quiet
  <2>3. Partial(i, k)' = Partial(i, k)
    BY <1>2, <1>7, <2>2, FoldsKept
  <2>. QED BY <1>3, <2>1, <2>3
<1>. QED BY <1>5, <1>6, <1>7

LEMMA NextStepZero ==
  ASSUME ControlInv, DataInv, CtaStep(0)
  PROVE  NextInv'
<1>. 0 \in CTA
  BY Group
<1>. DataTypes /\ FoundInv(0) /\ NextInv /\ ControlTypes /\ Alone(0) /\ PathInv(0) /\ CountInv
  BY StepPath DEF DataInv, ControlInv
<1>0. kernel.rounds \in {2, 4} /\ kernel' = kernel
  BY Rounds24 DEF Alone
<1>. PICK i \in Nat, k \in Nat : i = it[0] /\ k = rnd[0]
  BY Seat
<1>1. k < kernel.rounds /\ Buf(i, k) \in Buffer /\ CurHist(0) = Buf(i, k)
  BY Seat, HistOf
<1>2. ASSUME NEW j \in Nat, NEW n \in Nat, Cleared' = <<j, n>>, hist'[Buf(j, n)] = Partial(j, n)'
      PROVE  NextInv'
  <2>1. Cleared' = <<j, n>> /\ hist'[Buf(j, n)] = Partial(j, n)' => NextInv'
    BY <1>0 DEF NextInv, Buf
  <2>. QED BY <1>2, <2>1
(* A step that leaves that histogram, and who has folded into it.            *)
<1>3. ASSUME ~Fold(0), Cleared' = Cleared, hist' = hist,
             \A j, n : Cleared = <<j, n>> /\ Quiet(0) => it'[0] = it[0] \/ it[0] # j
      PROVE  NextInv'
  <2>1. PICK j \in Nat, n \in Nat : n < kernel.rounds /\ Cleared = <<j, n>> /\ Buf(j, n) \in Buffer
    BY ClearedType
  <2>2. hist[Buf(j, n)] = Partial(j, n)
    BY <2>1, NextIs
  <2>3. Partial(j, n)' = Partial(j, n)
    BY <1>3, <2>1, FoldsKept
  <2>. QED BY <1>2, <1>3, <2>1, <2>2, <2>3
<1>4. CASE NextRow(0)
  <2>2. CASE Trivial(Row(0))
    <3>1. it'[0] = i + 1 /\ Aim(0)' = "row" /\ rnd'[0] = 0
      BY <1>4, <2>2, Turns
    <3>2. Cleared' = <<i + 1, 0>> /\ i + 1 \in Nat /\ NextFirst(0) = Buf(i + 1, 0) /\ Buf(i + 1, 0) \in Buffer
      BY <3>1, HistOf, Bufs DEF Cleared, AfterRounds
    <3>3. hist'[Buf(i + 1, 0)] = NoKeys
      BY <1>4, <2>2, <3>2, HistMoves
    <3>4. Folders(i + 1, 0) = {}
      BY <1>4, <2>2, NoneFolded DEF NextRow, Takes, Row
    <3>5. Partial(i + 1, 0)' = Partial(i + 1, 0)
      <4>1. ~Fold(0) /\ it[0] # i + 1
        BY <1>4, Turns
      <4>. QED BY <1>0, <3>2, <4>1, FoldsKept
    <3>. QED BY <1>2, <3>2, <3>3, <3>4, <3>5, NothingFolded
  <2>3. CASE ~Trivial(Row(0))
    <3>1. Aim(0)' \in {"zero", "fold"} /\ it'[0] = it[0] /\ rnd'[0] = 0 /\ Aim(0) = "row"
      BY <1>4, <2>3, Turns
    <3>2. rnd[0] = 0
      BY <3>1 DEF PathInv, OfRound
    <3>3. Cleared' = Cleared
      BY <3>1, <3>2 DEF Cleared, AfterRounds
    <3>4. hist' = hist
      BY <1>4, <2>3 DEF NextRow, Takes
    <3>5. ~Fold(0)
      BY <3>1, Turns
    <3>. QED BY <1>3, <3>1, <3>3, <3>4, <3>5
  <2>. QED BY <2>2, <2>3
<1>5. CASE Fold(0)
  <2>1. Aim(0) = "fold" /\ Aim(0)' = "clear" /\ it'[0] = it[0] /\ rnd'[0] = rnd[0]
    BY <1>5, Turns
  <2>2. Cleared = <<i, k>> /\ Cleared' = <<i, k>>
    BY <2>1 DEF Cleared, AfterRounds
  <2>3. hist[Buf(i, k)] = Partial(i, k)
    BY <2>2, NextIs
  <2>4. hist'[Buf(i, k)] = Added(Partial(i, k), Histogram(Row(0)[0], found[0].prefix, DigitsLeft(0)))
    BY <1>1, <1>5, <2>3, HistMoves
  <2>5. hist'[Buf(i, k)] = Partial(i, k)'
    BY <1>5, <2>4, FoldSum
  <2>. QED BY <1>2, <2>2, <2>5
<1>6. CASE ClearNext
  <2>1. pc[0] = "clear" /\ Aim(0)' = "read" /\ it'[0] = it[0] /\ rnd'[0] = rnd[0] /\ ~Fold(0) /\ ~Quiet(0)
    BY <1>6, Turns DEF ClearNext, Fold, Quiet, AfterRounds
  <2>2. NextHist(0) = Buf(i, k + 1)
    BY HistOf
  <2>3. CASE k + 1 < kernel.rounds
    <3>1. Cleared' = <<i, k + 1>> /\ k + 1 \in Nat /\ Buf(i, k + 1) \in Buffer
      BY <1>0, <2>1, <2>3, Bufs DEF Cleared, AfterRounds
    <3>2. hist'[Buf(i, k + 1)] = NoKeys
      BY <1>6, <2>2, <3>1, HistMoves
    <3>3. Folders(i, k + 1) = {}
      BY <2>1, <2>3, NoneFolded
    <3>4. Partial(i, k + 1)' = Partial(i, k + 1)
      BY <2>1, <2>3, <3>1, FoldsKept
    <3>. QED BY <1>2, <3>1, <3>2, <3>3, <3>4, NothingFolded
  <2>4. CASE k + 1 = kernel.rounds
    <3>1. Cleared' = <<i + 1, 0>> /\ i + 1 \in Nat /\ Buf(i + 1, 0) \in Buffer /\ Buf(i + 1, 0) = Buf(i, k + 1)
      BY <1>0, <2>1, <2>4, Bufs DEF Cleared, AfterRounds
    <3>2. hist'[Buf(i + 1, 0)] = NoKeys
      BY <1>6, <2>2, <3>1, HistMoves
    <3>3. Folders(i + 1, 0) = {}
      BY <2>1, NoneFolded
    <3>4. Partial(i + 1, 0)' = Partial(i + 1, 0)
      BY <1>0, <2>1, <3>1, FoldsKept
    <3>. QED BY <1>2, <3>1, <3>2, <3>3, <3>4, NothingFolded
  <2>. QED BY <1>0, <1>1, <2>3, <2>4
<1>7. CASE Read(0)
  <2>1. Aim(0) = "read" /\ Aim(0)' = "select" /\ it'[0] = it[0] /\ rnd'[0] = rnd[0]
    BY <1>7, Turns
  <2>2. Cleared' = Cleared
    BY <1>0, <2>1 DEF Cleared, AfterRounds
  <2>3. ~Fold(0)
    BY <2>1, Turns
  <2>. QED BY <1>1, <1>3, <1>7, <2>1, <2>2, <2>3, HistMoves
<1>8. CASE Select(0)
  <2>1. /\ Aim(0) = "select" /\ it'[0] = it[0]
        /\ \/ rnd[0] + 1 < kernel.rounds /\ rnd'[0] = rnd[0] + 1 /\ Aim(0)' = "fold"
           \/ rnd[0] + 1 = kernel.rounds /\ Aim(0)' \in {"publish", "claim"}
    BY <1>8, Turns
  <2>2. Cleared' = Cleared
    BY <1>0, <2>1 DEF Cleared, AfterRounds
  <2>3. ~Fold(0)
    BY <2>1, Turns
  <2>. QED BY <1>1, <1>3, <1>8, <2>1, <2>2, <2>3, HistMoves
<1>9. CASE Reset(0)
  <2>1. Aim(0) = "reset" /\ Aim(0)' = "release" /\ it'[0] = it[0] /\ rnd'[0] = rnd[0] /\ pc[0] = "reset"
    BY <1>9, Turns DEF Reset
  <2>2. Cleared' = <<i, k>> /\ i = Len(rows)
    BY <2>1 DEF Cleared, AfterRounds, PathInv, Ended
  <2>3. Folders(i, k) = {}
    <3>1. \A d \in CTA : ~FoldedIn(d, i, k)
      <4>. SUFFICES ASSUME NEW d \in CTA, FoldedIn(d, i, k) PROVE FALSE
        OBVIOUS
      <4>1. Aim(d) \in OfRow /\ it[d] = i
        BY <1>1, FoldedStage
      <4>2. it[d] < Len(rows) /\ it[d] \in Nat
        BY <4>1, Seat
      <4>. QED BY <2>2, <4>1, <4>2
    <3>. QED BY <3>1 DEF Folders
  <2>4. ~Fold(0)
    BY <2>1, Turns
  <2>5. Partial(i, k)' = Partial(i, k)
    BY <1>1, <2>1, <2>4, FoldsKept
  <2>6. hist'[Buf(i, k)] = NoKeys
    BY <1>1, <1>9, HistMoves
  <2>. QED BY <1>2, <2>2, <2>3, <2>5, <2>6, NothingFolded
<1>10. CASE Quiet(0)
  <2>1. ~Fold(0) /\ hist' = hist /\ rnd'[0] = rnd[0]
    BY <1>10, Turns DEF Quiet, AfterRounds
  <2>2. Aim(0) \in AfterRounds => rnd[0] = 0
    BY DEF PathInv, AfterRounds, OfRound
  <2>3. Cleared' = Cleared
    BY <1>0, <1>10, <2>2 DEF Cleared, Quiet, AfterRounds, Ended
  <2>4. \A j, n : Cleared = <<j, n>> => it'[0] = it[0] \/ it[0] # j
    BY <1>10, ClearedAhead DEF Quiet
  <2>. QED BY <1>3, <2>1, <2>3, <2>4
<1>. QED BY <1>4, <1>5, <1>6, <1>7, <1>8, <1>9, <1>10, Moves

----------------------------------------------------------------------------
(* What a CTA has found of the pivot.                                        *)
LEMMA FirstFound ==
  ASSUME NEW row \in Rows, ~Trivial(row), NEW n \in Rounds
  PROVE  TrueFound(row, n) = [prefix |-> 0, wanted |-> K]
<1>. DEFINE D == DOMAIN Keys(row)
<1>1. n \in Nat \ {0} /\ Rounds # {} /\ K \in Nat
  BY KernelAssumption
<1>2. /\ Keys(row) \in [D -> Nat] /\ \A x \in D : Keys(row)[x] < Unit(n + 1)
  BY RowKeys
<1>3. Pivot(row) \in Nat /\ Pivot(row) < Unit(n + 1)
  BY <1>1, RowPivot
<1>4. Sought(row, n) = 0
  BY <1>1, <1>3, MaskedEnds DEF Sought
<1>5. \A x \in D : Masked(Keys(row)[x], n) = 0
  <2>. TAKE x \in D
  <2>1. Keys(row)[x] \in Nat /\ Keys(row)[x] < Unit(n + 1)
    BY <1>2
  <2>. QED BY <1>1, <2>1, MaskedEnds
<1>6. Ahead(Keys(row), Pivot(row), n) = {}
  BY <1>4, <1>5 DEF Ahead, Sought
<1>7. Wanted(row, n) = K
  BY <1>1, <1>6, FS_EmptySet DEF Wanted
<1>. QED BY <1>4, <1>7 DEF TrueFound

LEMMA NextFound ==
  ASSUME NEW row \in Rows, ~Trivial(row), NEW n \in Nat \ {0},
         NEW t \in Threshold(Histogram(Keys(row), Sought(row, n), n), Wanted(row, n))
  PROVE  [prefix |-> Sought(row, n) + t.bucket * Unit(n), wanted |-> t.wanted] = TrueFound(row, n - 1)
<1>. DEFINE D == DOMAIN Keys(row)
<1>1. IsFiniteSet(D) /\ Keys(row) \in [D -> Nat] /\ K \in Nat \ {0} /\ Rounds # {}
  BY RowKeys, KernelAssumption
<1>2. IsKth(Keys(row), K, Pivot(row)) /\ Pivot(row) \in Nat
  BY <1>1, RowPivot
<1>3. Threshold(Histogram(Keys(row), Sought(row, n), n), Wanted(row, n))
        = {[bucket |-> Digit(Pivot(row), n), wanted |-> Wanted(row, n - 1)]}
  BY <1>1, <1>2, ThresholdFinds DEF Sought, Wanted
<1>4. t.bucket = Digit(Pivot(row), n) /\ t.wanted = Wanted(row, n - 1)
  BY <1>3
<1>5. Sought(row, n - 1) = Sought(row, n) + Digit(Pivot(row), n) * Unit(n)
  BY <1>2, MaskedDigits DEF Sought
<1>. QED BY <1>4, <1>5 DEF TrueFound

LEMMA FoundMoves ==
  ASSUME DataTypes, NEW c \in CTA
  PROVE  /\ NextRow(c) => /\ seen' = seen
                          /\ IF Trivial(Row(c)) THEN found' = found
                             ELSE found' = [found EXCEPT ![c] = [prefix |-> 0, wanted |-> K]]
         /\ Fold(c) \/ ClearNext \/ Reset(c) => found' = found /\ seen' = seen
         /\ Read(c) => found' = found /\ seen' = [seen EXCEPT ![c] = hist[CurHist(c)]]
         /\ Select(c) => /\ seen' = [seen EXCEPT ![c] = NoKeys]
                         /\ \E t \in Threshold(seen[c], found[c].wanted) :
                               found' = [found EXCEPT ![c] =
                                          [prefix |-> found[c].prefix + t.bucket * Unit(DigitsLeft(c)),
                                           wanted |-> t.wanted]]
<1>1. NextRow(c) => /\ seen' = seen
                    /\ IF Trivial(Row(c)) THEN found' = found
                       ELSE found' = [found EXCEPT ![c] = [prefix |-> 0, wanted |-> K]]
  BY DEF NextRow, Takes
<1>2. Fold(c) \/ ClearNext \/ Reset(c) => found' = found /\ seen' = seen
  BY DEF Fold, ClearNext, Reset, local
<1>3. Read(c) => found' = found /\ seen' = [seen EXCEPT ![c] = hist[CurHist(c)]]
  BY DEF Read
<1>4. Select(c) => /\ seen' = [seen EXCEPT ![c] = NoKeys]
                   /\ \E t \in Threshold(seen[c], found[c].wanted) :
                         found' = [found EXCEPT ![c] =
                                    [prefix |-> found[c].prefix + t.bucket * Unit(DigitsLeft(c)),
                                     wanted |-> t.wanted]]
  BY DEF Select, DataTypes
<1>. QED BY <1>1, <1>2, <1>3, <1>4

LEMMA FoundStepOther ==
  ASSUME ControlInv, DataInv, NEW c \in CTA, CtaStep(c), NEW d \in CTA \ {c}
  PROVE  FoundInv(d)'
<1>. DataTypes /\ FoundInv(d) /\ ControlTypes /\ Alone(c)
  BY StepPath DEF DataInv, ControlInv
<1>1. found'[d] = found[d] /\ seen'[d] = seen[d]
  <2>1. CASE NextRow(c) \/ Fold(c) \/ (c = 0 /\ ClearNext) \/ Reset(c) \/ Read(c) \/ Select(c)
    BY <2>1, FoundMoves DEF DataTypes
  <2>2. CASE Quiet(c)
    BY <2>2 DEF Quiet
  <2>. QED BY <2>1, <2>2, Moves
<1>2. pc'[d] = pc[d] /\ Aim(d)' = Aim(d) /\ Row(d)' = Row(d) /\ rnd'[d] = rnd[d] /\ kernel' = kernel
  BY DEF Alone, Aim, Row
<1>3. TrueFound(Row(d), 0)' = TrueFound(Row(d), 0)
      /\ TrueFound(Row(d), kernel.rounds - rnd[d])' = TrueFound(Row(d), kernel.rounds - rnd[d])
  BY <1>2 DEF TrueFound, Sought, Wanted
<1>. QED BY <1>1, <1>2, <1>3 DEF FoundInv, DigitsLeft

LEMMA FoundStepOwn ==
  ASSUME ControlInv, DataInv, NEW c \in CTA, CtaStep(c)
  PROVE  FoundInv(c)'
<1>. DataTypes /\ RoundInv(c) /\ FoundInv(c) /\ ControlTypes /\ Alone(c) /\ PathInv(c)
  BY StepPath DEF DataInv, ControlInv
<1>0. kernel' = kernel /\ rows' = rows /\ kernel.rounds \in {2, 4} /\ rnd[c] \in Nat /\ rnd[c] < kernel.rounds
      /\ it[c] \in Nat /\ kernel.rounds \in Rounds
  BY Rounds24, Seat DEF Alone
<1>1. it'[c] = it[c] => Row(c)' = Row(c)
  BY <1>0 DEF Row
<1>2. ASSUME found'[c] = found[c], it'[c] = it[c], rnd'[c] = rnd[c], pc'[c] # "select",
             \/ Aim(c) \in OfRound \cup {"zero"} /\ Aim(c)' \in OfRound \cup {"zero"}
             \/ Aim(c) \in AfterRounds /\ Aim(c)' \in AfterRounds
             \/ Aim(c)' \notin OfRound \cup {"zero"} \cup AfterRounds
      PROVE  FoundInv(c)'
  <2>1. Row(c)' = Row(c)
    BY <1>1, <1>2
  <2>2. TrueFound(Row(c), 0)' = TrueFound(Row(c), 0)
        /\ TrueFound(Row(c), kernel.rounds - rnd[c])' = TrueFound(Row(c), kernel.rounds - rnd[c])
    BY <1>0, <1>2, <2>1 DEF TrueFound, Sought, Wanted
  <2>3. (Aim(c) \in AfterRounds => Aim(c) \notin OfRound \cup {"zero"})
        /\ (Aim(c)' \in AfterRounds => Aim(c)' \notin OfRound \cup {"zero"})
    BY DEF AfterRounds, OfRound
  <2>. QED BY <1>0, <1>2, <2>2, <2>3 DEF FoundInv
<1>3. ASSUME Aim(c)' \notin OfRound \cup {"zero"} \cup AfterRounds
      PROVE  FoundInv(c)'
  BY <1>3 DEF FoundInv, Aim, OfRound, InBarrier
<1>4. CASE NextRow(c)
  <2>1. CASE Trivial(Row(c))
    BY <1>3, <1>4, <2>1, Turns DEF OfRound, AfterRounds
  <2>2. CASE ~Trivial(Row(c))
    <3>1. Aim(c)' \in {"zero", "fold"} /\ it'[c] = it[c] /\ rnd'[c] = 0 /\ pc'[c] = "arrive"
      BY <1>4, <2>2, Turns
    <3>2. Row(c)' = Row(c) /\ Row(c) \in Rows
      <4>1. it[c] < Len(rows) /\ Len(rows) \in Nat /\ rows \in Seq(Rows)
        BY <1>4 DEF NextRow, Takes, ControlTypes
      <4>2. it[c] + 1 \in 1 .. Len(rows)
        BY <1>0, <4>1
      <4>. QED BY <1>1, <3>1, <4>1, <4>2 DEF Row
    <3>3. found'[c] = [prefix |-> 0, wanted |-> K]
      BY <1>4, <2>2, FoundMoves DEF DataTypes
    <3>4. found'[c] = TrueFound(Row(c), kernel.rounds)
      BY <1>0, <2>2, <3>2, <3>3, FirstFound
    <3>5. TrueFound(Row(c), kernel.rounds - rnd[c])' = TrueFound(Row(c), kernel.rounds)
      BY <1>0, <3>1, <3>2 DEF TrueFound, Sought, Wanted
    <3>. QED BY <3>1, <3>4, <3>5 DEF FoundInv, AfterRounds
  <2>. QED BY <2>1, <2>2
<1>5. CASE Fold(c) \/ (c = 0 /\ ClearNext)
  <2>1. found'[c] = found[c]
    BY <1>5, FoundMoves
  <2>. QED BY <1>2, <1>5, <2>1, Turns DEF OfRound
<1>6. CASE Reset(c)
  BY <1>3, <1>6, Turns DEF OfRound, AfterRounds
<1>7. CASE Read(c)
  <2>1. Aim(c) = "read" /\ Aim(c)' = "select" /\ it'[c] = it[c] /\ rnd'[c] = rnd[c] /\ pc[c] = "read"
    BY <1>7, Turns DEF Read
  <2>2. found'[c] = found[c] /\ seen'[c] = hist[CurHist(c)]
    BY <1>7, FoundMoves DEF DataTypes
  <2>3. found[c] = TrueFound(Row(c), kernel.rounds - rnd[c])
    BY <2>1 DEF FoundInv, OfRound
  <2>4. Row(c)' = Row(c) /\ Row(c) = rows[it[c] + 1] /\ Row(c) \in Rows
    BY <1>1, <2>1, RowOf DEF OfRow
  <2>5. hist[CurHist(c)] = Partial(it[c], rnd[c])
    BY <2>1 DEF RoundInv, InRound
  <2>6. Partial(it[c], rnd[c]) = Histogram(Keys(Row(c)), Sought(Row(c), kernel.rounds - rnd[c]), kernel.rounds - rnd[c])
    BY <2>1, <2>4, AllFolded, RowKeys DEF Partial
  <2>7. seen'[c] = Histogram(Keys(Row(c)), found[c].prefix, kernel.rounds - rnd[c])
    BY <2>2, <2>3, <2>5, <2>6 DEF TrueFound
  <2>8. Histogram(Keys(Row(c)), found[c].prefix, DigitsLeft(c))'
          = Histogram(Keys(Row(c)), found[c].prefix, kernel.rounds - rnd[c])
    BY <1>0, <2>1, <2>2, <2>4 DEF DigitsLeft
  <2>9. TrueFound(Row(c), kernel.rounds - rnd[c])' = TrueFound(Row(c), kernel.rounds - rnd[c])
    BY <1>0, <2>1, <2>4 DEF TrueFound, Sought, Wanted
  <2>. QED BY <2>1, <2>2, <2>3, <2>7, <2>8, <2>9 DEF FoundInv, AfterRounds
<1>8. CASE Select(c)
  <2>. DEFINE n == kernel.rounds - rnd[c]
  <2>1. Aim(c) = "select" /\ it'[c] = it[c] /\ pc[c] = "select"
    BY <1>8, Turns DEF Select
  <2>2. Row(c)' = Row(c) /\ Row(c) \in Rows /\ ~Trivial(Row(c))
    BY <1>1, <2>1, RowOf DEF OfRow
  <2>3. n \in Nat \ {0} /\ DigitsLeft(c) = n
    BY <1>0 DEF DigitsLeft
  <2>4. found[c] = TrueFound(Row(c), n)
    BY <2>1 DEF FoundInv, OfRound
  <2>5. found[c].prefix = Sought(Row(c), n) /\ found[c].wanted = Wanted(Row(c), n)
    BY <2>4 DEF TrueFound
  <2>6. seen[c] = Histogram(Keys(Row(c)), Sought(Row(c), n), n)
    BY <2>1, <2>3, <2>5 DEF FoundInv
  <2>7. found'[c] = TrueFound(Row(c), n - 1)
    <3>1. PICK t \in Threshold(seen[c], found[c].wanted) :
             found' = [found EXCEPT ![c] = [prefix |-> found[c].prefix + t.bucket * Unit(DigitsLeft(c)),
                                            wanted |-> t.wanted]]
      BY <1>8, FoundMoves
    <3>2. found'[c] = [prefix |-> Sought(Row(c), n) + t.bucket * Unit(n), wanted |-> t.wanted]
      <4>. HIDE DEF n
      <4>. QED BY <2>3, <2>5, <3>1 DEF DataTypes
    <3>3. t \in Threshold(Histogram(Keys(Row(c)), Sought(Row(c), n), n), Wanted(Row(c), n))
      BY <2>5, <2>6
    <3>. HIDE DEF n
    <3>. QED BY <2>2, <2>3, <3>2, <3>3, NextFound
  <2>8. CASE rnd[c] + 1 < kernel.rounds
    <3>1. rnd'[c] = rnd[c] + 1 /\ pc'[c] = "fold" /\ Aim(c)' = "fold"
      BY <1>0, <1>8, <2>8, Turns
    <3>2. kernel'.rounds - rnd'[c] = n - 1
      BY <1>0, <3>1
    <3>3. TrueFound(Row(c), kernel.rounds - rnd[c])' = TrueFound(Row(c), n - 1)
      BY <1>0, <2>2, <3>2 DEF TrueFound, Sought, Wanted
    <3>. QED BY <2>7, <3>1, <3>3 DEF FoundInv, AfterRounds
  <2>9. CASE rnd[c] + 1 = kernel.rounds
    <3>1. pc'[c] \in {"publish", "claim"} /\ Aim(c)' = pc'[c]
      BY <1>0, <1>8, <2>9, Turns
    <3>2. n - 1 = 0
      BY <1>0, <2>9
    <3>3. TrueFound(Row(c), 0)' = TrueFound(Row(c), 0)
      BY <1>0, <2>2 DEF TrueFound, Sought, Wanted
    <3>. QED BY <2>7, <3>1, <3>2, <3>3 DEF FoundInv, OfRound
  <2>. QED BY <1>0, <2>8, <2>9
<1>9. CASE Quiet(c)
  <2>1. found'[c] = found[c] /\ rnd'[c] = rnd[c] /\ pc[c] # "select" /\ pc'[c] # "select"
    BY <1>9 DEF Quiet
  <2>2. CASE it'[c] = it[c] /\ Aim(c)' = Aim(c)
    BY <1>2, <2>1, <2>2
  <2>3. CASE it'[c] = it[c] /\ Aim(c) = "zero" /\ Aim(c)' = "fold"
    BY <1>2, <2>1, <2>3 DEF OfRound
  <2>4. CASE it'[c] = it[c] /\ Aim(c) \in AfterRounds /\ Aim(c)' \in AfterRounds
    BY <1>2, <2>1, <2>4
  <2>5. CASE Aim(c)' = "row" \/ Aim(c)' \in Ended
    BY <1>3, <2>5 DEF OfRound, AfterRounds, Ended
  <2>. QED BY <1>9, <2>2, <2>3, <2>4, <2>5 DEF Quiet
<1>. QED BY <1>4, <1>5, <1>6, <1>7, <1>8, <1>9, Moves

LEMMA FoundType ==
  ASSUME NEW row \in Rows, ~Trivial(row), NEW n \in Nat
  PROVE  TrueFound(row, n) \in [prefix : Nat, wanted : Int]
<1>. DEFINE D == DOMAIN Keys(row)
<1>1. IsFiniteSet(D) /\ Rounds # {} /\ K \in Nat
  BY RowKeys, KernelAssumption
<1>2. Sought(row, n) \in Nat
  BY <1>1, RowPivot, MaskedEnds DEF Sought
<1>3. Ahead(Keys(row), Pivot(row), n) \subseteq D
  BY DEF Ahead
<1>4. Cardinality(Ahead(Keys(row), Pivot(row), n)) \in Nat
  BY <1>1, <1>3, FS_Subset, FS_CardinalityType
<1>. QED BY <1>1, <1>2, <1>4 DEF TrueFound, Wanted

----------------------------------------------------------------------------
(* The histograms are counts.                                                *)
LEMMA ChunkHistogram ==
  ASSUME ControlInv, NEW c \in CTA, Aim(c) \in OfRow, NEW p, NEW n
  PROVE  Histogram(Row(c)[c], p, n) \in [Bucket -> Nat]
<1>1. Row(c)[c] \in Seq(Nat)
  BY RowOf, RowsAssumption
<1>2. Len(Row(c)[c]) \in Nat /\ DOMAIN Row(c)[c] = 1 .. Len(Row(c)[c])
  BY <1>1
<1>3. IsFiniteSet(DOMAIN Row(c)[c])
  BY <1>2, FS_Interval
<1>. QED BY <1>3, HistogramType

LEMMA CountTypes ==
  /\ NoKeys \in [Bucket -> Nat]
  /\ \A h, g \in [Bucket -> Nat] : Added(h, g) \in [Bucket -> Nat]
BY DEF NoKeys, Added

LEMMA TypesStep ==
  ASSUME ControlInv, DataInv, NEW c \in CTA, CtaStep(c)
  PROVE  DataTypes'
<1>. DataTypes /\ FoundInv(c) /\ ControlTypes
  BY DEF DataInv, ControlInv
<1>1. CurHist(c) \in Buffer /\ hist[CurHist(c)] \in [Bucket -> Nat]
  BY HistOf DEF DataTypes
<1>2. CASE NextRow(c)
  <2>1. hist' \in [Buffer -> [Bucket -> Nat]]
    BY <1>2, CountTypes DEF NextRow, Takes, ClearedBySkip, DataTypes
  <2>2. [prefix |-> 0, wanted |-> K] \in [prefix : Nat, wanted : Int]
    BY KernelAssumption
  <2>. QED BY <1>2, <2>1, <2>2, FoundMoves DEF DataTypes
<1>3. CASE Fold(c)
  <2>1. Histogram(Row(c)[c], found[c].prefix, DigitsLeft(c)) \in [Bucket -> Nat]
    BY <1>3, ChunkHistogram, Turns DEF OfRow
  <2>2. Added(hist[CurHist(c)], Histogram(Row(c)[c], found[c].prefix, DigitsLeft(c))) \in [Bucket -> Nat]
    BY <1>1, <2>1, CountTypes
  <2>3. hist' = [hist EXCEPT ![CurHist(c)] =
                  Added(hist[CurHist(c)], Histogram(Row(c)[c], found[c].prefix, DigitsLeft(c)))]
    BY <1>1, <1>3 DEF Fold, DataTypes
  <2>4. hist' \in [Buffer -> [Bucket -> Nat]]
    BY <2>2, <2>3 DEF DataTypes
  <2>. QED BY <1>3, <2>4, FoundMoves DEF DataTypes
<1>4. CASE c = 0 /\ ClearNext
  <2>1. hist' \in [Buffer -> [Bucket -> Nat]]
    BY <1>4, CountTypes DEF ClearNext, DataTypes
  <2>. QED BY <1>4, <2>1, FoundMoves DEF DataTypes
<1>5. CASE Read(c)
  <2>1. seen' \in [CTA -> [Bucket -> Nat]] /\ found' = found
    BY <1>1, <1>5, FoundMoves DEF DataTypes
  <2>. QED BY <1>5, <2>1, HistMoves, <1>1 DEF DataTypes
<1>6. CASE Select(c)
  <2>1. Aim(c) \in OfRow /\ Aim(c) \in OfRound /\ pc[c] = "select" /\ DigitsLeft(c) = kernel.rounds - rnd[c]
    BY <1>6, Turns DEF OfRow, OfRound, Select, DigitsLeft
  <2>2. Row(c) \in Rows /\ ~Trivial(Row(c)) /\ DigitsLeft(c) \in Nat \ {0}
    BY <2>1, RowOf, Seat, Rounds24
  <2>3. found[c].prefix = Sought(Row(c), DigitsLeft(c)) /\ found[c].wanted = Wanted(Row(c), DigitsLeft(c))
    BY <2>1 DEF FoundInv, TrueFound
  <2>4. seen[c] = Histogram(Keys(Row(c)), Sought(Row(c), DigitsLeft(c)), DigitsLeft(c))
    BY <2>1, <2>3 DEF FoundInv
  <2>5. PICK t \in Threshold(seen[c], found[c].wanted) :
           found' = [found EXCEPT ![c] = [prefix |-> found[c].prefix + t.bucket * Unit(DigitsLeft(c)),
                                          wanted |-> t.wanted]]
    BY <1>6, FoundMoves
  <2>6. [prefix |-> found[c].prefix + t.bucket * Unit(DigitsLeft(c)), wanted |-> t.wanted]
          = TrueFound(Row(c), DigitsLeft(c) - 1)
    BY <2>2, <2>3, <2>4, <2>5, NextFound
  <2>7. TrueFound(Row(c), DigitsLeft(c) - 1) \in [prefix : Nat, wanted : Int]
    BY <2>2, FoundType
  <2>8. found' \in [CTA -> [prefix : Nat, wanted : Int]]
    BY <2>5, <2>6, <2>7 DEF DataTypes
  <2>9. seen' \in [CTA -> [Bucket -> Nat]]
    BY <1>6, FoundMoves, CountTypes DEF DataTypes
  <2>. QED BY <1>1, <1>6, <2>8, <2>9, HistMoves DEF DataTypes
<1>7. CASE Reset(c)
  <2>1. hist' \in [Buffer -> [Bucket -> Nat]]
    BY <1>7, CountTypes DEF Reset
  <2>. QED BY <1>7, <2>1, FoundMoves DEF DataTypes
<1>8. CASE Quiet(c)
  BY <1>8 DEF Quiet, DataTypes
<1>. QED BY <1>2, <1>3, <1>4, <1>5, <1>6, <1>7, <1>8, Moves

(* A launch opens on cleared histograms, with nothing found.                 *)
LEMMA FreshData ==
  ASSUME ControlInv, AtStart, DataTypes, hist = [b \in Buffer |-> NoKeys]
  PROVE  DataInv
<1>0. 0 \in CTA /\ ControlTypes
  BY Group DEF ControlInv
<1>1. \A c \in CTA : pc[c] = "row" /\ it[c] = 0 /\ rnd[c] = 0 /\ Aim(c) = "row"
  BY DEF AtStart, AtHead, Zeros, Aim, InBarrier
<1>2. \A c \in CTA : RoundInv(c) /\ FoundInv(c)
  BY <1>1 DEF RoundInv, InRound, InBarrier, FoundInv, OfRound, AfterRounds
<1>3. Cleared = <<0, 0>>
  BY <1>0, <1>1 DEF Cleared, AfterRounds
<1>4. Folders(0, 0) = {}
  BY <1>1 DEF Folders, FoldedIn, OfRound, AfterRounds
<1>5. hist[Buf(0, 0)] = NoKeys
  BY <1>0, Bufs
<1>6. hist[Buf(0, 0)] = Partial(0, 0)
  BY <1>4, <1>5, NothingFolded
<1>7. NextInv
  BY <1>3, <1>6 DEF NextInv, Buf
<1>. QED BY <1>2, <1>7 DEF DataInv

LEMMA DataStart == Init => DataInv
<1>. SUFFICES ASSUME Init PROVE DataInv
  OBVIOUS
<1>1. ControlInv /\ AtStart
  BY ControlStart DEF Init, AtStart
<1>2. DataTypes
  <2>1. K \in Int
    BY KernelAssumption
  <2>. QED BY <2>1, CountTypes DEF Init, DataTypes
<1>3. hist = [b \in Buffer |-> NoKeys]
  BY DEF Init
<1>. QED BY <1>1, <1>2, <1>3, FreshData

LEMMA DataStep == ControlInv /\ CleanInv /\ DataInv /\ [Next]_vars => DataInv'
<1>. SUFFICES ASSUME ControlInv, CleanInv, DataInv, [Next]_vars PROVE DataInv'
  OBVIOUS
<1>1. CASE Launch
  <2>1. (ControlInv /\ AtStart)'
    BY <1>1, LaunchControl
  <2>2. DataTypes' /\ (hist = [b \in Buffer |-> NoKeys])'
    BY <1>1 DEF Launch, CleanInv, DataInv, DataTypes, local
  <2>. QED BY <2>1, <2>2, FreshData, PTL
<1>2. ASSUME NEW c \in CTA, CtaStep(c)
      PROVE  DataInv'
  <2>1. DataTypes'
    BY <1>2, TypesStep
  <2>2. NextInv'
    BY <1>2, NextStepOther, NextStepZero
  <2>3. \A d \in CTA : RoundInv(d)' /\ FoundInv(d)'
    BY <1>2, RoundStepOther, RoundStepOwn, FoundStepOther, FoundStepOwn
  <2>. QED BY <2>1, <2>2, <2>3 DEF DataInv
<1>3. CASE UNCHANGED vars
  <2>1. UNCHANGED <<kernel, rows, pc, then, it, rnd, phase, found, seen, hist>>
    BY <1>3 DEF vars, place, local, shared
  <2>2. Cleared' = Cleared /\ \A c \in CTA : Aim(c)' = Aim(c)
    BY <2>1 DEF Cleared, Aim
  <2>3. \A i, k : Folders(i, k)' = Folders(i, k)
    BY <2>1 DEF Folders, FoldedIn, Aim
  <2>4. \A i, k : Partial(i, k)' = Partial(i, k)
    BY <2>1, <2>3 DEF Partial
  <2>5. NextInv' /\ DataTypes'
    BY <2>1, <2>2, <2>4 DEF DataInv, NextInv, DataTypes
  <2>6. \A c \in CTA : RoundInv(c)'
    BY <2>1, <2>4 DEF DataInv, RoundInv, InRound, CurHist, GlobalRound
  <2>7. \A c \in CTA : FoundInv(c)'
    BY <2>1, <2>2 DEF DataInv, FoundInv, TrueFound, Sought, Wanted, Row, DigitsLeft
  <2>. QED BY <2>5, <2>6, <2>7 DEF DataInv
<1>. QED BY <1>1, <1>2, <1>3 DEF Next, Finished

LEMMA DataInvariant == Spec => []DataInv
BY DataStart, DataStep, ControlInvariant, CleanInvariant, PTL DEF Spec

(* In every round every CTA picks its digit from the histogram of the whole  *)
(* row, whatever the group's size, the number of its rows and the schedule,  *)
(* and looks for it behind the digits of the row's K-th largest key.         *)
THEOREM RoundsAreExact == Spec => []HistogramExact
<1>1. ControlInv /\ DataInv => HistogramExact
  <2>. SUFFICES ASSUME ControlInv, DataInv, NEW c \in CTA, pc[c] = "select"
                PROVE  /\ found[c].prefix = Masked(Pivot(Row(c)), DigitsLeft(c))
                       /\ seen[c] = Histogram(Keys(Row(c)), found[c].prefix, DigitsLeft(c))
    BY DEF HistogramExact
  <2>1. Aim(c) = "select" /\ FoundInv(c)
    BY DEF Aim, InBarrier, DataInv
  <2>. QED BY <2>1 DEF FoundInv, OfRound, TrueFound, Sought, DigitsLeft
<1>. QED BY <1>1, ControlInvariant, DataInvariant, PTL

----------------------------------------------------------------------------
(* Ranks and slots.                                                          *)
(* The rank of a member in a finite strict order is its place in a list.     *)
LEMMA Ranks ==
  ASSUME NEW S, IsFiniteSet(S), NEW below \in [S -> SUBSET S],
         \A x \in S : x \notin below[x],
         \A x, y \in S : x # y => x \in below[y] \/ y \in below[x],
         \A x, y \in S : x \in below[y] => below[x] \subseteq below[y]
  PROVE  /\ \A x \in S : /\ IsFiniteSet(below[x]) /\ Cardinality(below[x]) \in Nat
                         /\ Cardinality(below[x]) < Cardinality(S)
         /\ \A x, y \in S : x \in below[y] => Cardinality(below[x]) < Cardinality(below[y])
         /\ \A x, y \in S : Cardinality(below[x]) = Cardinality(below[y]) => x = y
<1>0. \A x \in S : below[x] \subseteq S
  OBVIOUS
<1>1. \A x \in S : IsFiniteSet(below[x]) /\ Cardinality(below[x]) \in Nat
  BY <1>0, FS_Subset, FS_CardinalityType
<1>2. \A x \in S : Cardinality(below[x]) < Cardinality(S)
  <2>. TAKE x \in S
  <2>1. below[x] \subseteq S /\ below[x] # S
    BY <1>0
  <2>2. Cardinality(below[x]) <= Cardinality(S) /\ Cardinality(below[x]) # Cardinality(S)
    BY <2>1, FS_Subset
  <2>3. Cardinality(S) \in Nat
    BY FS_CardinalityType
  <2>. QED BY <1>1, <2>2, <2>3
<1>3. \A x, y \in S : x \in below[y] => Cardinality(below[x]) < Cardinality(below[y])
  <2>. SUFFICES ASSUME NEW x \in S, NEW y \in S, x \in below[y]
                PROVE  Cardinality(below[x]) < Cardinality(below[y])
    OBVIOUS
  <2>1. below[x] \subseteq below[y] /\ below[x] # below[y]
    OBVIOUS
  <2>2. Cardinality(below[x]) <= Cardinality(below[y]) /\ Cardinality(below[x]) # Cardinality(below[y])
    BY <1>1, <2>1, FS_Subset
  <2>. QED BY <1>1, <2>2
<1>4. \A x, y \in S : Cardinality(below[x]) = Cardinality(below[y]) => x = y
  <2>. SUFFICES ASSUME NEW x \in S, NEW y \in S, Cardinality(below[x]) = Cardinality(below[y]), x # y
                PROVE  FALSE
    OBVIOUS
  <2>1. Cardinality(below[x]) < Cardinality(below[y]) \/ Cardinality(below[y]) < Cardinality(below[x])
    BY <1>3
  <2>. QED BY <1>1, <2>1
<1>. QED BY <1>1, <1>2, <1>3, <1>4

(* Numbers below the size of a set that are all different leave none out.    *)
LEMMA NoSlotLeft ==
  ASSUME NEW S, IsFiniteSet(S), NEW f \in [S -> Nat],
         \A x, y \in S : f[x] = f[y] => x = y,
         \A x \in S : f[x] < Cardinality(S)
  PROVE  \A n \in 0 .. Cardinality(S) - 1 : \E x \in S : f[x] = n
<1>. DEFINE I == 0 .. Cardinality(S) - 1
<1>1. Cardinality(S) \in Nat
  BY FS_CardinalityType
<1>2. IsFiniteSet(I) /\ Cardinality(I) = Cardinality(S)
  <2>1. 0 \in Int /\ Cardinality(S) - 1 \in Int
    BY <1>1
  <2>2. IsFiniteSet(I) /\ Cardinality(I) = IF 0 > Cardinality(S) - 1 THEN 0 ELSE Cardinality(S) - 1 - 0 + 1
    BY <2>1, FS_Interval
  <2>. QED BY <1>1, <2>2
<1>3. f \in Injection(S, I)
  <2>1. f \in [S -> I]
    BY <1>1
  <2>. HIDE DEF I
  <2>. QED BY <2>1 DEF Injection, IsInjective
<1>. HIDE DEF I
<1>4. f \in Surjection(S, I)
  BY <1>2, <1>3, FS_Injection
<1>5. \A n \in I : \E x \in S : f[x] = n
  BY <1>4 DEF Surjection
<1>. QED BY <1>5 DEF I

(* What one family of sets, one per CTA, holds before a CTA.                 *)
Pairs(S, n) == {x \in CTA \X Nat : x[1] < n /\ x[2] \in S[x[1]]}
PairsOf(S, n) == {n} \X S[n]
Sizes(S) == [d \in CTA |-> Cardinality(S[d])]
IsTotals(h, g) == h = [n \in 0 .. CTAS |-> IF n = 0 THEN 0 ELSE h[n - 1] + g[n - 1]]

LEMMA TotalsAgree ==
  ASSUME NEW g, NEW h, NEW k, IsTotals(h, g), IsTotals(k, g)
  PROVE  h = k
<1>. DEFINE T == {n \in Nat : n <= CTAS => h[n] = k[n]}
<1>1. /\ h = [n \in 0 .. CTAS |-> IF n = 0 THEN 0 ELSE h[n - 1] + g[n - 1]]
      /\ k = [n \in 0 .. CTAS |-> IF n = 0 THEN 0 ELSE k[n - 1] + g[n - 1]]
  BY DEF IsTotals
<1>2. /\ \A n \in 0 .. CTAS : h[n] = IF n = 0 THEN 0 ELSE h[n - 1] + g[n - 1]
      /\ \A n \in 0 .. CTAS : k[n] = IF n = 0 THEN 0 ELSE k[n - 1] + g[n - 1]
      /\ DOMAIN h = 0 .. CTAS /\ DOMAIN k = 0 .. CTAS
  BY <1>1
<1>3. CTAS \in Nat
  BY Group
<1>4. 0 \in T
  BY <1>2, <1>3
<1>5. \A n \in Nat : n \in T => n + 1 \in T
  <2>. SUFFICES ASSUME NEW n \in Nat, n \in T, n + 1 <= CTAS PROVE h[n + 1] = k[n + 1]
    OBVIOUS
  <2>1. n + 1 \in 0 .. CTAS /\ n + 1 # 0 /\ (n + 1) - 1 = n /\ h[n] = k[n]
    BY <1>3
  <2>. QED BY <1>2, <2>1
<1>6. \A n \in Nat : n \in T
  <2>. HIDE DEF T
  <2>. QED BY <1>4, <1>5, Induct
<1>7. \A n \in 0 .. CTAS : h[n] = k[n]
  BY <1>3, <1>6
<1>. QED BY <1>1, <1>2, <1>7

LEMMA PairsGrow ==
  ASSUME NEW S \in [CTA -> SUBSET Nat], \A d \in CTA : IsFiniteSet(S[d])
  PROVE  /\ Pairs(S, 0) = {}
         /\ \A n \in Nat : IsFiniteSet(Pairs(S, n)) /\ Cardinality(Pairs(S, n)) \in Nat
         /\ \A n \in CTA : /\ Pairs(S, n + 1) = Pairs(S, n) \cup PairsOf(S, n)
                           /\ Cardinality(Pairs(S, n + 1)) = Cardinality(Pairs(S, n)) + Cardinality(S[n])
<1>0. \A n \in CTA : n \in Nat
  BY CtasAssumption DEF CTA
<1>1. Pairs(S, 0) = {}
  BY <1>0 DEF Pairs
<1>2. ASSUME NEW n \in CTA
      PROVE  IsFiniteSet(PairsOf(S, n)) /\ Cardinality(PairsOf(S, n)) = Cardinality(S[n])
  <2>1. IsFiniteSet({n}) /\ Cardinality({n}) = 1 /\ IsFiniteSet(S[n]) /\ Cardinality(S[n]) \in Nat
    BY FS_Singleton, FS_CardinalityType
  <2>2. IsFiniteSet({n} \X S[n]) /\ Cardinality({n} \X S[n]) = Cardinality({n}) * Cardinality(S[n])
    BY <2>1, FS_Product
  <2>. QED BY <2>1, <2>2 DEF PairsOf
<1>3. \A n \in Nat : /\ n \in CTA => Pairs(S, n + 1) = Pairs(S, n) \cup PairsOf(S, n)
                     /\ n \notin CTA => Pairs(S, n + 1) = Pairs(S, n)
  <2>. TAKE n \in Nat
  <2>1. \A e \in CTA : e < n + 1 <=> e < n \/ e = n
    BY <1>0
  <2>2. CASE n \in CTA
    <3>1. \A x : x \in PairsOf(S, n) <=> x \in CTA \X Nat /\ x[1] = n /\ x[2] \in S[x[1]]
      BY <2>2 DEF PairsOf
    <3>2. \A x : x \in Pairs(S, n + 1) <=> x \in Pairs(S, n) \/ x \in PairsOf(S, n)
      <4>. HIDE DEF PairsOf
      <4>. QED BY <2>1, <3>1 DEF Pairs
    <3>. QED BY <2>2, <3>2
  <2>3. CASE n \notin CTA
    <3>1. \A e \in CTA : e < n + 1 <=> e < n
      BY <2>1, <2>3
    <3>. QED BY <2>3, <3>1 DEF Pairs
  <2>. QED BY <2>2, <2>3
<1>4. \A n \in Nat : IsFiniteSet(Pairs(S, n))
  <2>. DEFINE T == {n \in Nat : IsFiniteSet(Pairs(S, n))}
  <2>1. 0 \in T
    BY <1>1, FS_EmptySet
  <2>2. \A n \in Nat : n \in T => n + 1 \in T
    <3>. SUFFICES ASSUME NEW n \in Nat, IsFiniteSet(Pairs(S, n)) PROVE IsFiniteSet(Pairs(S, n + 1))
      OBVIOUS
    <3>1. CASE n \in CTA
      <4>1. IsFiniteSet(PairsOf(S, n)) /\ Pairs(S, n + 1) = Pairs(S, n) \cup PairsOf(S, n)
        BY <1>2, <1>3, <3>1
      <4>2. IsFiniteSet(Pairs(S, n) \cup PairsOf(S, n))
        BY <4>1, FS_Union
      <4>. QED BY <4>1, <4>2
    <3>2. CASE n \notin CTA
      BY <1>3, <3>2
    <3>. QED BY <3>1, <3>2
  <2>. HIDE DEF T
  <2>3. \A n \in Nat : n \in T
    BY <2>1, <2>2, Induct
  <2>. QED BY <2>3 DEF T
<1>5. ASSUME NEW n \in CTA
      PROVE  Pairs(S, n) \cap PairsOf(S, n) = {}
  BY <1>0 DEF Pairs, PairsOf
<1>6. ASSUME NEW n \in CTA
      PROVE  Cardinality(Pairs(S, n + 1)) = Cardinality(Pairs(S, n)) + Cardinality(S[n])
  <2>1. IsFiniteSet(Pairs(S, n)) /\ Pairs(S, n + 1) = Pairs(S, n) \cup PairsOf(S, n)
    BY <1>0, <1>3, <1>4
  <2>. QED BY <1>2, <1>5, <2>1, DisjointUnion
<1>. QED BY <1>0, <1>1, <1>3, <1>4, <1>6, FS_CardinalityType

LEMMA TotalsCount ==
  ASSUME NEW S \in [CTA -> SUBSET Nat], \A d \in CTA : IsFiniteSet(S[d])
  PROVE  \A n \in 0 .. CTAS : Totals(Sizes(S))[n] = Cardinality(Pairs(S, n))
<1>. DEFINE g == Sizes(S)
            h == [n \in 0 .. CTAS |-> Cardinality(Pairs(S, n))]
<1>1. IsTotals(h, g)
  <2>1. ASSUME NEW n \in 0 .. CTAS
        PROVE  Cardinality(Pairs(S, n)) = IF n = 0 THEN 0 ELSE h[n - 1] + g[n - 1]
    <3>1. CASE n = 0
      BY <3>1, PairsGrow, FS_EmptySet
    <3>2. CASE n # 0
      <4>1. n - 1 \in CTA /\ n - 1 \in 0 .. CTAS /\ (n - 1) + 1 = n
        BY <3>2, CtasAssumption DEF CTA
      <4>2. g[n - 1] = Cardinality(S[n - 1])
        BY <4>1 DEF Sizes
      <4>. QED BY <3>2, <4>1, <4>2, PairsGrow
    <3>. QED BY <3>1, <3>2
  <2>. HIDE DEF g
  <2>. QED BY <2>1 DEF IsTotals
<1>. HIDE DEF g, h
<1>2. Totals(g) = CHOOSE t : IsTotals(t, g)
  BY DEF Totals, IsTotals
<1>3. IsTotals(CHOOSE t : IsTotals(t, g), g)
  BY <1>1
<1>4. Totals(g) = h
  BY <1>1, <1>2, <1>3, TotalsAgree
<1>. QED BY <1>4 DEF g, h

(* The order of a CTA: by thread, and for a thread by index.                 *)
LEMMA Order ==
  /\ \A i \in Nat : ~Before(i, i)
  /\ \A i, j \in Nat : i # j => Before(i, j) \/ Before(j, i)
  /\ \A i, j, k \in Nat : Before(i, j) /\ Before(j, k) => Before(i, k)
<1>1. \A i \in Nat : Thread(i) \in Int
  BY SizesAssumption DEF Thread
<1>. QED BY <1>1 DEF Before

(* The rank of an index among others.                                        *)
LEMMA RankFacts ==
  ASSUME NEW is \in SUBSET Nat, IsFiniteSet(is)
  PROVE  /\ \A j \in is : Rank(is, j) \in Nat /\ Rank(is, j) < Cardinality(is)
         /\ \A j, k \in is : Rank(is, j) = Rank(is, k) => j = k
<1>. DEFINE below == [j \in is |-> {k \in is : Before(k, j)}]
<1>1. below \in [is -> SUBSET is]
  OBVIOUS
<1>2. \A x \in is : x \notin below[x]
  BY Order
<1>3. \A x, y \in is : x # y => x \in below[y] \/ y \in below[x]
  BY Order
<1>4. \A x, y \in is : x \in below[y] => below[x] \subseteq below[y]
  BY Order
<1>5. \A j \in is : Rank(is, j) = Cardinality(below[j])
  BY DEF Rank
<1>. HIDE DEF below
<1>6. /\ \A x \in is : Cardinality(below[x]) \in Nat /\ Cardinality(below[x]) < Cardinality(is)
      /\ \A x, y \in is : Cardinality(below[x]) = Cardinality(below[y]) => x = y
  BY <1>1, <1>2, <1>3, <1>4, Ranks
<1>. QED BY <1>5, <1>6

----------------------------------------------------------------------------
(* The keys of a row: those above its pivot, and those on it.                *)
Tops(row) == {x \in DOMAIN Keys(row) : Keys(row)[x] > Pivot(row)}
Win(row) == {x \in DOMAIN Keys(row) : Keys(row)[x] >= Pivot(row)}
TopsOf(row, d) == {j \in DOMAIN row[d] : row[d][j] > Pivot(row)}
TiesOf(row, d) == {j \in DOMAIN row[d] : row[d][j] = Pivot(row)}
Chunks(row) == [d \in CTA |-> DOMAIN row[d]]
TopSets(row) == [d \in CTA |-> TopsOf(row, d)]
TieSets(row) == [d \in CTA |-> TiesOf(row, d)]
Slot(row, x) == Cardinality({y \in DOMAIN Keys(row) : Precedes(Keys(row), Pivot(row), y, x)})

LEMMA ChunkFacts ==
  ASSUME NEW row \in Rows
  PROVE  /\ \A d \in CTA : /\ Len(row[d]) \in Nat /\ DOMAIN row[d] = 1 .. Len(row[d])
                           /\ IsFiniteSet(DOMAIN row[d]) /\ Cardinality(DOMAIN row[d]) = Len(row[d])
                           /\ \A j \in DOMAIN row[d] : j \in Nat /\ row[d][j] \in Nat
         /\ \A x : x \in DOMAIN Keys(row) <=> x \in CTA \X Nat /\ x[2] \in DOMAIN row[x[1]]
         /\ \A x \in DOMAIN Keys(row) : Keys(row)[x] = row[x[1]][x[2]] /\ Keys(row)[x] \in Nat
<1>1. \A d \in CTA : row[d] \in Seq(Nat)
  BY RowsAssumption
<1>2. \A d \in CTA : /\ Len(row[d]) \in Nat /\ DOMAIN row[d] = 1 .. Len(row[d])
                     /\ \A j \in DOMAIN row[d] : j \in Nat /\ row[d][j] \in Nat
  BY <1>1
<1>3. ASSUME NEW d \in CTA
      PROVE  IsFiniteSet(DOMAIN row[d]) /\ Cardinality(DOMAIN row[d]) = Len(row[d])
  <2>1. 1 \in Int /\ Len(row[d]) \in Int /\ Len(row[d]) \in Nat
    BY <1>2
  <2>2. /\ IsFiniteSet(1 .. Len(row[d]))
        /\ Cardinality(1 .. Len(row[d])) = IF 1 > Len(row[d]) THEN 0 ELSE Len(row[d]) - 1 + 1
    BY <2>1, FS_Interval
  <2>. QED BY <1>2, <2>1, <2>2
<1>4. DOMAIN Keys(row) = UNION {{c} \X DOMAIN row[c] : c \in CTA} /\ Keys(row) \in [DOMAIN Keys(row) -> Nat]
  BY RowKeys
<1>5. \A x : x \in DOMAIN Keys(row) <=> x \in CTA \X Nat /\ x[2] \in DOMAIN row[x[1]]
  <2>. TAKE x
  <2>1. ASSUME x \in DOMAIN Keys(row) PROVE x \in CTA \X Nat /\ x[2] \in DOMAIN row[x[1]]
    <3>1. PICK c \in CTA : x \in {c} \X DOMAIN row[c]
      BY <1>4, <2>1
    <3>. QED BY <1>2, <3>1
  <2>2. ASSUME x \in CTA \X Nat, x[2] \in DOMAIN row[x[1]] PROVE x \in DOMAIN Keys(row)
    <3>1. x \in {x[1]} \X DOMAIN row[x[1]] /\ x[1] \in CTA
      BY <2>2
    <3>. QED BY <1>4, <3>1
  <2>. QED BY <2>1, <2>2
<1>6. \A x \in DOMAIN Keys(row) : Keys(row)[x] = row[x[1]][x[2]]
  BY <1>4 DEF Keys
<1>. QED BY <1>2, <1>3, <1>4, <1>5, <1>6

LEMMA RowSets ==
  ASSUME NEW row \in Rows
  PROVE  /\ DOMAIN Keys(row) = Pairs(Chunks(row), CTAS) /\ Tops(row) = Pairs(TopSets(row), CTAS)
         /\ ~Trivial(row) => /\ Win(row) \ Tops(row) = Pairs(TieSets(row), CTAS)
                             /\ Tops(row) \subseteq Win(row)
         /\ \A S \in {Chunks(row), TopSets(row), TieSets(row)} :
               S \in [CTA -> SUBSET Nat] /\ \A d \in CTA : IsFiniteSet(S[d])
         /\ [d \in CTA |-> Len(row[d])] = Sizes(Chunks(row))
<1>1. \A d \in CTA : d \in Nat /\ d < CTAS
  BY CtasAssumption DEF CTA
<1>2. DOMAIN Keys(row) = Pairs(Chunks(row), CTAS)
  <2>1. \A x : x \in Pairs(Chunks(row), CTAS) <=> x \in CTA \X Nat /\ x[2] \in DOMAIN row[x[1]]
    BY <1>1 DEF Pairs, Chunks
  <2>2. \A x : x \in DOMAIN Keys(row) <=> x \in CTA \X Nat /\ x[2] \in DOMAIN row[x[1]]
    BY ChunkFacts
  <2>3. \A x : x \in Pairs(Chunks(row), CTAS) <=> x \in DOMAIN Keys(row)
    BY <2>1, <2>2
  <2>. QED BY <2>3
<1>3. Tops(row) = Pairs(TopSets(row), CTAS)
  BY <1>1, ChunkFacts DEF Pairs, TopSets, Tops, TopsOf
<1>4. ASSUME ~Trivial(row)
      PROVE  Win(row) \ Tops(row) = Pairs(TieSets(row), CTAS) /\ Tops(row) \subseteq Win(row)
  <2>1. Pivot(row) \in Nat
    BY <1>4, RowPivot, KernelAssumption
  <2>2. \A x \in DOMAIN Keys(row) : Keys(row)[x] \in Nat /\ Keys(row)[x] = row[x[1]][x[2]]
    BY ChunkFacts
  <2>3. Win(row) \ Tops(row) = {x \in DOMAIN Keys(row) : row[x[1]][x[2]] = Pivot(row)}
    BY <2>1, <2>2 DEF Win, Tops
  <2>4. Pairs(TieSets(row), CTAS) = {x \in DOMAIN Keys(row) : row[x[1]][x[2]] = Pivot(row)}
    BY <1>1, ChunkFacts DEF Pairs, TieSets, TiesOf
  <2>. QED BY <2>1, <2>2, <2>3, <2>4 DEF Win, Tops
<1>5. ASSUME NEW d \in CTA
      PROVE  \A S \in {DOMAIN row[d], TopsOf(row, d), TiesOf(row, d)} : S \subseteq Nat /\ IsFiniteSet(S)
  <2>1. DOMAIN row[d] \subseteq Nat /\ IsFiniteSet(DOMAIN row[d])
    BY ChunkFacts
  <2>2. TopsOf(row, d) \subseteq DOMAIN row[d] /\ TiesOf(row, d) \subseteq DOMAIN row[d]
    BY DEF TopsOf, TiesOf
  <2>. QED BY <2>1, <2>2, FS_Subset
<1>6. \A S \in {Chunks(row), TopSets(row), TieSets(row)} :
         S \in [CTA -> SUBSET Nat] /\ \A d \in CTA : IsFiniteSet(S[d])
  BY <1>5 DEF Chunks, TopSets, TieSets
<1>7. [d \in CTA |-> Len(row[d])] = Sizes(Chunks(row))
  BY ChunkFacts DEF Sizes, Chunks
<1>. QED BY <1>2, <1>3, <1>4, <1>6, <1>7

(* The members of a family before an item: those of the CTAs before its own, *)
(* and those that an order R puts before it in its own.                      *)
Lower(R, S, x) == Pairs(S, x[1]) \cup {y \in PairsOf(S, x[1]) : <<y[2], x[2]>> \in R}
RankIn(R, is, j) == Cardinality({k \in is : <<k, j>> \in R})
LEMMA LowerCount ==
  ASSUME NEW S \in [CTA -> SUBSET Nat], \A d \in CTA : IsFiniteSet(S[d]), NEW c \in CTA, NEW j \in Nat, NEW R
  PROVE  /\ Lower(R, S, <<c, j>>) = {y \in Pairs(S, CTAS) : y[1] < c \/ (y[1] = c /\ <<y[2], j>> \in R)}
         /\ IsFiniteSet(Lower(R, S, <<c, j>>))
         /\ Cardinality(Lower(R, S, <<c, j>>)) = Totals(Sizes(S))[c] + RankIn(R, S[c], j)
         /\ Totals(Sizes(S))[c] \in Nat /\ RankIn(R, S[c], j) \in Nat
<1>0. CTAS \in Nat /\ c \in Nat /\ c < CTAS /\ c \in 0 .. CTAS /\ \A d \in CTA : d \in Nat /\ d < CTAS
  BY CtasAssumption DEF CTA
<1>. DEFINE A == {k \in S[c] : <<k, j>> \in R}
            B == {y \in PairsOf(S, c) : <<y[2], j>> \in R}
<1>1. B = {c} \X A
  BY DEF PairsOf
<1>2. IsFiniteSet(A) /\ Cardinality(A) = RankIn(R, S[c], j) /\ Cardinality(A) \in Nat
  <2>1. A \subseteq S[c] /\ IsFiniteSet(S[c])
    OBVIOUS
  <2>2. IsFiniteSet(A) /\ Cardinality(A) \in Nat
    BY <2>1, FS_Subset, FS_CardinalityType
  <2>. QED BY <2>2 DEF RankIn
<1>3. IsFiniteSet(B) /\ Cardinality(B) = RankIn(R, S[c], j)
  <2>. HIDE DEF A, B
  <2>1. IsFiniteSet({c}) /\ Cardinality({c}) = 1
    BY FS_Singleton
  <2>2. IsFiniteSet({c} \X A) /\ Cardinality({c} \X A) = Cardinality({c}) * Cardinality(A)
    BY <1>2, <2>1, FS_Product
  <2>. QED BY <1>1, <1>2, <2>1, <2>2
<1>4. Pairs(S, c) \cap B = {}
  BY <1>0 DEF Pairs, PairsOf
<1>5. IsFiniteSet(Pairs(S, c)) /\ Cardinality(Pairs(S, c)) \in Nat /\ Totals(Sizes(S))[c] = Cardinality(Pairs(S, c))
  BY <1>0, PairsGrow, TotalsCount
<1>6. Lower(R, S, <<c, j>>) = Pairs(S, c) \cup B
  BY DEF Lower
<1>7. IsFiniteSet(Pairs(S, c) \cup B) /\ Cardinality(Pairs(S, c) \cup B) = Cardinality(Pairs(S, c)) + Cardinality(B)
  <2>. HIDE DEF B
  <2>. QED BY <1>3, <1>4, <1>5, DisjointUnion
<1>8. Pairs(S, c) \cup B = {y \in Pairs(S, CTAS) : y[1] < c \/ (y[1] = c /\ <<y[2], j>> \in R)}
  <2>1. \A y : y \in Pairs(S, c) <=> y \in CTA \X Nat /\ y[1] < c /\ y[2] \in S[y[1]]
    BY DEF Pairs
  <2>2. \A y : y \in B <=> y \in CTA \X Nat /\ y[1] = c /\ y[2] \in S[y[1]] /\ <<y[2], j>> \in R
    BY DEF PairsOf
  <2>3. \A y : y \in Pairs(S, CTAS) <=> y \in CTA \X Nat /\ y[2] \in S[y[1]]
    BY <1>0 DEF Pairs
  <2>. HIDE DEF B
  <2>. QED BY <2>1, <2>2, <2>3
<1>. QED BY <1>2, <1>3, <1>5, <1>6, <1>7, <1>8

(* The two orders: that of the threads, and that of the indices.             *)
ByThread == {ss \in Nat \X Nat : Before(ss[1], ss[2])}
LEMMA ByThreadRank ==
  ASSUME NEW is \in SUBSET Nat, NEW j \in Nat
  PROVE  RankIn(ByThread, is, j) = Rank(is, j)
<1>1. {k \in is : <<k, j>> \in ByThread} = {k \in is : Before(k, j)}
  BY DEF ByThread
<1>. QED BY <1>1 DEF Rank, RankIn

(* Where a row that takes the early way out is written.                      *)
LEMMA PositionFacts ==
  ASSUME NEW row \in Rows
  PROVE  /\ \A x \in DOMAIN Keys(row) : Position(row, x) \in Nat /\ Position(row, x) < Cardinality(DOMAIN Keys(row))
         /\ \A x, y \in DOMAIN Keys(row) : Position(row, x) = Position(row, y) => x = y
<1>. DEFINE D == DOMAIN Keys(row)
            S == Chunks(row)
            below == [x \in D |-> {y \in D : y[1] < x[1] \/ (y[1] = x[1] /\ y[2] < x[2])}]
<1>1. IsFiniteSet(D) /\ \A x \in D : x[1] \in Nat /\ x[2] \in Nat /\ x = <<x[1], x[2]>> /\ x[1] \in CTA
  <2>1. IsFiniteSet(D)
    BY RowKeys
  <2>2. \A x \in D : x \in CTA \X Nat
    BY ChunkFacts
  <2>3. \A x \in CTA \X Nat : x[1] \in Nat /\ x[2] \in Nat /\ x = <<x[1], x[2]>> /\ x[1] \in CTA
    BY DEF CTA
  <2>. QED BY <2>1, <2>2, <2>3
<1>2. \A x \in D : Position(row, x) = Cardinality(below[x])
  <2>. TAKE x \in D
  <2>1. S \in [CTA -> SUBSET Nat] /\ (\A d \in CTA : IsFiniteSet(S[d])) /\ D = Pairs(S, CTAS)
    BY RowSets
  <2>2. Lower(Less, S, <<x[1], x[2]>>) = below[x]
    <3>1. Lower(Less, S, <<x[1], x[2]>>) = {y \in D : y[1] < x[1] \/ (y[1] = x[1] /\ <<y[2], x[2]>> \in Less)}
      BY <1>1, <2>1, LowerCount
    <3>2. \A y \in D : <<y[2], x[2]>> \in Less <=> y[2] < x[2]
      BY <1>1 DEF Less
    <3>. QED BY <3>1, <3>2
  <2>3. /\ Cardinality(Lower(Less, S, <<x[1], x[2]>>)) = Totals(Sizes(S))[x[1]] + RankIn(Less, S[x[1]], x[2])
        /\ Totals(Sizes(S))[x[1]] \in Nat
    <3>1. PICK c, i : c = x[1] /\ i = x[2]
      OBVIOUS
    <3>2. c \in CTA /\ i \in Nat
      BY <1>1, <3>1
    <3>3. /\ Cardinality(Lower(Less, S, <<c, i>>)) = Totals(Sizes(S))[c] + RankIn(Less, S[c], i)
          /\ Totals(Sizes(S))[c] \in Nat
      <4>. HIDE DEF S, D
      <4>. QED BY <2>1, <3>2, LowerCount
    <3>. QED BY <3>1, <3>3
  <2>4. RankIn(Less, S[x[1]], x[2]) = x[2] - 1
    <3>1. x[2] \in 1 .. Len(row[x[1]]) /\ S[x[1]] = 1 .. Len(row[x[1]]) /\ Len(row[x[1]]) \in Nat
      BY <1>1, ChunkFacts DEF Chunks
    <3>2. {j \in S[x[1]] : <<j, x[2]>> \in Less} = 1 .. x[2] - 1
      BY <3>1 DEF Less
    <3>3. 1 \in Int /\ x[2] - 1 \in Int /\ x[2] - 1 >= 0
      BY <3>1
    <3>4. Cardinality(1 .. x[2] - 1) = IF 1 > x[2] - 1 THEN 0 ELSE x[2] - 1 - 1 + 1
      BY <3>3, FS_Interval
    <3>5. RankIn(Less, S[x[1]], x[2]) = Cardinality(1 .. x[2] - 1)
      BY <3>2 DEF RankIn
    <3>. QED BY <3>1, <3>3, <3>4, <3>5
  <2>5. Position(row, x) = Totals(Sizes(S))[x[1]] + x[2] - 1
    BY RowSets DEF Position
  <2>. QED BY <1>1, <2>2, <2>3, <2>4, <2>5
<1>3. below \in [D -> SUBSET D]
  OBVIOUS
<1>4. \A x \in D : x \notin below[x]
  BY <1>1
<1>5. \A x, y \in D : x # y => x \in below[y] \/ y \in below[x]
  <2>1. \A x, y \in D : x[1] = y[1] /\ x[2] = y[2] => x = y
    BY <1>1
  <2>. QED BY <1>1, <2>1
<1>6. \A x, y \in D : x \in below[y] => below[x] \subseteq below[y]
  BY <1>1
<1>. HIDE DEF D, below
<1>7. /\ \A x \in D : Position(row, x) \in Nat /\ Position(row, x) < Cardinality(D)
      /\ \A x, y \in D : Position(row, x) = Position(row, y) => x = y
  BY <1>1, <1>2, <1>3, <1>4, <1>5, <1>6, Ranks
<1>. QED BY <1>7 DEF D

(* The keys a row is reduced to: fewer than K above the pivot, and with those *)
(* on it at least K.                                                        *)
LEMMA WinFacts ==
  ASSUME NEW row \in Rows, ~Trivial(row)
  PROVE  /\ IsFiniteSet(Win(row)) /\ Cardinality(Win(row)) \in Nat /\ Cardinality(Win(row)) >= K
         /\ IsFiniteSet(Tops(row)) /\ Cardinality(Tops(row)) \in Nat /\ Cardinality(Tops(row)) < K
         /\ Tops(row) \subseteq Win(row) /\ Win(row) \subseteq DOMAIN Keys(row) /\ K \in Nat
         /\ Pivot(row) \in Nat
<1>1. IsKth(Keys(row), K, Pivot(row)) /\ Pivot(row) \in Nat
  BY RowPivot, KernelAssumption
<1>2. Cardinality(Tops(row)) < K /\ Cardinality(Win(row)) >= K
  BY <1>1 DEF IsKth, Tops, Win
<1>3. IsFiniteSet(DOMAIN Keys(row))
  BY RowKeys
<1>4. Tops(row) \subseteq Win(row)
  BY RowSets
<1>5. Win(row) \subseteq DOMAIN Keys(row)
  BY DEF Win
<1>6. IsFiniteSet(Win(row)) /\ IsFiniteSet(Tops(row))
  BY <1>3, <1>4, <1>5, FS_Subset
<1>. QED BY <1>1, <1>2, <1>4, <1>5, <1>6, FS_CardinalityType, KernelAssumption

Lex(y, x) == y[1] < x[1] \/ (y[1] = x[1] /\ Before(y[2], x[2]))
Preceding(row, x) == {y \in DOMAIN Keys(row) : Precedes(Keys(row), Pivot(row), y, x)}
LEMMA PrecedingIs ==
  ASSUME NEW row \in Rows, ~Trivial(row), NEW x \in Win(row)
  PROVE  Preceding(row, x) = IF x \in Tops(row) THEN {y \in Tops(row) : Lex(y, x)}
                             ELSE Tops(row) \cup {y \in Win(row) \ Tops(row) : Lex(y, x)}
<1>. DEFINE keys == Keys(row)
            p == Pivot(row)
            D == DOMAIN Keys(row)
<1>1. p \in Nat /\ x \in D /\ \A y \in D : keys[y] \in Nat
  BY WinFacts, ChunkFacts
<1>2. \A y : y \in Tops(row) <=> y \in D /\ keys[y] > p
  BY DEF Tops
<1>3. \A y : y \in Win(row) <=> y \in D /\ keys[y] >= p
  BY DEF Win
<1>4. \A y : y \in Preceding(row, x) <=>
               /\ y \in D
               /\ \/ keys[y] > p /\ keys[x] = p
                  \/ (keys[y] > p <=> keys[x] > p) /\ keys[y] >= p /\ Lex(y, x)
  BY DEF Preceding, Precedes, Lex
<1>. HIDE DEF keys, p, D
<1>5. CASE x \in Tops(row)
  <2>1. \A y : y \in Preceding(row, x) <=> y \in Tops(row) /\ Lex(y, x)
    BY <1>1, <1>2, <1>4, <1>5
  <2>. QED BY <1>5, <2>1
<1>6. CASE x \notin Tops(row)
  <2>1. keys[x] = p
    BY <1>1, <1>2, <1>3, <1>6
  <2>2. \A y : y \in Preceding(row, x) <=> y \in Tops(row) \/ (y \in Win(row) \ Tops(row) /\ Lex(y, x))
    BY <1>1, <1>2, <1>3, <1>4, <2>1
  <2>. QED BY <1>6, <2>2
<1>. QED BY <1>5, <1>6

(* The slots of the deterministic collect: all different, those above the    *)
(* pivot first, and what a CTA works out from the counts before it.          *)
LEMMA SlotFacts ==
  ASSUME NEW row \in Rows, ~Trivial(row)
  PROVE  /\ \A x \in Win(row) : Slot(row, x) \in Nat /\ Slot(row, x) < Cardinality(Win(row))
         /\ \A x, y \in Win(row) : Slot(row, x) = Slot(row, y) => x = y
         /\ \A x \in Tops(row) : Slot(row, x) < K
<1>. DEFINE W == Win(row)
            T == Tops(row)
            below == [x \in W |-> Preceding(row, x)]
<1>1. IsFiniteSet(W) /\ IsFiniteSet(T) /\ T \subseteq W /\ Cardinality(T) \in Nat /\ Cardinality(T) < K /\ K \in Nat
  BY WinFacts
<1>2. \A x \in W : x[1] \in Nat /\ x[2] \in Nat /\ x = <<x[1], x[2]>>
  <2>1. \A x \in W : x \in CTA \X Nat
    BY WinFacts, ChunkFacts
  <2>2. \A x \in CTA \X Nat : x[1] \in Nat /\ x[2] \in Nat /\ x = <<x[1], x[2]>>
    BY DEF CTA
  <2>. QED BY <2>1, <2>2
<1>3. /\ \A x \in W : ~Lex(x, x)
      /\ \A x, y \in W : x # y => Lex(x, y) \/ Lex(y, x)
      /\ \A x, y, z \in W : Lex(x, y) /\ Lex(y, z) => Lex(x, z)
  <2>1. \A x, y \in W : x[1] = y[1] /\ x[2] = y[2] => x = y
    BY <1>2
  <2>. HIDE DEF W
  <2>2. \A x \in W : ~Lex(x, x)
    BY <1>2, Order DEF Lex
  <2>3. \A x, y \in W : x # y => Lex(x, y) \/ Lex(y, x)
    BY <1>2, <2>1, Order DEF Lex
  <2>4. \A x, y, z \in W : Lex(x, y) /\ Lex(y, z) => Lex(x, z)
    BY <1>2, Order DEF Lex
  <2>. QED BY <2>2, <2>3, <2>4
<1>4. \A x \in W : below[x] = IF x \in T THEN {y \in T : Lex(y, x)} ELSE T \cup {y \in W \ T : Lex(y, x)}
  BY PrecedingIs
<1>5. \A x \in W : Slot(row, x) = Cardinality(below[x])
  BY DEF Slot, Preceding
<1>6. DOMAIN below = W /\ below = [x \in W |-> below[x]]
  OBVIOUS
<1>. HIDE DEF W, T, below
<1>7. \A x, y : x \in W => (y \in below[x] <=> IF x \in T THEN y \in T /\ Lex(y, x)
                                               ELSE y \in T \/ (y \in W \ T /\ Lex(y, x)))
  BY <1>4
<1>8. below \in [W -> SUBSET W]
  <2>1. \A x \in W : below[x] \subseteq W
    BY <1>1, <1>7
  <2>. QED BY <1>6, <2>1
<1>9. \A x \in W : x \notin below[x]
  BY <1>3, <1>7
<1>10. \A x, y \in W : x # y => x \in below[y] \/ y \in below[x]
  BY <1>3, <1>7
<1>11. \A x, y \in W : x \in below[y] => below[x] \subseteq below[y]
  <2>. SUFFICES ASSUME NEW x \in W, NEW y \in W, x \in below[y], NEW z, z \in below[x]
                PROVE  z \in below[y]
    OBVIOUS
  <2>. QED BY <1>1, <1>3, <1>7
<1>12. /\ \A x \in W : Cardinality(below[x]) \in Nat /\ Cardinality(below[x]) < Cardinality(W)
       /\ \A x, y \in W : Cardinality(below[x]) = Cardinality(below[y]) => x = y
  BY <1>1, <1>8, <1>9, <1>10, <1>11, Ranks
<1>13. \A x \in T : Cardinality(below[x]) < K
  <2>. SUFFICES ASSUME NEW x \in T PROVE Cardinality(below[x]) < K
    OBVIOUS
  <2>1. x \in W /\ below[x] \subseteq T
    BY <1>1, <1>7
  <2>2. Cardinality(below[x]) <= Cardinality(T) /\ Cardinality(below[x]) \in Nat
    BY <1>1, <1>12, <2>1, FS_Subset
  <2>. QED BY <1>1, <2>2
<1>14. /\ \A x \in W : Slot(row, x) \in Nat /\ Slot(row, x) < Cardinality(W)
       /\ \A x, y \in W : Slot(row, x) = Slot(row, y) => x = y
       /\ \A x \in T : Slot(row, x) < K
  BY <1>1, <1>5, <1>12, <1>13
<1>. QED BY <1>14 DEF W, T

LEMMA SlotSums ==
  ASSUME NEW row \in Rows, ~Trivial(row), NEW c \in CTA
  PROVE  /\ Totals(Sizes(TopSets(row)))[c] \in Nat /\ Totals(Sizes(TopSets(row)))[CTAS] \in Nat
         /\ Totals(Sizes(TieSets(row)))[c] \in Nat
         /\ \A j : j \in TopsOf(row, c) <=> <<c, j>> \in Tops(row)
         /\ \A j : j \in TiesOf(row, c) <=> <<c, j>> \in Win(row) \ Tops(row)
         /\ \A j \in TopsOf(row, c) :
               Slot(row, <<c, j>>) = Totals(Sizes(TopSets(row)))[c] + Rank(TopsOf(row, c), j)
         /\ \A j \in TiesOf(row, c) :
               Slot(row, <<c, j>>) = Totals(Sizes(TopSets(row)))[CTAS] + Totals(Sizes(TieSets(row)))[c]
                                       + Rank(TiesOf(row, c), j)
<1>. DEFINE A == TopSets(row)
            B == TieSets(row)
<1>0. CTAS \in Nat /\ c \in Nat /\ c < CTAS /\ CTAS \in 0 .. CTAS
  BY CtasAssumption DEF CTA
<1>1. /\ A \in [CTA -> SUBSET Nat] /\ \A d \in CTA : IsFiniteSet(A[d])
      /\ B \in [CTA -> SUBSET Nat] /\ \A d \in CTA : IsFiniteSet(B[d])
      /\ Tops(row) = Pairs(A, CTAS) /\ Win(row) \ Tops(row) = Pairs(B, CTAS)
      /\ A[c] = TopsOf(row, c) /\ B[c] = TiesOf(row, c)
  <2>1. A[c] = TopsOf(row, c) /\ B[c] = TiesOf(row, c)
    BY DEF TopSets, TieSets
  <2>. QED BY <2>1, RowSets
<1>. HIDE DEF A, B
<1>2. /\ \A j : j \in A[c] <=> <<c, j>> \in Tops(row)
      /\ \A j : j \in B[c] <=> <<c, j>> \in Win(row) \ Tops(row)
  BY <1>0, <1>1 DEF Pairs
<1>3. Totals(Sizes(A))[CTAS] = Cardinality(Tops(row)) /\ Totals(Sizes(A))[CTAS] \in Nat
  BY <1>0, <1>1, TotalsCount, WinFacts
<1>4. Totals(Sizes(A))[c] \in Nat /\ Totals(Sizes(B))[c] \in Nat
  BY <1>0, <1>1, PairsGrow, TotalsCount
<1>5. ASSUME NEW j \in A[c]
      PROVE  Slot(row, <<c, j>>) = Totals(Sizes(A))[c] + Rank(A[c], j)
  <2>1. <<c, j>> \in Tops(row) /\ <<c, j>> \in Win(row) /\ j \in Nat
    BY <1>1, <1>2, WinFacts
  <2>2. Preceding(row, <<c, j>>) = {y \in Tops(row) : Lex(y, <<c, j>>)}
    BY <2>1, PrecedingIs
  <2>3. Lower(ByThread, A, <<c, j>>) = {y \in Pairs(A, CTAS) : y[1] < c \/ (y[1] = c /\ <<y[2], j>> \in ByThread)}
    BY <1>1, <2>1, LowerCount
  <2>4. Preceding(row, <<c, j>>) = Lower(ByThread, A, <<c, j>>)
    <3>1. \A y \in Pairs(A, CTAS) : <<y[2], j>> \in ByThread <=> Before(y[2], j)
      BY <2>1 DEF Pairs, ByThread
    <3>. QED BY <1>1, <2>2, <2>3, <3>1 DEF Lex
  <2>5. Cardinality(Lower(ByThread, A, <<c, j>>)) = Totals(Sizes(A))[c] + Rank(A[c], j)
    BY <1>1, <2>1, LowerCount, ByThreadRank
  <2>. QED BY <2>4, <2>5 DEF Slot, Preceding
<1>6. ASSUME NEW j \in B[c]
      PROVE  Slot(row, <<c, j>>) = Totals(Sizes(A))[CTAS] + Totals(Sizes(B))[c] + Rank(B[c], j)
  <2>1. <<c, j>> \in Win(row) /\ <<c, j>> \notin Tops(row) /\ j \in Nat
    BY <1>1, <1>2
  <2>2. Preceding(row, <<c, j>>) = Tops(row) \cup {y \in Win(row) \ Tops(row) : Lex(y, <<c, j>>)}
    BY <2>1, PrecedingIs
  <2>3. /\ Lower(ByThread, B, <<c, j>>) = {y \in Pairs(B, CTAS) : y[1] < c \/ (y[1] = c /\ <<y[2], j>> \in ByThread)}
        /\ IsFiniteSet(Lower(ByThread, B, <<c, j>>))
        /\ Cardinality(Lower(ByThread, B, <<c, j>>)) = Totals(Sizes(B))[c] + Rank(B[c], j)
        /\ Totals(Sizes(B))[c] \in Nat /\ Rank(B[c], j) \in Nat
    BY <1>1, <2>1, LowerCount, ByThreadRank
  <2>4. /\ Preceding(row, <<c, j>>) = Tops(row) \cup Lower(ByThread, B, <<c, j>>)
        /\ Tops(row) \cap Lower(ByThread, B, <<c, j>>) = {}
    <3>1. \A y \in Pairs(B, CTAS) : <<y[2], j>> \in ByThread <=> Before(y[2], j)
      BY <2>1 DEF Pairs, ByThread
    <3>. QED BY <1>1, <2>2, <2>3, <3>1 DEF Lex
  <2>5. Cardinality(Tops(row) \cup Lower(ByThread, B, <<c, j>>))
          = Cardinality(Tops(row)) + Cardinality(Lower(ByThread, B, <<c, j>>))
    BY <2>3, <2>4, WinFacts, DisjointUnion
  <2>6. Slot(row, <<c, j>>) = Cardinality(Tops(row)) + Cardinality(Lower(ByThread, B, <<c, j>>))
    BY <2>4, <2>5 DEF Slot, Preceding
  <2>. QED BY <1>3, <2>3, <2>6
<1>7. /\ \A j : j \in A[c] <=> <<c, j>> \in Tops(row)
      /\ \A j \in A[c] : Slot(row, <<c, j>>) = Totals(Sizes(A))[c] + Rank(A[c], j)
      /\ \A j \in B[c] : Slot(row, <<c, j>>) = Totals(Sizes(A))[CTAS] + Totals(Sizes(B))[c] + Rank(B[c], j)
  BY <1>2, <1>5, <1>6
<1>. QED BY <1>1, <1>2, <1>3, <1>4, <1>7 DEF A, B

----------------------------------------------------------------------------
(* The slots of a row that is finished.                                      *)
Filled(ws, r, S, f, kd, n) == ws = {<<r, f[x], kd[f[x]], {x}>> : x \in {y \in S : f[y] < n}}
Full(ws, r, chosen, n) ==
  /\ {w[2] : w \in ws} = 0 .. n - 1
  /\ \A s \in 0 .. n - 1 : \E x \in chosen : \E k : {w \in ws : w[2] = s} = {<<r, s, k, {x}>>}
  /\ ItemsIn(ws) = chosen /\ Cardinality(chosen) = n
LEMMA FilledFacts ==
  ASSUME NEW S, IsFiniteSet(S), NEW f \in [S -> Nat], \A x, y \in S : f[x] = f[y] => x = y,
         \A x \in S : f[x] < Cardinality(S), NEW n \in Nat, n <= Cardinality(S),
         NEW r, NEW kd, NEW ws, Filled(ws, r, S, f, kd, n)
  PROVE  Full(ws, r, {y \in S : f[y] < n}, n)
<1>. DEFINE chosen == {y \in S : f[y] < n}
<1>0. Cardinality(S) \in Nat
  BY FS_CardinalityType
<1>1. \A s \in 0 .. n - 1 : \E x \in chosen : f[x] = s
  <2>1. \A s \in 0 .. Cardinality(S) - 1 : \E x \in S : f[x] = s
    BY NoSlotLeft
  <2>2. \A s \in 0 .. n - 1 : s \in 0 .. Cardinality(S) - 1 /\ s < n
    BY <1>0
  <2>. QED BY <2>1, <2>2
<1>2. \A x \in chosen : x \in S /\ f[x] \in 0 .. n - 1
  OBVIOUS
<1>3. \A w : w \in ws <=> \E x \in chosen : w = <<r, f[x], kd[f[x]], {x}>>
  BY DEF Filled
<1>4. Cardinality(chosen) = n
  <2>. DEFINE I == 0 .. n - 1
              g == [x \in chosen |-> f[x]]
  <2>1. IsFiniteSet(chosen)
    BY FS_Subset
  <2>2. g \in Surjection(chosen, I)
    <3>1. g \in [chosen -> I]
      BY <1>2
    <3>. HIDE DEF chosen, I
    <3>2. \A s \in I : \E x \in chosen : g[x] = s
      BY <1>1 DEF I
    <3>. HIDE DEF g
    <3>. QED BY <3>1, <3>2 DEF Surjection
  <2>3. g \in Injection(chosen, I)
    <3>1. \A x, y \in chosen : g[x] = g[y] => x = y
      OBVIOUS
    <3>. HIDE DEF chosen, I, g
    <3>. QED BY <2>2, <3>1 DEF Surjection, Injection, IsInjective
  <2>4. Cardinality(I) = Cardinality(chosen)
    <3>. HIDE DEF chosen, I, g
    <3>. QED BY <2>1, <2>2, <2>3, FS_Surjection
  <2>5. Cardinality(I) = n
    <3>1. Cardinality(0 .. n - 1) = IF 0 > n - 1 THEN 0 ELSE n - 1 - 0 + 1
      BY FS_Interval
    <3>. QED BY <3>1
  <2>. QED BY <2>4, <2>5
<1>. HIDE DEF chosen
<1>5. {w[2] : w \in ws} = 0 .. n - 1
  <2>1. \A w \in ws : w[2] \in 0 .. n - 1
    BY <1>2, <1>3
  <2>2. \A s \in 0 .. n - 1 : \E w \in ws : w[2] = s
    <3>. SUFFICES ASSUME NEW s \in 0 .. n - 1 PROVE \E w \in ws : w[2] = s
      OBVIOUS
    <3>1. PICK x \in chosen : f[x] = s
      BY <1>1
    <3>2. <<r, f[x], kd[f[x]], {x}>> \in ws
      BY <1>3
    <3>3. <<r, f[x], kd[f[x]], {x}>>[2] = s
      BY <3>1
    <3>. QED BY <3>2, <3>3
  <2>. QED BY <2>1, <2>2
<1>6. ASSUME NEW s \in 0 .. n - 1
      PROVE  \E x \in chosen : \E k : {w \in ws : w[2] = s} = {<<r, s, k, {x}>>}
  <2>1. PICK x \in chosen : f[x] = s
    BY <1>1
  <2>2. \A y \in chosen : f[y] = s => y = x
    BY <1>2, <2>1
  <2>3. \A w : w \in ws /\ w[2] = s <=> w = <<r, s, kd[s], {x}>>
    BY <1>3, <2>1, <2>2
  <2>4. {w \in ws : w[2] = s} = {<<r, s, kd[s], {x}>>}
    BY <2>3
  <2>. QED BY <2>4
<1>7. ItemsIn(ws) = chosen
  <2>1. \A w \in ws : \E x \in chosen : w[4] = {x}
    BY <1>3
  <2>2. \A x \in chosen : \E w \in ws : w[4] = {x}
    <3>. SUFFICES ASSUME NEW x \in chosen PROVE \E w \in ws : w[4] = {x}
      OBVIOUS
    <3>1. <<r, f[x], kd[f[x]], {x}>> \in ws
      BY <1>3
    <3>2. <<r, f[x], kd[f[x]], {x}>>[4] = {x}
      OBVIOUS
    <3>. QED BY <3>1, <3>2
  <2>3. ItemsIn(ws) \subseteq chosen
    BY <2>1 DEF ItemsIn
  <2>4. chosen \subseteq ItemsIn(ws)
    BY <2>2 DEF ItemsIn
  <2>. QED BY <2>3, <2>4
<1>8. Full(ws, r, chosen, n)
  BY <1>4, <1>5, <1>6, <1>7 DEF Full
<1>. QED BY <1>8 DEF chosen

----------------------------------------------------------------------------
(* What the slots hold.                                                      *)
(* The keys of a row that were given a slot, and those that were written.    *)
Claimed(d, i) == it[d] > i \/ (it[d] = i /\ Aim(d) \in {"emit", "eq", "gather"})
Emitted(d, i) == it[d] > i \/ (it[d] = i /\ Aim(d) \in {"eq", "gather"})
Collected(d, i) == IF it[d] > i \/ (it[d] = i /\ Aim(d) = "gather") THEN TiesOf(rows[i + 1], d)
                   ELSE IF it[d] = i /\ Aim(d) = "eq" THEN TiesOf(rows[i + 1], d) \ left[d] ELSE {}
TiesGiven(i) == {x \in Win(rows[i + 1]) \ Tops(rows[i + 1]) : x[2] \in Collected(x[1], i)}
Given(i) == {x \in Tops(rows[i + 1]) : Claimed(x[1], i)} \cup TiesGiven(i)
Shown(i) == {x \in Tops(rows[i + 1]) : Emitted(x[1], i)} \cup TiesGiven(i)

(* A row on its way to the slots: one of its own for every key given one,    *)
(* which the deterministic collect knows beforehand, and what is there.      *)
Emitting(d, i) == it[d] = i /\ Aim(d) = "emit"
KindOf(i, s) == IF kernel.paged /\ (\E c \in CTA : it[c] > i /\ s \in Share(c)) THEN "page" ELSE "index"
OutOf(i) == {w \in out : w[1] = i}
OneEach(i, f) == f \in [Given(i) -> Nat] /\ \A x, y \in Given(i) : f[x] = f[y] => x = y
InReach(i, f) ==
  /\ \A x \in Given(i) : IF kernel.det THEN f[x] = Slot(rows[i + 1], x) ELSE f[x] < Cardinality(Given(i))
  /\ \A x \in Given(i) : x \in Tops(rows[i + 1]) => f[x] < K
FromBase(i, f) ==
  \A d \in CTA : Emitting(d, i) =>
     \A j \in TopsOf(rows[i + 1], d) :
        base[d] <= f[<<d, j>>] /\ f[<<d, j>>] < base[d] + Cardinality(TopsOf(rows[i + 1], d))
Holds(i, f) == OutOf(i) = {<<i, f[x], KindOf(i, f[x]), {x}>> : x \in {y \in Shown(i) : f[y] < K}}
WorkedOut(i) == \E f : OneEach(i, f) /\ InReach(i, f) /\ FromBase(i, f) /\ Holds(i, f)

(* A row that took the early way out.                                        *)
Passed(i, d) == IF kernel.basic THEN it[d] > i ELSE \E c \in CTA : it[c] > i
Padded(i) == IF ~kernel.basic /\ (\E c \in CTA : it[c] > i) THEN Padding(i, rows[i + 1]) ELSE {}
TrivialOut(i) ==
  OutOf(i) = {<<i, Position(rows[i + 1], x), IF kernel.paged THEN "page" ELSE "index", {x}>> :
                 x \in {y \in DOMAIN Keys(rows[i + 1]) : Passed(i, y[1])}} \cup Padded(i)
RowOut(i) == IF Trivial(rows[i + 1]) THEN TrivialOut(i) ELSE WorkedOut(i)

Counting(c) == (c = 0 /\ Aim(0) \in OfRound) \/ Aim(c) \in {"claim", "emit", "eq"}
OutputInv(c) == Counting(c) => output = Cardinality(Given(it[c]))
LeftInv(c) ==
  Aim(c) = "eq" => /\ left[c] \subseteq TiesOf(Row(c), c)
                   /\ pc[c] \in InBarrier => left[c] = TiesOf(Row(c), c)
Published(d, i) == it[d] > i \/ (it[d] = i /\ Aim(d) \in {"place", "gather"})
CountsOf(row, d) == [gt |-> Cardinality(TopsOf(row, d)), eq |-> Cardinality(TiesOf(row, d))]
ScratchInv(c) == Aim(c) = "place" => \A d \in CTA : Published(d, it[c]) => scratch[d] = CountsOf(Row(c), d)
OutTypes ==
  /\ output \in Nat /\ base \in [CTA -> Nat] /\ left \in [CTA -> SUBSET Nat]
  /\ scratch \in [CTA -> [gt : Nat, eq : Nat]]
  /\ \A w \in out : w[1] \in 0 .. Len(rows) - 1
OutInv ==
  /\ OutTypes
  /\ \A i \in 0 .. Len(rows) - 1 : RowOut(i)
  /\ \A c \in CTA : OutputInv(c) /\ LeftInv(c) /\ ScratchInv(c)

----------------------------------------------------------------------------
(* Where the others are while a CTA is in a worked row.                      *)
LEMMA Others ==
  ASSUME ControlInv, NEW c \in CTA, NEW d \in CTA, Aim(c) \in OfRow
  PROVE  /\ it[d] > it[c] => Stage(c) = PerRow /\ phase[d] >= Gates[it[c]] + PerRow
         /\ pc[c] \notin InBarrier => it[d] >= it[c] /\ (it[d] = it[c] => Stage(d) >= Stage(c))
         /\ it[d] = it[c] => Stage(d) <= Stage(c) + 1 /\ (pc[d] \notin InBarrier => Stage(d) <= Stage(c))
<1>1. /\ it[c] \in Nat /\ it[d] \in Nat /\ phase[c] \in Nat /\ phase[d] \in Nat
      /\ Gates[it[c]] \in Nat /\ Gates[it[d]] \in Nat
      /\ Stage(c) \in Nat /\ Stage(d) \in Nat /\ Stage(c) <= PerRow /\ Stage(d) <= PerRow
      /\ Due(c) = Gates[it[c]] + Stage(c) /\ Due(d) = Gates[it[d]] + Stage(d)
      /\ Due(c) \in Nat /\ Due(d) \in Nat /\ Stage(c) >= 1 /\ ~Trivial(rows[it[c] + 1])
      /\ pc[c] \notin InBarrier => Due(c) = phase[c]
      /\ pc[d] \notin InBarrier => Due(d) = phase[d]
      /\ pc[d] \in InBarrier => Due(d) = phase[d] + 1
      /\ Aim(d) \in OfRow => Stage(d) >= 1 /\ ~Trivial(rows[it[d] + 1])
      /\ Aim(d) \notin OfRow => Stage(d) = 0
  BY Seat
<1>2. PerRow \in Nat /\ kernel \in Kernel
  BY Rounds24 DEF ControlInv
<1>3. phase[c] <= Due(d) /\ phase[d] <= Due(c) /\ Due(c) <= Due(d) + 1 /\ Due(d) <= Due(c) + 1
  BY Near
<1>4. pc[d] \in InBarrier => Stage(d) >= 1
  <2>1. pc[d] \in InBarrier => Aim(d) \in OfRow
    BY StageOf DEF OfRow
  <2>. QED BY <1>1, <2>1
<1>5. it[d] > it[c] => Gates[it[c]] + PerRow <= Gates[it[d]]
  BY <1>1, <1>2, GateFacts
<1>6. it[d] > it[c] => Stage(c) = PerRow /\ phase[d] >= Gates[it[c]] + PerRow
  BY <1>1, <1>2, <1>3, <1>4, <1>5
<1>7. /\ it[d] < it[c] => Gates[it[d]] <= Gates[it[c]]
      /\ it[d] < it[c] /\ Aim(d) \in OfRow => Gates[it[d]] + PerRow <= Gates[it[c]]
  BY SMTT(30), <1>1, <1>2, GateFacts
<1>8. pc[c] \notin InBarrier => it[d] >= it[c] /\ (it[d] = it[c] => Stage(d) >= Stage(c))
  BY <1>1, <1>2, <1>3, <1>7
<1>9. it[d] = it[c] => Stage(d) <= Stage(c) + 1 /\ (pc[d] \notin InBarrier => Stage(d) <= Stage(c))
  BY <1>1, <1>3
<1>. QED BY <1>6, <1>8, <1>9

(* Two CTAs past the first barrier of the row each is in are in the same row.*)
Inner(c) == Aim(c) \in OfRow /\ (pc[c] \in InBarrier => Aim(c) \in {"read", "eq", "place", "gather"})
LEMMA InnerRow ==
  ASSUME ControlInv, NEW c \in CTA, NEW d \in CTA, Inner(c), Inner(d)
  PROVE  it[c] = it[d]
<1>1. ASSUME NEW a \in CTA, NEW b \in CTA, Inner(a), Inner(b), it[a] < it[b]
      PROVE  FALSE
  <2>1. /\ it[a] \in Nat /\ it[b] \in Nat /\ phase[b] \in Nat /\ Gates[it[a]] \in Nat /\ Gates[it[b]] \in Nat
        /\ Stage(a) <= PerRow /\ Due(a) = Gates[it[a]] + Stage(a) /\ Due(b) = Gates[it[b]] + Stage(b)
        /\ Stage(a) \in Nat /\ Stage(b) \in Nat /\ ~Trivial(rows[it[a] + 1]) /\ Stage(b) >= 1
        /\ pc[b] \notin InBarrier => Due(b) = phase[b]
        /\ pc[b] \in InBarrier => Due(b) = phase[b] + 1
    <3>1. Aim(a) \in OfRow /\ Aim(b) \in OfRow
      BY <1>1 DEF Inner
    <3>2. /\ it[a] \in Nat /\ Gates[it[a]] \in Nat /\ Stage(a) <= PerRow /\ Stage(a) \in Nat
          /\ Due(a) = Gates[it[a]] + Stage(a) /\ ~Trivial(rows[it[a] + 1])
      BY <3>1, Seat
    <3>3. /\ it[b] \in Nat /\ phase[b] \in Nat /\ Gates[it[b]] \in Nat
          /\ Due(b) = Gates[it[b]] + Stage(b) /\ Stage(b) \in Nat /\ Stage(b) >= 1
          /\ pc[b] \notin InBarrier => Due(b) = phase[b]
          /\ pc[b] \in InBarrier => Due(b) = phase[b] + 1
      BY <3>1, Seat
    <3>. QED BY <1>1, <3>2, <3>3
  <2>2. PerRow \in Nat /\ kernel \in Kernel /\ kernel.rounds \in {2, 4} /\ rnd[b] \in Nat
    BY Rounds24, Seat DEF ControlInv
  <2>3. pc[b] \in InBarrier => Stage(b) >= 2
    <3>. SUFFICES ASSUME pc[b] \in InBarrier PROVE Stage(b) >= 2
      OBVIOUS
    <3>1. CASE Aim(b) = "read"
      <4>1. Stage(b) = rnd[b] + 2
        BY <3>1, StageOf
      <4>. QED BY <2>2, <4>1
    <3>2. CASE Aim(b) \in {"eq", "place", "gather"}
      <4>1. Aim(b) \in AfterRounds
        BY <3>2 DEF AfterRounds
      <4>2. Stage(b) >= kernel.rounds + 2
        BY <4>1, StageOf
      <4>. QED BY <2>1, <2>2, <4>2
    <3>. QED BY <1>1, <3>1, <3>2 DEF Inner
  <2>4. phase[b] >= Gates[it[b]] + 1
    BY <2>1, <2>3
  <2>5. Gates[it[a]] + PerRow <= Gates[it[b]]
    BY <1>1, <2>1, <2>2, GateFacts
  <2>6. phase[b] <= Due(a)
    BY Near
  <2>. QED BY <2>1, <2>2, <2>4, <2>5, <2>6
<1>2. it[c] \in Nat /\ it[d] \in Nat
  BY Seat
<1>. QED BY <1>1, <1>2

LEMMA StageIs ==
  ASSUME ControlInv, NEW c \in CTA
  PROVE  /\ kernel.rounds \in {2, 4} /\ PerRow = kernel.rounds + 2 + (IF kernel.paged THEN 1 ELSE 0)
         /\ Aim(c) \in {"publish", "claim", "emit"} => Stage(c) = kernel.rounds + 1
         /\ Aim(c) \in {"eq", "place"} => Stage(c) = kernel.rounds + 2
         /\ Aim(c) = "gather" => Stage(c) = kernel.rounds + 3 /\ kernel.paged
         /\ Aim(c) \in OfRound => Stage(c) <= rnd[c] + 2 /\ rnd[c] \in Nat /\ rnd[c] < kernel.rounds
         /\ Aim(c) \in {"read", "select"} => Stage(c) = rnd[c] + 2
         /\ Aim(c) = "zero" => Stage(c) = 1
         /\ Aim(c) \in {"publish", "place"} => kernel.det
         /\ Aim(c) \in {"claim", "emit", "eq"} => ~kernel.det
         /\ pc[c] \in InBarrier => Aim(c) \in {"zero", "fold", "read", "eq", "place", "gather"}
         /\ Stage(c) = 0 => Aim(c) \notin OfRow
         /\ Aim(c) \in {"row"} \cup Ended => Stage(c) = 0
<1>1. kernel.rounds \in {2, 4} /\ PathInv(c) /\ rnd[c] \in Nat /\ rnd[c] < kernel.rounds
  BY Rounds24, Seat DEF ControlInv
<1>2. pc[c] \in InBarrier => Aim(c) \in {"zero", "fold", "read", "eq", "place", "gather"}
  BY StageOf
<1>3. Aim(c) = "gather" => kernel.paged
  BY <1>1 DEF PathInv
<1>4. /\ Aim(c) \in {"publish", "place"} => kernel.det
      /\ Aim(c) \in {"claim", "emit", "eq"} => ~kernel.det
  BY <1>1 DEF PathInv
<1>5. Stage(c) = 0 => Aim(c) \notin OfRow
  BY Seat
<1>6. /\ Aim(c) \in {"publish", "claim", "emit"} => Stage(c) = kernel.rounds + 1
      /\ Aim(c) \in {"eq", "place"} => Stage(c) = kernel.rounds + 2
      /\ Aim(c) = "gather" => Stage(c) = kernel.rounds + 3
      /\ Aim(c) \in {"read", "select"} => Stage(c) = rnd[c] + 2
      /\ Aim(c) \in {"fold", "clear"} => Stage(c) = rnd[c] + 1
      /\ Aim(c) = "zero" => Stage(c) = 1
      /\ Aim(c) \in {"row", "reset", "release", "done"} => Stage(c) = 0
  BY DEF Stage
<1>7. Aim(c) \in OfRound => Stage(c) <= rnd[c] + 2
  BY <1>1, <1>6 DEF OfRound
<1>. QED BY <1>1, <1>2, <1>3, <1>4, <1>5, <1>6, <1>7 DEF PerRow, Ended

----------------------------------------------------------------------------
(* What a CTA shows of itself for a row, and a step that changes none of it. *)
SameView(d, i) ==
  /\ Claimed(d, i)' = Claimed(d, i) /\ Emitted(d, i)' = Emitted(d, i) /\ Collected(d, i)' = Collected(d, i)
  /\ kernel.paged => (it'[d] > i <=> it[d] > i)
  /\ Emitting(d, i)' => Emitting(d, i) /\ base'[d] = base[d]

LEMMA SameGiven ==
  ASSUME NEW i, rows' = rows,
         \A d \in CTA : /\ Claimed(d, i)' = Claimed(d, i) /\ Collected(d, i)' = Collected(d, i)
  PROVE  TiesGiven(i)' = TiesGiven(i) /\ Given(i)' = Given(i)
<1>1. \A x \in DOMAIN Keys(rows[i + 1]) : x[1] \in CTA
  BY DEF Keys
<1>2. TiesGiven(i)' = TiesGiven(i)
  BY <1>1 DEF TiesGiven, Win
<1>3. {x \in Tops(rows[i + 1]) : Claimed(x[1], i)}' = {x \in Tops(rows[i + 1]) : Claimed(x[1], i)}
  BY <1>1 DEF Tops
<1>. QED BY <1>2, <1>3 DEF Given

LEMMA WorkedKept ==
  ASSUME NEW i, UNCHANGED <<kernel, rows>>, \A d \in CTA : SameView(d, i), OutOf(i)' = OutOf(i), WorkedOut(i)
  PROVE  WorkedOut(i)'
<1>1. Given(i)' = Given(i) /\ TiesGiven(i)' = TiesGiven(i)
  BY SameGiven DEF SameView
<1>2. Shown(i)' = Shown(i)
  <2>1. \A x \in Tops(rows[i + 1]) : x[1] \in CTA
    BY DEF Tops, Keys
  <2>2. {x \in Tops(rows[i + 1]) : Emitted(x[1], i)}' = {x \in Tops(rows[i + 1]) : Emitted(x[1], i)}
    BY <2>1 DEF SameView
  <2>. QED BY <1>1, <2>2 DEF Shown
<1>3. \A s : KindOf(i, s)' = KindOf(i, s)
  BY DEF KindOf, SameView, Share
<1>4. PICK f : OneEach(i, f) /\ InReach(i, f) /\ FromBase(i, f) /\ Holds(i, f)
  BY DEF WorkedOut
<1>5. OneEach(i, f)' /\ InReach(i, f)'
  BY <1>1, <1>4 DEF OneEach, InReach
<1>6. FromBase(i, f)'
  BY <1>4 DEF FromBase, SameView
<1>7. Holds(i, f)'
  BY <1>2, <1>3, <1>4 DEF Holds
<1>. QED BY <1>5, <1>6, <1>7 DEF WorkedOut

LEMMA TrivialKept ==
  ASSUME NEW i, UNCHANGED <<kernel, rows>>, \A d \in CTA : it'[d] > i <=> it[d] > i, OutOf(i)' = OutOf(i),
         TrivialOut(i)
  PROVE  TrivialOut(i)'
<1>1. \A x \in DOMAIN Keys(rows[i + 1]) : x[1] \in CTA
  BY DEF Keys
<1>2. \A d \in CTA : Passed(i, d)' <=> Passed(i, d)
  BY DEF Passed
<1>3. {y \in DOMAIN Keys(rows[i + 1]) : Passed(i, y[1])}' = {y \in DOMAIN Keys(rows[i + 1]) : Passed(i, y[1])}
  BY <1>1, <1>2
<1>4. TrivialOut(i) <=> OutOf(i) = {<<i, Position(rows[i + 1], x), IF kernel.paged THEN "page" ELSE "index", {x}>> :
                                     x \in {y \in DOMAIN Keys(rows[i + 1]) : Passed(i, y[1])}} \cup Padded(i)
  BY DEF TrivialOut
<1>5. Padded(i)' = Padded(i)
  BY DEF Padded, Padding
<1>. QED BY <1>3, <1>4, <1>5 DEF TrivialOut

(* Rows other than the one the CTA that steps is in, and other CTAs.         *)
OnItsWay(c) == it'[c] = it[c] \/ (it'[c] = it[c] + 1 /\ Aim(c)' = "row")
LEMMA Elsewhere ==
  ASSUME NEW c \in CTA, it[c] \in Nat, OnItsWay(c), NEW i \in Nat, i # it[c], rows' = rows
  PROVE  SameView(c, i) /\ (it'[c] > i <=> it[c] > i)
<1>1. it'[c] > i <=> it[c] > i
  BY DEF OnItsWay
<1>2. it'[c] = i => Aim(c)' = "row"
  BY DEF OnItsWay
<1>. QED BY <1>1, <1>2 DEF SameView, Claimed, Emitted, Collected, Emitting

LEMMA Bystander ==
  ASSUME NEW c \in CTA, Alone(c), NEW d \in CTA \ {c}, base'[d] = base[d], left'[d] = left[d], NEW i
  PROVE  SameView(d, i) /\ (it'[d] > i <=> it[d] > i)
<1>1. it'[d] = it[d] /\ Aim(d)' = Aim(d) /\ rows' = rows
  BY DEF Alone, Aim
<1>. QED BY <1>1 DEF SameView, Claimed, Emitted, Collected, Emitting

(* Steps that change nothing the slots of the row are about.                 *)
LEMMA StillView ==
  ASSUME NEW c \in CTA, rows' = rows, it'[c] = it[c], NEW i,
         \/ Aim(c)' = Aim(c) /\ left'[c] = left[c] /\ base'[c] = base[c]
         \/ {Aim(c), Aim(c)'} \cap {"emit", "eq", "gather"} = {}
  PROVE  SameView(c, i)
BY DEF SameView, Claimed, Emitted, Collected, Emitting

LEMMA DoneView ==
  ASSUME NEW c \in CTA, rows' = rows, NEW i \in Nat, it[c] = i, Aim(c) = "eq", left[c] = {}, base'[c] = base[c],
         IF kernel.paged THEN it'[c] = i /\ Aim(c)' = "gather" ELSE it'[c] = i + 1 /\ Aim(c)' = "row"
  PROVE  SameView(c, i)
<1>1. /\ ~(it[c] > i) /\ (kernel.paged => it'[c] = i /\ Aim(c)' = "gather" /\ ~(it'[c] > i))
      /\ ~kernel.paged => it'[c] > i /\ it'[c] # i
  OBVIOUS
<1>2. Claimed(c, i) /\ Emitted(c, i) /\ Collected(c, i) = TiesOf(rows[i + 1], c)
  BY <1>1 DEF Claimed, Emitted, Collected
<1>3. Claimed(c, i)' /\ Emitted(c, i)' /\ Collected(c, i)' = TiesOf(rows[i + 1], c) /\ ~Emitting(c, i)'
  BY <1>1 DEF Claimed, Emitted, Collected, Emitting
<1>. QED BY <1>1, <1>2, <1>3 DEF SameView

----------------------------------------------------------------------------
(* What each step does to what the slots are about.                          *)
LEMMA PivotFound ==
  ASSUME ControlInv, DataInv, NEW c \in CTA, Aim(c) \in AfterRounds
  PROVE  /\ Above(c) = TopsOf(Row(c), c) /\ On(c) = TiesOf(Row(c), c)
         /\ IsFiniteSet(Above(c)) /\ IsFiniteSet(On(c))
         /\ Cardinality(Above(c)) \in Nat /\ Cardinality(On(c)) \in Nat
         /\ Above(c) \subseteq Nat /\ On(c) \subseteq Nat
<1>1. Row(c) \in Rows /\ ~Trivial(Row(c)) /\ Rounds # {}
  BY RowOf DEF AfterRounds, OfRow
<1>2. found[c].prefix = Masked(Pivot(Row(c)), 0)
  <2>1. FoundInv(c)
    BY DEF DataInv
  <2>2. found[c] = TrueFound(Row(c), 0)
    BY <2>1 DEF FoundInv
  <2>3. TrueFound(Row(c), 0).prefix = Sought(Row(c), 0)
    BY DEF TrueFound
  <2>. QED BY <2>2, <2>3 DEF Sought
<1>3. Masked(Pivot(Row(c)), 0) = Pivot(Row(c))
  BY <1>1, RowPivot, MaskedEnds
<1>4. Above(c) = TopsOf(Row(c), c) /\ On(c) = TiesOf(Row(c), c)
  BY <1>2, <1>3 DEF Above, On, TopsOf, TiesOf
<1>5. IsFiniteSet(DOMAIN Row(c)[c]) /\ DOMAIN Row(c)[c] \subseteq Nat
  BY <1>1, ChunkFacts
<1>6. Above(c) \subseteq DOMAIN Row(c)[c] /\ On(c) \subseteq DOMAIN Row(c)[c]
  BY DEF Above, On
<1>. QED BY <1>4, <1>5, <1>6, FS_Subset, FS_CardinalityType

(* The end of a row, or the barrier before its pages.                        *)
Leaves(c) == IF kernel.paged THEN it'[c] = it[c] /\ Aim(c)' = "gather" ELSE it'[c] = it[c] + 1 /\ Aim(c)' = "row"
LEMMA RowDoneLeaves ==
  ASSUME ControlTypes, NEW c \in CTA, RowDone(c)
  PROVE  Leaves(c)
<1>1. CASE kernel.paged
  <2>1. Meet(c, "gather") /\ it' = it
    BY <1>1 DEF RowDone
  <2>2. pc'[c] = "arrive" /\ then'[c] = "gather"
    BY <2>1, Meets, Spots
  <2>. QED BY <1>1, <2>1, <2>2 DEF Leaves, Aim, InBarrier
<1>2. CASE ~kernel.paged
  <2>1. Goto(c, "row") /\ it' = [it EXCEPT ![c] = @ + 1]
    BY <1>2 DEF RowDone
  <2>2. pc'[c] = "row" /\ it'[c] = it[c] + 1
    BY <2>1, Goes, Spots DEF ControlTypes
  <2>. QED BY <1>2, <2>2 DEF Leaves, Aim, InBarrier
<1>. QED BY <1>1, <1>2

LEMMA ClaimDoes ==
  ASSUME ControlInv, OutTypes, NEW c \in CTA, Claim(c)
  PROVE  /\ Aim(c) = "claim" /\ pc[c] = "claim" /\ Aim(c)' = "emit" /\ it' = it
         /\ base' = [base EXCEPT ![c] = IF Above(c) = {} THEN 0 ELSE output]
         /\ output' = output + Cardinality(Above(c)) /\ UNCHANGED <<out, left, scratch>>
<1>1. pc[c] = "claim" /\ Goto(c, "emit")
  BY DEF Claim
<1>2. pc'[c] = "emit"
  BY <1>1, Goes, Spots DEF ControlInv
<1>. QED BY <1>1, <1>2 DEF Claim, Aim, InBarrier

LEMMA EmitDoes ==
  ASSUME ControlInv, OutTypes, NEW c \in CTA, Emit(c)
  PROVE  /\ Aim(c) = "emit" /\ pc[c] = "emit" /\ Aim(c)' = "eq" /\ pc'[c] = "arrive" /\ it' = it
         /\ base' = [base EXCEPT ![c] = 0] /\ left' = [left EXCEPT ![c] = On(c)]
         /\ \E turn \in Injection(Above(c), 0 .. Cardinality(Above(c)) - 1) :
               out' = out \cup Written(c, Above(c), [j \in Above(c) |-> base[c] + turn[j]])
         /\ UNCHANGED <<output, scratch>>
<1>1. pc[c] = "emit" /\ Meet(c, "eq")
  BY DEF Emit, Emits
<1>2. pc'[c] = "arrive" /\ then'[c] = "eq"
  BY <1>1, Meets, Spots DEF ControlInv
<1>. QED BY <1>1, <1>2 DEF Emit, Emits, Aim, InBarrier

LEMMA CollectDoes ==
  ASSUME ControlInv, OutTypes, NEW c \in CTA, CollectEq(c)
  PROVE  /\ Aim(c) = "eq" /\ pc[c] = "eq" /\ UNCHANGED <<base, scratch>>
         /\ IF left[c] = {} THEN Leaves(c) /\ UNCHANGED <<left, output, out>>
            ELSE /\ it' = it /\ pc' = pc /\ Aim(c)' = "eq" /\ output' = output + 1
                 /\ \E j \in left[c] :
                       /\ left' = [left EXCEPT ![c] = @ \ {j}]
                       /\ out' = IF output < K THEN out \cup {<<it[c], output, "index", {<<c, j>>}>>} ELSE out
<1>1. pc[c] = "eq" /\ Aim(c) = "eq" /\ UNCHANGED <<base, scratch>>
  BY DEF CollectEq, Aim, InBarrier
<1>2. CASE left[c] = {}
  <2>1. RowDone(c) /\ UNCHANGED <<left, output, out>>
    BY <1>2 DEF CollectEq
  <2>. QED BY <1>1, <1>2, <2>1, RowDoneLeaves DEF ControlInv
<1>3. CASE left[c] # {}
  <2>1. UNCHANGED <<pc, then, it>>
    BY <1>3 DEF CollectEq
  <2>2. Aim(c)' = "eq"
    BY <1>1, <2>1 DEF Aim
  <2>. QED BY <1>1, <1>3, <2>1, <2>2 DEF CollectEq
<1>. QED BY <1>2, <1>3

LEMMA PublishDoes ==
  ASSUME ControlInv, OutTypes, NEW c \in CTA, Publish(c)
  PROVE  /\ Aim(c) = "publish" /\ pc[c] = "publish" /\ Aim(c)' = "place" /\ it' = it
         /\ scratch' = [scratch EXCEPT ![c] = [gt |-> Cardinality(Above(c)), eq |-> Cardinality(On(c))]]
         /\ UNCHANGED <<base, left, output, out>>
<1>1. pc[c] = "publish" /\ Meet(c, "place")
  BY DEF Publish
<1>2. pc'[c] = "arrive" /\ then'[c] = "place"
  BY <1>1, Meets, Spots DEF ControlInv
<1>. QED BY <1>1, <1>2 DEF Publish, Aim, InBarrier, local

LEMMA PlaceDoes ==
  ASSUME ControlInv, OutTypes, NEW c \in CTA, Place(c)
  PROVE  /\ Aim(c) = "place" /\ pc[c] = "place" /\ Leaves(c) /\ UNCHANGED <<base, left, output, scratch>>
         /\ out' = out
              \cup Written(c, First(Above(c), GtLimit(c)), Ranked(Above(c), SumBefore("gt", c)))
              \cup Written(c, First(On(c), EqLimit(c)), Ranked(On(c), SumBefore("gt", CTAS) + SumBefore("eq", c)))
<1>1. pc[c] = "place" /\ RowDone(c)
  BY DEF Place
<1>. QED BY <1>1, RowDoneLeaves DEF Place, Aim, InBarrier, local, ControlInv

LEMMA GatherDoes ==
  ASSUME ControlInv, OutTypes, NEW c \in CTA, Gather(c)
  PROVE  /\ Aim(c) = "gather" /\ pc[c] = "gather" /\ it'[c] = it[c] + 1 /\ Aim(c)' = "row"
         /\ UNCHANGED <<base, left, output, scratch>>
         /\ out' = {w \in out : ~(w[1] = it[c] /\ w[2] \in Share(c))}
                     \cup {<<it[c], s, "page", ItemsIn({w \in At(it[c], s) : w[3] = "index"})>> : s \in Share(c)}
<1>1. pc[c] = "gather" /\ Goto(c, "row") /\ it' = [it EXCEPT ![c] = @ + 1]
  BY DEF Gather
<1>2. pc'[c] = "row" /\ it'[c] = it[c] + 1
  BY <1>1, Goes, Spots DEF ControlInv, ControlTypes
<1>. QED BY <1>1, <1>2 DEF Gather, Aim, InBarrier, local

(* The steps that leave slots, claims and collected keys alone.              *)
Plain(c) ==
  /\ out' = out /\ it'[c] = it[c]
  /\ \/ Aim(c)' = Aim(c) /\ left'[c] = left[c] /\ base'[c] = base[c]
     \/ {Aim(c), Aim(c)'} \cap {"emit", "eq", "gather"} = {}
  /\ base' = base /\ left' = left
LEMMA PlainSteps ==
  ASSUME ControlInv, OutTypes, NEW c \in CTA,
         \/ Arrive(c) \/ Leave(c) \/ (NextRow(c) /\ ~Trivial(Row(c))) \/ (c = 0 /\ (ZeroOutput \/ ClearNext))
         \/ Fold(c) \/ Read(c) \/ Select(c) \/ Publish(c) \/ Exit(c) \/ Reset(c) \/ Release(c)
  PROVE  Plain(c)
<1>. ControlTypes /\ PathInv(c)
  BY DEF ControlInv
<1>1. CASE Arrive(c) \/ Leave(c)
  <2>1. Aim(c)' = Aim(c)
    BY <1>1, BarrierPath
  <2>2. UNCHANGED <<out, it, base, left>>
    BY <1>1 DEF Arrive, Leave, local, shared
  <2>. QED BY <2>1, <2>2 DEF Plain
<1>2. CASE NextRow(c) /\ ~Trivial(Row(c))
  <2>1. UNCHANGED <<out, it, base, left>>
    BY <1>2 DEF NextRow, Takes
  <2>2. Aim(c) = "row" /\ Aim(c)' \in {"zero", "fold"}
    BY <1>2, Turns
  <2>. QED BY <2>1, <2>2 DEF Plain
<1>3. CASE c = 0 /\ ZeroOutput
  <2>1. UNCHANGED <<out, it, base, left>> /\ pc[c] = "zero" /\ Goto(c, "fold")
    BY <1>3 DEF ZeroOutput, local
  <2>2. pc'[c] = "fold"
    BY <2>1, Goes, Spots
  <2>3. Aim(c) = "zero" /\ Aim(c)' = "fold"
    BY <2>1, <2>2 DEF Aim, InBarrier
  <2>. QED BY <2>1, <2>3 DEF Plain
<1>4. CASE (c = 0 /\ ClearNext) \/ Fold(c) \/ Read(c) \/ Reset(c)
  <2>1. UNCHANGED <<out, it, base, left>>
    BY <1>4 DEF ClearNext, Fold, Read, Reset, local, shared
  <2>2. Aim(c) \in {"clear", "fold", "read", "reset"} /\ Aim(c)' \in {"clear", "read", "select", "release"}
    BY <1>4, Turns
  <2>. QED BY <2>1, <2>2 DEF Plain
<1>5. CASE Select(c)
  <2>1. UNCHANGED <<out, it, base, left>>
    BY <1>5 DEF Select, shared
  <2>2. Aim(c) = "select" /\ Aim(c)' \in {"fold", "publish", "claim"}
    BY <1>5, Turns
  <2>. QED BY <2>1, <2>2 DEF Plain
<1>6. CASE Publish(c)
  BY <1>6, PublishDoes DEF Plain
<1>7. CASE Exit(c) \/ Release(c)
  <2>1. /\ pc[c] \in {"row", "release"} /\ UNCHANGED <<out, it, base, left>>
        /\ Goto(c, "reset") \/ Goto(c, "done")
    BY <1>7 DEF Exit, Release, local
  <2>2. pc'[c] \in {"reset", "done"}
    BY <2>1, Goes, Spots
  <2>3. Aim(c) \in {"row", "release"} /\ Aim(c)' \in {"reset", "done"}
    BY <2>1, <2>2 DEF Aim, InBarrier
  <2>. QED BY <2>1, <2>3 DEF Plain
<1>. QED BY <1>1, <1>2, <1>3, <1>4, <1>5, <1>6, <1>7

LEMMA EarlyDoes ==
  ASSUME ControlInv, OutTypes, NEW c \in CTA, NextRow(c), Trivial(Row(c))
  PROVE  /\ Aim(c) = "row" /\ Aim(c)' = "row" /\ it'[c] = it[c] + 1 /\ it[c] < Len(rows)
         /\ out' = out \cup AsItIs(c) /\ UNCHANGED <<base, left, output, scratch>>
BY Turns DEF NextRow, Takes

(* Every step, seen from the others and from other rows.                     *)
LEMMA StepReach ==
  ASSUME ControlInv, OutTypes, NEW c \in CTA, CtaStep(c)
  PROVE  /\ Alone(c) /\ OnItsWay(c) /\ it[c] \in Nat /\ (\A d \in CTA \ {c} : base'[d] = base[d] /\ left'[d] = left[d])
         /\ UNCHANGED <<kernel, rows>>
         /\ \/ Plain(c) \/ (NextRow(c) /\ Trivial(Row(c))) \/ Claim(c) \/ Emit(c) \/ CollectEq(c)
            \/ Place(c) \/ Gather(c)
<1>1. Alone(c) /\ UNCHANGED <<kernel, rows>> /\ it[c] \in Nat
  BY StepPath, Seat DEF ControlInv, Alone
<1>2. \/ Plain(c) \/ (NextRow(c) /\ Trivial(Row(c))) \/ Claim(c) \/ Emit(c) \/ CollectEq(c)
      \/ Place(c) \/ Gather(c)
  BY PlainSteps DEF CtaStep
<1>3. OnItsWay(c) /\ \A d \in CTA \ {c} : base'[d] = base[d] /\ left'[d] = left[d]
  <2>1. CASE Plain(c)
    BY <2>1 DEF Plain, OnItsWay
  <2>2. CASE NextRow(c) /\ Trivial(Row(c))
    BY <2>2, EarlyDoes DEF OnItsWay
  <2>3. CASE Claim(c)
    BY <2>3, ClaimDoes DEF OnItsWay, OutTypes
  <2>4. CASE Emit(c)
    BY <2>4, EmitDoes DEF OnItsWay, OutTypes
  <2>5. CASE CollectEq(c)
    BY <2>5, CollectDoes DEF OnItsWay, OutTypes, Leaves
  <2>6. CASE Place(c)
    BY <2>6, PlaceDoes DEF OnItsWay, Leaves
  <2>7. CASE Gather(c)
    BY <2>7, GatherDoes DEF OnItsWay
  <2>. QED BY <1>2, <2>1, <2>2, <2>3, <2>4, <2>5, <2>6, <2>7
<1>. QED BY <1>1, <1>2, <1>3

----------------------------------------------------------------------------
(* A step writes to the slots of the row its CTA is in.                      *)
LEMMA WritesOwnRow ==
  ASSUME ControlInv, OutTypes, NEW c \in CTA, CtaStep(c)
  PROVE  /\ \A w \in out' : w \in out \/ w[1] = it[c]
         /\ \A w \in out : w \in out' \/ w[1] = it[c]
         /\ out' # out => it[c] < Len(rows)
<1>1. CASE Plain(c)
  BY <1>1 DEF Plain
<1>2. CASE NextRow(c) /\ Trivial(Row(c))
  <2>1. \A w \in AsItIs(c) : w[1] = it[c]
    BY DEF AsItIs, Padding
  <2>. QED BY <1>2, <2>1, EarlyDoes
<1>3. CASE Claim(c)
  BY <1>3, ClaimDoes
<1>4. Aim(c) \in OfRow => it[c] < Len(rows)
  BY Seat
<1>5. CASE Emit(c)
  <2>1. \A is, n : \A w \in Written(c, is, n) : w[1] = it[c]
    BY DEF Written
  <2>2. Aim(c) \in OfRow /\ \E n : out' = out \cup Written(c, Above(c), n)
    BY <1>5, EmitDoes DEF OfRow
  <2>. QED BY <1>4, <2>1, <2>2
<1>6. CASE CollectEq(c)
  <2>1. Aim(c) \in OfRow
    BY <1>6, CollectDoes DEF OfRow
  <2>2. out' = out \/ \E j \in left[c] : out' = out \cup {<<it[c], output, "index", {<<c, j>>}>>}
    BY <1>6, CollectDoes
  <2>. QED BY <1>4, <2>1, <2>2
<1>7. CASE Place(c)
  <2>1. \A is, n : \A w \in Written(c, is, n) : w[1] = it[c]
    BY DEF Written
  <2>2. Aim(c) \in OfRow /\ \E is, n, js, m : out' = out \cup Written(c, is, n) \cup Written(c, js, m)
    BY <1>7, PlaceDoes DEF OfRow
  <2>. QED BY <1>4, <2>1, <2>2
<1>8. CASE Gather(c)
  <2>1. Aim(c) \in OfRow
    BY <1>8, GatherDoes DEF OfRow
  <2>. DEFINE old == {w \in out : ~(w[1] = it[c] /\ w[2] \in Share(c))}
              items(s) == ItemsIn({w \in At(it[c], s) : w[3] = "index"})
              new == {<<it[c], s, "page", items(s)>> : s \in Share(c)}
  <2>2. out' = old \cup new
    BY <1>8, GatherDoes
  <2>3. \A w \in new : w[1] = it[c]
    <3>. HIDE DEF items, old
    <3>. QED OBVIOUS
  <2>4. (\A w \in old : w \in out) /\ (\A w \in out : w \in old \/ w[1] = it[c])
    OBVIOUS
  <2>. HIDE DEF old, new
  <2>. QED BY <1>4, <2>1, <2>2, <2>3, <2>4
<1>9. \/ Plain(c) \/ (NextRow(c) /\ Trivial(Row(c))) \/ Claim(c) \/ Emit(c) \/ CollectEq(c)
      \/ Place(c) \/ Gather(c)
  BY StepReach
<1>. QED BY <1>1, <1>2, <1>3, <1>5, <1>6, <1>7, <1>8, <1>9

LEMMA OutElsewhere ==
  ASSUME ControlInv, OutTypes, NEW c \in CTA, CtaStep(c)
  PROVE  /\ \A i : i # it[c] => OutOf(i)' = OutOf(i)
         /\ \A w \in out' : w[1] \in 0 .. Len(rows) - 1
<1>1. ASSUME NEW i, i # it[c]
      PROVE  OutOf(i)' = OutOf(i)
  BY <1>1, WritesOwnRow DEF OutOf
<1>2. it[c] \in Nat /\ Len(rows) \in Nat
  BY Seat DEF ControlInv, ControlTypes
<1>3. \A w \in out' : w[1] \in 0 .. Len(rows) - 1
  <2>. SUFFICES ASSUME NEW w \in out' PROVE w[1] \in 0 .. Len(rows) - 1
    OBVIOUS
  <2>1. CASE w \in out
    BY <2>1 DEF OutTypes
  <2>2. CASE w \notin out
    <3>1. w[1] = it[c] /\ it[c] < Len(rows)
      BY <2>2, WritesOwnRow
    <3>. QED BY <1>2, <3>1
  <2>. QED BY <2>1, <2>2
<1>. QED BY <1>1, <1>3

LEMMA RowElsewhere ==
  ASSUME ControlInv, OutTypes, NEW c \in CTA, CtaStep(c), NEW i \in Nat, i # it[c], RowOut(i)
  PROVE  RowOut(i)'
<1>1. \A d \in CTA : SameView(d, i) /\ (it'[d] > i <=> it[d] > i)
  BY StepReach, Elsewhere, Bystander
<1>2. OutOf(i)' = OutOf(i) /\ UNCHANGED <<kernel, rows>>
  BY OutElsewhere, StepReach
<1>. QED BY <1>1, <1>2, WorkedKept, TrivialKept DEF RowOut

LEMMA RowPlain ==
  ASSUME ControlInv, OutTypes, NEW c \in CTA, CtaStep(c), Plain(c), NEW i \in Nat, i = it[c], RowOut(i)
  PROVE  RowOut(i)'
<1>1. UNCHANGED <<kernel, rows>> /\ Alone(c) /\ out' = out /\ it'[c] = it[c]
  BY StepReach DEF Plain
<1>2. \A d \in CTA : SameView(d, i) /\ (it'[d] > i <=> it[d] > i)
  <2>1. SameView(c, i)
    BY <1>1, StillView DEF Plain
  <2>2. \A d \in CTA \ {c} : SameView(d, i) /\ (it'[d] > i <=> it[d] > i)
    BY StepReach, Bystander
  <2>. QED BY <1>1, <2>1, <2>2
<1>3. OutOf(i)' = OutOf(i)
  BY <1>1 DEF OutOf
<1>. QED BY <1>1, <1>2, <1>3, WorkedKept, TrivialKept DEF RowOut

LEMMA RowCollected ==
  ASSUME ControlInv, OutTypes, NEW c \in CTA, CtaStep(c), CollectEq(c), left[c] = {},
         NEW i \in Nat, i = it[c], RowOut(i)
  PROVE  RowOut(i)'
<1>1. UNCHANGED <<kernel, rows, base, left, out>> /\ Alone(c) /\ Aim(c) = "eq" /\ Leaves(c)
  BY StepReach, CollectDoes
<1>2. ~Trivial(rows[i + 1])
  BY <1>1, Seat DEF OfRow
<1>3. \A d \in CTA : SameView(d, i)
  <2>1. SameView(c, i)
    BY <1>1, DoneView DEF Leaves
  <2>2. \A d \in CTA \ {c} : SameView(d, i)
    BY StepReach, Bystander
  <2>. QED BY <2>1, <2>2
<1>4. OutOf(i)' = OutOf(i)
  BY <1>1 DEF OutOf
<1>. QED BY <1>1, <1>2, <1>3, <1>4, WorkedKept DEF RowOut

LEMMA RowEarly ==
  ASSUME ControlInv, OutTypes, NEW c \in CTA, CtaStep(c), NextRow(c), Trivial(Row(c)),
         NEW i \in Nat, i = it[c], RowOut(i)
  PROVE  RowOut(i)'
<1>1. /\ UNCHANGED <<kernel, rows>> /\ Alone(c) /\ it'[c] = i + 1 /\ out' = out \cup AsItIs(c)
      /\ Row(c) = rows[i + 1] /\ Trivial(rows[i + 1]) /\ \A d \in CTA : it[d] \in Nat
  BY StepReach, EarlyDoes DEF Row, ControlInv, ControlTypes
<1>. DEFINE D == DOMAIN Keys(rows[i + 1])
            wr(x) == <<i, Position(rows[i + 1], x), IF kernel.paged THEN "page" ELSE "index", {x}>>
<1>2. \A x \in D : x[1] \in CTA
  BY DEF Keys
<1>. DEFINE pad == IF kernel.basic THEN {} ELSE Padding(i, rows[i + 1])
<1>3. AsItIs(c) = {wr(x) : x \in {y \in D : ~kernel.basic \/ y[1] = c}} \cup pad
  <2>1. {y \in D : kernel.basic => y[1] = c} = {y \in D : ~kernel.basic \/ y[1] = c}
    OBVIOUS
  <2>2. AsItIs(c) = {wr(x) : x \in {y \in D : kernel.basic => y[1] = c}} \cup pad
    BY <1>1 DEF AsItIs
  <2>. QED BY <2>1, <2>2
<1>4. OutOf(i) = {wr(x) : x \in {y \in D : Passed(i, y[1])}} \cup Padded(i)
  BY <1>1 DEF RowOut, TrivialOut
<1>5. OutOf(i)' = OutOf(i) \cup AsItIs(c)
  <2>1. \A w \in AsItIs(c) : w[1] = i
    BY DEF AsItIs, Padding
  <2>. QED BY <1>1, <2>1 DEF OutOf
<1>6. /\ \A d \in CTA : Passed(i, d)' <=> ~kernel.basic \/ d = c \/ Passed(i, d)
      /\ Padded(i)' = Padded(i) \cup pad
  <2>1. it'[c] > i /\ \A d \in CTA \ {c} : it'[d] = it[d]
    BY <1>1 DEF Alone
  <2>2. ~(it[c] > i)
    OBVIOUS
  <2>3. Padding(i, rows[i + 1])' = Padding(i, rows[i + 1])
    BY <1>1 DEF Padding
  <2>4. Padded(i)' = Padded(i) \cup pad
    BY <1>1, <2>1, <2>3 DEF Padded
  <2>. QED BY <1>1, <2>1, <2>2, <2>4 DEF Passed
<1>7. (UNCHANGED <<D, Keys(rows[i + 1])>>) /\ \A x : wr(x)' = wr(x)
  BY <1>1
<1>8. TrivialOut(i)' <=> OutOf(i)' = {wr(x) : x \in {y \in D : Passed(i, y[1])'}} \cup Padded(i)'
  BY <1>1 DEF TrivialOut
<1>9. {wr(x) : x \in {y \in D : Passed(i, y[1])'}} \cup Padded(i)' = OutOf(i) \cup AsItIs(c)
  <2>1. \A y \in D : Passed(i, y[1])' <=> (~kernel.basic \/ y[1] = c) \/ Passed(i, y[1])
    BY <1>2, <1>6
  <2>. HIDE DEF wr, D, pad
  <2>2. {y \in D : Passed(i, y[1])'} = {y \in D : ~kernel.basic \/ y[1] = c} \cup {y \in D : Passed(i, y[1])}
    BY <2>1
  <2>3. {wr(x) : x \in {y \in D : Passed(i, y[1])'}}
          = {wr(x) : x \in {y \in D : ~kernel.basic \/ y[1] = c}} \cup {wr(x) : x \in {y \in D : Passed(i, y[1])}}
    BY <2>2
  <2>. QED BY <1>3, <1>4, <1>6, <2>3
<1>. QED BY <1>1, <1>5, <1>8, <1>9 DEF RowOut

----------------------------------------------------------------------------
(* The row of a CTA that collects.                                           *)
LEMMA GivenFacts ==
  ASSUME ControlInv, NEW i \in Nat, i < Len(rows), ~Trivial(rows[i + 1])
  PROVE  /\ rows[i + 1] \in Rows /\ Shown(i) \subseteq Given(i) /\ Given(i) \subseteq Win(rows[i + 1])
         /\ IsFiniteSet(Given(i)) /\ Cardinality(Given(i)) \in Nat
         /\ \A x \in Win(rows[i + 1]) : x[1] \in CTA /\ x[2] \in Nat /\ x = <<x[1], x[2]>>
<1>1. rows[i + 1] \in Rows
  <2>1. rows \in Seq(Rows) /\ Len(rows) \in Nat /\ i + 1 \in 1 .. Len(rows)
    BY DEF ControlInv, ControlTypes
  <2>. QED BY <2>1
<1>. DEFINE row == rows[i + 1]
<1>2. Tops(row) \subseteq Win(row) /\ IsFiniteSet(Win(row)) /\ Win(row) \subseteq DOMAIN Keys(row)
  BY <1>1, WinFacts
<1>3. \A x \in Win(row) : x[1] \in CTA /\ x[2] \in Nat /\ x = <<x[1], x[2]>>
  <2>1. \A x \in Win(row) : x \in CTA \X Nat
    BY <1>1, <1>2, ChunkFacts
  <2>2. \A x \in CTA \X Nat : x[1] \in CTA /\ x[2] \in Nat /\ x = <<x[1], x[2]>>
    OBVIOUS
  <2>. QED BY <2>1, <2>2
<1>4. \A d : Emitted(d, i) => Claimed(d, i)
  BY DEF Emitted, Claimed
<1>5. Shown(i) \subseteq Given(i)
  BY <1>4 DEF Shown, Given
<1>6. Given(i) \subseteq Win(row)
  BY <1>2 DEF Given, TiesGiven
<1>7. IsFiniteSet(Given(i))
  BY <1>2, <1>6, FS_Subset
<1>. QED BY <1>1, <1>3, <1>5, <1>6, <1>7, FS_CardinalityType

LEMMA CollectRow ==
  ASSUME ControlInv, NEW c \in CTA, NEW i, i = it[c], Aim(c) \in {"claim", "emit", "eq", "place", "gather"}
  PROVE  /\ i \in Nat /\ i < Len(rows) /\ ~Trivial(rows[i + 1]) /\ Row(c) = rows[i + 1]
         /\ Aim(c) # "gather" => \A s : KindOf(i, s) = "index"
         /\ Aim(c) # "gather" /\ kernel.paged => \A d \in CTA : ~(it[d] > i)
         /\ Aim(c) \in {"claim", "emit"} => \A d \in CTA : ~(it[d] > i)
         /\ OutInv => RowOut(i) /\ WorkedOut(i)
<1>1. Aim(c) \in OfRow
  BY DEF OfRow
<1>2. i \in Nat /\ i < Len(rows) /\ ~Trivial(rows[i + 1]) /\ Row(c) = rows[i + 1]
  BY <1>1, Seat DEF Row
<1>3. /\ Aim(c) # "gather" /\ kernel.paged => \A d \in CTA : ~(it[d] > i)
      /\ Aim(c) \in {"claim", "emit"} => \A d \in CTA : ~(it[d] > i)
  <2>1. /\ kernel.rounds \in {2, 4} /\ PerRow = kernel.rounds + 2 + (IF kernel.paged THEN 1 ELSE 0)
        /\ Aim(c) \in {"claim", "emit"} => Stage(c) = kernel.rounds + 1
        /\ Aim(c) \in {"eq", "place"} => Stage(c) = kernel.rounds + 2
    BY StageIs
  <2>2. \A d \in CTA : it[d] > it[c] => Stage(c) = PerRow
    BY <1>1, Others
  <2>. QED BY <2>1, <2>2
<1>4. Aim(c) # "gather" => \A s : KindOf(i, s) = "index"
  BY <1>3 DEF KindOf
<1>5. OutInv => RowOut(i) /\ WorkedOut(i)
  <2>1. i \in 0 .. Len(rows) - 1
    <3>1. Len(rows) \in Nat
      BY DEF ControlInv, ControlTypes
    <3>. QED BY <1>2, <3>1
  <2>. QED BY <1>2, <2>1 DEF OutInv, RowOut
<1>. QED BY <1>2, <1>3, <1>4, <1>5

(* No CTA collects a key on the pivot before all have claimed for theirs     *)
(* above it.                                                                *)
LEMMA NoTiesYet ==
  ASSUME ControlInv, OutInv, NEW c \in CTA, NEW i, i = it[c], Aim(c) \in {"claim", "emit"}
  PROVE  /\ \A d \in CTA : Collected(d, i) = {}
         /\ TiesGiven(i) = {}
<1>1. ASSUME NEW d \in CTA
      PROVE  Collected(d, i) = {}
  <2>1. ~(it[d] > i) /\ i \in Nat
    BY CollectRow
  <2>2. CASE it[d] = i
    <3>1. Aim(c) \in OfRow /\ Stage(c) = kernel.rounds + 1 /\ kernel.rounds \in {2, 4}
      BY StageIs DEF OfRow
    <3>2. Stage(d) <= Stage(c) + 1 /\ (pc[d] \notin InBarrier => Stage(d) <= Stage(c))
      BY <2>2, <3>1, Others
    <3>3. Aim(d) # "gather" /\ (Aim(d) = "eq" => pc[d] \in InBarrier)
      BY <3>1, <3>2, StageIs
    <3>4. Aim(d) = "eq" => left[d] = TiesOf(rows[i + 1], d)
      BY <2>2, <3>3 DEF OutInv, LeftInv, Row
    <3>. QED BY <2>1, <2>2, <3>3, <3>4 DEF Collected
  <2>3. CASE it[d] # i
    BY <2>1, <2>3 DEF Collected
  <2>. QED BY <2>2, <2>3
<1>2. \A x \in Win(rows[i + 1]) : x[1] \in CTA
  BY DEF Win, Keys
<1>. QED BY <1>1, <1>2 DEF TiesGiven

(* What a CTA claims.                                                        *)
Own(c, is) == {<<c, j>> : j \in is}
LEMMA OwnFacts ==
  ASSUME NEW c, NEW is, IsFiniteSet(is)
  PROVE  IsFiniteSet(Own(c, is)) /\ Cardinality(Own(c, is)) = Cardinality(is)
<1>1. IsFiniteSet({c}) /\ Cardinality({c}) = 1 /\ Cardinality(is) \in Nat
  BY FS_Singleton, FS_CardinalityType
<1>2. IsFiniteSet({c} \X is) /\ Cardinality({c} \X is) = Cardinality({c}) * Cardinality(is)
  BY <1>1, FS_Product
<1>3. Own(c, is) = {c} \X is
  BY DEF Own
<1>. QED BY <1>1, <1>2, <1>3

LEMMA ClaimGives ==
  ASSUME ControlInv, DataInv, OutInv, NEW c \in CTA, Claim(c), Alone(c), NEW i, i = it[c]
  PROVE  /\ Given(i)' = Given(i) \cup Own(c, Above(c)) /\ Shown(i)' = Shown(i)
         /\ Given(i) \cap Own(c, Above(c)) = {}
         /\ Given(i)' \subseteq Tops(rows[i + 1]) /\ TiesGiven(i)' = {}
         /\ \A s : KindOf(i, s)' = KindOf(i, s)
         /\ Cardinality(Given(i)') = Cardinality(Given(i)) + Cardinality(Above(c))
<1>1. /\ Aim(c) = "claim" /\ Aim(c)' = "emit" /\ it' = it /\ UNCHANGED <<out, left, rows, kernel>>
      /\ \A d \in CTA \ {c} : Aim(d)' = Aim(d)
  BY ClaimDoes DEF OutInv, Alone, Aim
<1>2. /\ i \in Nat /\ i < Len(rows) /\ ~Trivial(rows[i + 1]) /\ Row(c) = rows[i + 1]
      /\ ~(it[c] > i)
  BY <1>1, CollectRow
<1>3. TiesGiven(i) = {} /\ \A d \in CTA : Collected(d, i) = {}
  BY <1>1, NoTiesYet
<1>4. Above(c) = TopsOf(rows[i + 1], c) /\ IsFiniteSet(Above(c)) /\ Cardinality(Above(c)) \in Nat
  BY <1>1, <1>2, PivotFound DEF AfterRounds
<1>5. \A d \in CTA : /\ Collected(d, i)' = {}
                     /\ Emitted(d, i)' <=> Emitted(d, i)
                     /\ Claimed(d, i)' <=> (Claimed(d, i) \/ d = c)
  <2>1. \A d \in CTA \ {c} : /\ Collected(d, i)' = Collected(d, i)
                             /\ Emitted(d, i)' <=> Emitted(d, i)
                             /\ Claimed(d, i)' <=> Claimed(d, i)
    BY <1>1 DEF Collected, Emitted, Claimed
  <2>2. Collected(c, i)' = {} /\ ~Emitted(c, i)' /\ ~Emitted(c, i) /\ Claimed(c, i)' /\ ~Claimed(c, i)
    BY <1>1, <1>2 DEF Collected, Emitted, Claimed
  <2>. QED BY <1>3, <2>1, <2>2
<1>6. ~Claimed(c, i)
  BY <1>1, <1>2 DEF Claimed
<1>7. rows[i + 1] \in Rows /\ \A x \in Win(rows[i + 1]) : x[1] \in CTA /\ x[2] \in Nat /\ x = <<x[1], x[2]>>
  BY <1>2, GivenFacts
<1>8. Tops(rows[i + 1]) \subseteq Win(rows[i + 1])
  BY <1>2, <1>7, WinFacts
<1>9. TiesGiven(i)' = {}
  BY <1>1, <1>5, <1>7 DEF TiesGiven
<1>10. Own(c, Above(c)) = {x \in Tops(rows[i + 1]) : x[1] = c}
  <2>1. \A j : j \in Above(c) <=> <<c, j>> \in Tops(rows[i + 1])
    BY <1>2, <1>4, <1>7, SlotSums
  <2>. QED BY <1>7, <1>8, <2>1 DEF Own
<1>11. Given(i) = {x \in Tops(rows[i + 1]) : Claimed(x[1], i)}
  BY <1>3 DEF Given
<1>12. Given(i)' = {x \in Tops(rows[i + 1]) : Claimed(x[1], i)'}
  BY <1>1, <1>9 DEF Given
<1>13. Given(i)' = Given(i) \cup Own(c, Above(c)) /\ Given(i) \cap Own(c, Above(c)) = {}
  BY <1>5, <1>6, <1>7, <1>8, <1>10, <1>11, <1>12
<1>14. Shown(i)' = Shown(i)
  <2>1. {x \in Tops(rows[i + 1]) : Emitted(x[1], i)}' = {x \in Tops(rows[i + 1]) : Emitted(x[1], i)}
    BY <1>1, <1>5, <1>7, <1>8
  <2>. QED BY <1>3, <1>9, <2>1 DEF Shown
<1>15. \A s : KindOf(i, s)' = KindOf(i, s)
  BY <1>1 DEF KindOf, Share
<1>16. Cardinality(Given(i)') = Cardinality(Given(i)) + Cardinality(Above(c))
  <2>1. IsFiniteSet(Own(c, Above(c))) /\ Cardinality(Own(c, Above(c))) = Cardinality(Above(c))
    BY <1>4, OwnFacts
  <2>2. IsFiniteSet(Given(i))
    BY <1>2, GivenFacts
  <2>3. Cardinality(Given(i) \cup Own(c, Above(c))) = Cardinality(Given(i)) + Cardinality(Own(c, Above(c)))
    BY <1>13, <2>1, <2>2, DisjointUnion
  <2>. QED BY <1>13, <2>1, <2>3
<1>. QED BY <1>9, <1>12, <1>13, <1>14, <1>15, <1>16

(* What a CTA adds to the slots of its row.                                  *)
Wrote(i, g, N) == {<<i, g[x], "index", {x}>> : x \in {y \in N : g[y] < K}}
LEMMA HoldsStep ==
  ASSUME NEW i, NEW f, NEW g, NEW N, Holds(i, f), \A x \in Shown(i) : g[x] = f[x],
         Shown(i)' = Shown(i) \cup N, \A s : KindOf(i, s) = "index" /\ KindOf(i, s)' = "index",
         OutOf(i)' = OutOf(i) \cup Wrote(i, g, N)
  PROVE  Holds(i, g)'
<1>1. OutOf(i) = Wrote(i, g, Shown(i))
  BY DEF Holds, Wrote
<1>2. OutOf(i)' = Wrote(i, g, Shown(i)')
  <2>. HIDE DEF Holds
  <2>. QED BY <1>1 DEF Wrote
<1>. QED BY <1>2 DEF Holds, Wrote

LEMMA WrittenIs ==
  ASSUME NEW c \in CTA, NEW i, i = it[c], NEW is, NEW slot, NEW g,
         \A j \in is : slot[j] = g[<<c, j>>] /\ g[<<c, j>>] < K
  PROVE  Written(c, is, slot) = Wrote(i, g, Own(c, is))
<1>1. \A w : w \in Written(c, is, slot) <=> \E j \in is : w = <<i, g[<<c, j>>], "index", {<<c, j>>}>>
  BY DEF Written
<1>2. \A w : w \in Wrote(i, g, Own(c, is)) <=> \E j \in is : w = <<i, g[<<c, j>>], "index", {<<c, j>>}>>
  BY DEF Wrote, Own
<1>. QED BY <1>1, <1>2

LEMMA RowClaim ==
  ASSUME ControlInv, DataInv, OutInv, NEW c \in CTA, CtaStep(c), Claim(c), NEW i \in Nat, i = it[c]
  PROVE  RowOut(i)'
<1>1. /\ Aim(c) = "claim" /\ Aim(c)' = "emit" /\ it' = it /\ UNCHANGED <<out, left, rows, kernel>>
      /\ \A d \in CTA \ {c} : Aim(d)' = Aim(d) /\ base'[d] = base[d]
      /\ base' = [base EXCEPT ![c] = IF Above(c) = {} THEN 0 ELSE output] /\ base \in [CTA -> Nat]
  BY ClaimDoes, StepReach DEF OutInv, OutTypes, Alone, Aim
<1>. Alone(c) /\ OutputInv(c)
  BY StepReach DEF OutInv
<1>2. /\ i < Len(rows) /\ ~Trivial(rows[i + 1]) /\ Row(c) = rows[i + 1] /\ WorkedOut(i)
      /\ \A s : KindOf(i, s) = "index"
  BY <1>1, CollectRow
<1>. DEFINE row == rows[i + 1]
            A == Above(c)
            n == Cardinality(Given(i))
<1>3. row \in Rows /\ IsFiniteSet(Given(i)) /\ n \in Nat
  BY <1>2, GivenFacts
<1>4. A = TopsOf(row, c) /\ IsFiniteSet(A) /\ Cardinality(A) \in Nat /\ A \subseteq Nat
  BY <1>1, <1>2, PivotFound DEF AfterRounds
<1>5. ~kernel.det
  BY <1>1, StageIs
<1>6. output = n
  BY <1>1 DEF OutputInv, Counting
<1>7. PICK f : OneEach(i, f) /\ InReach(i, f) /\ FromBase(i, f) /\ Holds(i, f)
  BY <1>2 DEF WorkedOut
<1>8. /\ Given(i)' = Given(i) \cup Own(c, A) /\ Shown(i)' = Shown(i) /\ Given(i) \cap Own(c, A) = {}
      /\ Given(i)' \subseteq Tops(row) /\ \A s : KindOf(i, s)' = KindOf(i, s)
      /\ Cardinality(Given(i)') = n + Cardinality(A)
  BY ClaimGives
<1>9. Cardinality(Given(i)') < K /\ K \in Nat
  <2>1. IsFiniteSet(Tops(row)) /\ Cardinality(Tops(row)) < K /\ Cardinality(Tops(row)) \in Nat /\ K \in Nat
    BY <1>2, <1>3, WinFacts
  <2>2. Cardinality(Given(i)') <= Cardinality(Tops(row))
    BY <1>8, <2>1, FS_Subset
  <2>. QED BY <1>3, <1>4, <1>8, <2>1, <2>2
<1>. DEFINE G == Given(i) \cup Own(c, A)
<1>0. PICK g : g = [x \in G |-> IF x \in Own(c, A) THEN n + Rank(A, x[2]) ELSE f[x]]
  OBVIOUS
<1>10. \A j \in A : Rank(A, j) \in Nat /\ Rank(A, j) < Cardinality(A)
  BY <1>4, RankFacts
<1>11. \A j, k \in A : Rank(A, j) = Rank(A, k) => j = k
  BY <1>4, RankFacts
<1>12. \A x \in Given(i) : g[x] = f[x] /\ f[x] \in Nat /\ f[x] < n
  BY <1>0, <1>5, <1>7, <1>8 DEF OneEach, InReach
<1>13. \A x : x \in Own(c, A) <=> x[2] \in A /\ x = <<c, x[2]>>
  BY DEF Own
<1>14. \A x \in Own(c, A) : g[x] = n + Rank(A, x[2])
  BY <1>0
<1>15. g = [x \in G |-> g[x]] /\ G = Given(i)'
  BY <1>0, <1>8
<1>16. \A x \in G : g[x] \in Nat /\ g[x] < n + Cardinality(A)
  <2>. HIDE DEF A, n
  <2>1. \A x \in Given(i) : g[x] \in Nat /\ g[x] < n + Cardinality(A)
    BY <1>3, <1>4, <1>12
  <2>2. \A x \in Own(c, A) : g[x] \in Nat /\ g[x] < n + Cardinality(A)
    BY <1>3, <1>4, <1>10, <1>13, <1>14
  <2>. QED BY <2>1, <2>2
<1>17. \A x, y \in G : g[x] = g[y] => x = y
  <2>. HIDE DEF A, n
  <2>1. \A x, y \in Given(i) : g[x] = g[y] => x = y
    BY <1>7, <1>12 DEF OneEach
  <2>2. \A x, y \in Own(c, A) : g[x] = g[y] => x = y
    BY <1>3, <1>10, <1>11, <1>13, <1>14
  <2>3. \A x \in Given(i), y \in Own(c, A) : g[x] < n /\ g[y] >= n /\ g[x] \in Nat
    BY <1>3, <1>10, <1>12, <1>13, <1>14
  <2>4. \A x \in Given(i), y \in Own(c, A) : g[x] # g[y]
    BY <1>3, <2>3
  <2>. QED BY <2>1, <2>2, <2>4
<1>18. OneEach(i, g)'
  <2>. HIDE DEF G
  <2>. QED BY <1>15, <1>16, <1>17 DEF OneEach
<1>19. InReach(i, g)'
  <2>1. \A x \in Given(i)' : g[x] < Cardinality(Given(i)') /\ g[x] < K
    <3>. HIDE DEF A, G, n
    <3>. QED BY <1>3, <1>4, <1>8, <1>9, <1>15, <1>16
  <2>. QED BY <1>1, <1>5, <2>1 DEF InReach
<1>20. FromBase(i, g)'
  <2>. SUFFICES ASSUME NEW d \in CTA, Emitting(d, i)', NEW j \in TopsOf(row, d)
                PROVE  /\ base'[d] <= g[<<d, j>>]
                       /\ g[<<d, j>>] < base'[d] + Cardinality(TopsOf(row, d))
    BY <1>1 DEF FromBase
  <2>1. CASE d = c
    <3>1. base'[c] = n
      BY <1>1, <1>4, <1>6, <2>1
    <3>2. <<c, j>> \in Own(c, A)
      BY <1>4, <2>1 DEF Own
    <3>3. <<c, j>>[2] = j /\ j \in A
      BY <1>4, <2>1
    <3>. HIDE DEF A, n
    <3>4. g[<<c, j>>] = n + Rank(A, j)
      BY <1>14, <3>2, <3>3
    <3>5. n <= n + Rank(A, j) /\ n + Rank(A, j) < n + Cardinality(A)
      BY <1>3, <1>4, <1>10, <3>3
    <3>. QED BY <1>4, <2>1, <3>1, <3>4, <3>5
  <2>2. CASE d # c
    <3>1. Emitting(d, i) /\ base'[d] = base[d]
      BY <1>1, <2>2 DEF Emitting
    <3>2. <<d, j>> \in Given(i)
      <4>1. Claimed(d, i)
        BY <3>1 DEF Emitting, Claimed
      <4>2. <<d, j>> \in Tops(row)
        BY <1>2, <1>3, SlotSums
      <4>3. <<d, j>>[1] = d
        OBVIOUS
      <4>. QED BY <4>1, <4>2, <4>3 DEF Given
    <3>3. base[d] <= f[<<d, j>>] /\ f[<<d, j>>] < base[d] + Cardinality(TopsOf(row, d))
      BY <1>7, <3>1 DEF FromBase
    <3>. QED BY <1>12, <3>1, <3>2, <3>3
  <2>. QED BY <2>1, <2>2
<1>21. Holds(i, g)'
  <2>1. OutOf(i)' = OutOf(i) \cup Wrote(i, g, {})
    BY <1>1 DEF OutOf, Wrote
  <2>2. \A x \in Shown(i) : g[x] = f[x]
    BY <1>2, <1>12, GivenFacts
  <2>3. Shown(i)' = Shown(i) \cup {} /\ \A s : KindOf(i, s) = "index" /\ KindOf(i, s)' = "index"
    BY <1>2, <1>8
  <2>4. Holds(i, f)
    BY <1>7
  <2>. QED BY <2>1, <2>2, <2>3, <2>4, HoldsStep
<1>22. WorkedOut(i)'
  BY <1>18, <1>19, <1>20, <1>21 DEF WorkedOut
<1>. QED BY <1>1, <1>2, <1>22 DEF RowOut

LEMMA EmitGives ==
  ASSUME ControlInv, DataInv, OutInv, NEW c \in CTA, Emit(c), Alone(c), NEW i, i = it[c]
  PROVE  /\ Given(i)' = Given(i) /\ Shown(i)' = Shown(i) \cup Own(c, Above(c))
         /\ Shown(i) \cap Own(c, Above(c)) = {}
         /\ \A s : KindOf(i, s)' = KindOf(i, s)
<1>1. /\ Aim(c) = "emit" /\ Aim(c)' = "eq" /\ it' = it /\ UNCHANGED <<rows, kernel>>
      /\ left' = [left EXCEPT ![c] = On(c)] /\ left \in [CTA -> SUBSET Nat]
      /\ \A d \in CTA \ {c} : Aim(d)' = Aim(d)
  BY EmitDoes DEF OutInv, OutTypes, Alone, Aim
<1>2. /\ i \in Nat /\ i < Len(rows) /\ ~Trivial(rows[i + 1]) /\ Row(c) = rows[i + 1]
      /\ ~(it[c] > i)
  BY <1>1, CollectRow
<1>3. \A d \in CTA : Collected(d, i) = {}
  BY <1>1, NoTiesYet
<1>4. Above(c) = TopsOf(rows[i + 1], c) /\ On(c) = TiesOf(rows[i + 1], c)
  BY <1>1, <1>2, PivotFound DEF AfterRounds
<1>5. left'[c] = TiesOf(rows[i + 1], c) /\ \A d \in CTA \ {c} : left'[d] = left[d]
  BY <1>1, <1>4
<1>6. \A d \in CTA \ {c} : /\ Collected(d, i)' = Collected(d, i)
                           /\ Emitted(d, i)' <=> Emitted(d, i)
                           /\ Claimed(d, i)' = Claimed(d, i)
  BY <1>1, <1>5 DEF Collected, Emitted, Claimed
<1>7. Collected(c, i)' = {} /\ Emitted(c, i)' /\ ~Emitted(c, i) /\ Claimed(c, i)' /\ Claimed(c, i)
  BY <1>1, <1>2, <1>5 DEF Collected, Emitted, Claimed
<1>8. /\ \A d \in CTA : Collected(d, i)' = Collected(d, i)
      /\ \A d \in CTA : Emitted(d, i)' <=> (Emitted(d, i) \/ d = c)
  BY <1>3, <1>6, <1>7
<1>9. \A d \in CTA : Claimed(d, i)' = Claimed(d, i)
  <2>1. Claimed(c, i)' = Claimed(c, i)
    BY <1>7 DEF Claimed
  <2>. QED BY <1>6, <2>1
<1>10. Given(i)' = Given(i) /\ TiesGiven(i)' = TiesGiven(i)
  BY <1>1, <1>8, <1>9, SameGiven
<1>11. /\ rows[i + 1] \in Rows /\ Tops(rows[i + 1]) \subseteq Win(rows[i + 1])
       /\ \A x \in Win(rows[i + 1]) : x[1] \in CTA /\ x[2] \in Nat /\ x = <<x[1], x[2]>>
  BY <1>2, GivenFacts, WinFacts
<1>12. Own(c, Above(c)) = {x \in Tops(rows[i + 1]) : x[1] = c}
  <2>1. \A j : j \in Above(c) <=> <<c, j>> \in Tops(rows[i + 1])
    BY <1>2, <1>4, <1>11, SlotSums
  <2>. QED BY <1>11, <2>1 DEF Own
<1>13. {x \in Tops(rows[i + 1]) : Emitted(x[1], i)}'
         = {x \in Tops(rows[i + 1]) : Emitted(x[1], i)} \cup Own(c, Above(c))
  <2>1. {x \in Tops(rows[i + 1]) : Emitted(x[1], i)}' = {x \in Tops(rows[i + 1]) : Emitted(x[1], i)'}
    BY <1>1
  <2>. QED BY <1>8, <1>11, <1>12, <2>1
<1>14. Shown(i)' = Shown(i) \cup Own(c, Above(c))
  BY <1>10, <1>13 DEF Shown
<1>15. \A s : KindOf(i, s)' = KindOf(i, s)
  BY <1>1 DEF KindOf, Share
<1>16. Shown(i) \cap Own(c, Above(c)) = {}
  BY <1>7, <1>12 DEF Shown, TiesGiven
<1>. QED BY <1>10, <1>14, <1>15, <1>16

(* The threads of a CTA share out its slots, whatever order was foreseen.    *)
Foreseen(A, b, f) ==
  /\ \A j \in A : f[j] \in Nat /\ b <= f[j] /\ f[j] < b + Cardinality(A)
  /\ \A j, k \in A : f[j] = f[k] => j = k
Turned(A, b, f, turn) ==
  /\ \A j \in A : b + turn[j] \in Nat /\ \E k \in A : f[k] = b + turn[j]
  /\ \A j, k \in A : b + turn[j] = b + turn[k] => j = k
LEMMA TurnsShare ==
  ASSUME NEW A, IsFiniteSet(A), NEW b \in Nat, NEW f, NEW turn \in Injection(A, 0 .. Cardinality(A) - 1),
         Foreseen(A, b, f)
  PROVE  Turned(A, b, f, turn)
<1>0. /\ Cardinality(A) \in Nat
      /\ \A j \in A : f[j] \in Nat /\ b <= f[j] /\ f[j] < b + Cardinality(A)
      /\ \A j, k \in A : f[j] = f[k] => j = k
  BY FS_CardinalityType DEF Foreseen
<1>1. \A j \in A : turn[j] \in 0 .. Cardinality(A) - 1
  BY DEF Injection
<1>2. \A j, k \in A : turn[j] = turn[k] => j = k
  BY DEF Injection, IsInjective
<1>. DEFINE h == [j \in A |-> f[j] - b]
<1>3. h \in [A -> Nat] /\ \A j \in A : h[j] < Cardinality(A)
  BY <1>0
<1>4. \A j, k \in A : h[j] = h[k] => j = k
  <2>1. \A j, k \in A : f[j] - b = f[k] - b => f[j] = f[k]
    BY <1>0
  <2>. QED BY <1>0, <2>1
<1>5. \A n \in 0 .. Cardinality(A) - 1 : \E k \in A : h[k] = n
  <2>. HIDE DEF h
  <2>. QED BY <1>3, <1>4, NoSlotLeft
<1>6. ASSUME NEW j \in A
      PROVE  b + turn[j] \in Nat /\ \E k \in A : f[k] = b + turn[j]
  <2>1. PICK k \in A : h[k] = turn[j]
    BY <1>1, <1>5
  <2>2. f[k] - b = turn[j] /\ f[k] \in Nat
    BY <1>0, <2>1
  <2>3. f[k] = b + turn[j]
    BY <2>2
  <2>. QED BY <2>2, <2>3
<1>7. \A j, k \in A : b + turn[j] = b + turn[k] => j = k
  <2>1. \A j \in A : turn[j] \in Nat
    BY <1>0, <1>1
  <2>2. \A j, k \in A : b + turn[j] = b + turn[k] => turn[j] = turn[k]
    BY <2>1
  <2>. QED BY <1>2, <2>2
<1>. QED BY <1>6, <1>7 DEF Turned

LEMMA RowEmit ==
  ASSUME ControlInv, DataInv, OutInv, NEW c \in CTA, CtaStep(c), Emit(c), NEW i \in Nat, i = it[c]
  PROVE  RowOut(i)'
<1>. DEFINE row == rows[i + 1]
            A == Above(c)
<1>1. /\ Aim(c) = "emit" /\ Aim(c)' = "eq" /\ it' = it /\ UNCHANGED <<rows, kernel>>
      /\ \A d \in CTA \ {c} : Aim(d)' = Aim(d) /\ base'[d] = base[d]
      /\ base[c] \in Nat
  BY EmitDoes, StepReach DEF OutInv, OutTypes, Alone, Aim
<1>. Alone(c)
  BY StepReach DEF OutInv
<1>2. /\ i < Len(rows) /\ ~Trivial(rows[i + 1]) /\ Row(c) = rows[i + 1] /\ WorkedOut(i)
      /\ \A s : KindOf(i, s) = "index"
  BY <1>1, CollectRow
<1>3. row \in Rows /\ Shown(i) \subseteq Given(i) /\ ~kernel.det
  BY <1>1, <1>2, GivenFacts, StageIs
<1>4. A = TopsOf(row, c) /\ IsFiniteSet(A)
  BY <1>1, <1>2, PivotFound DEF AfterRounds
<1>5. /\ Given(i)' = Given(i) /\ Shown(i)' = Shown(i) \cup Own(c, A) /\ \A s : KindOf(i, s)' = KindOf(i, s)
      /\ Shown(i) \cap Own(c, A) = {}
  BY EmitGives
<1>6. PICK f : OneEach(i, f) /\ InReach(i, f) /\ FromBase(i, f) /\ Holds(i, f)
  BY <1>2 DEF WorkedOut
<1>7. PICK turn \in Injection(A, 0 .. Cardinality(A) - 1) :
        out' = out \cup Written(c, A, [j \in A |-> base[c] + turn[j]])
  BY EmitDoes DEF OutInv
<1>8. \A j \in A : <<c, j>> \in Given(i) /\ <<c, j>> \in Tops(row)
  <2>. SUFFICES ASSUME NEW j \in A PROVE <<c, j>> \in Given(i) /\ <<c, j>> \in Tops(row)
    OBVIOUS
  <2>1. Claimed(c, i)
    BY <1>1 DEF Claimed
  <2>2. <<c, j>> \in Tops(row) /\ <<c, j>>[1] = c
    BY <1>2, <1>3, <1>4, SlotSums
  <2>. QED BY <2>1, <2>2 DEF Given
<1>9. /\ \A x \in Given(i) : f[x] \in Nat /\ f[x] < Cardinality(Given(i)) /\ (x \in Tops(row) => f[x] < K)
      /\ \A x, y \in Given(i) : f[x] = f[y] => x = y
  BY <1>3, <1>6 DEF OneEach, InReach
<1>10. \A j \in A : base[c] <= f[<<c, j>>] /\ f[<<c, j>>] < base[c] + Cardinality(A)
  <2>1. Emitting(c, i)
    BY <1>1 DEF Emitting
  <2>. QED BY <1>4, <1>6, <2>1 DEF FromBase
<1>11. /\ \A j \in A : base[c] + turn[j] \in Nat /\ \E k \in A : f[<<c, k>>] = base[c] + turn[j]
       /\ \A j, k \in A : base[c] + turn[j] = base[c] + turn[k] => j = k
  <2>0. PICK fc, b : fc = [j \in A |-> f[<<c, j>>]] /\ b = base[c]
    OBVIOUS
  <2>1. \A j \in A : fc[j] \in Nat /\ b <= fc[j] /\ fc[j] < b + Cardinality(A)
    BY <1>8, <1>9, <1>10, <2>0
  <2>2. \A j, k \in A : fc[j] = fc[k] => j = k
    <3>1. \A j, k : <<c, j>> = <<c, k>> => j = k
      OBVIOUS
    <3>. QED BY <1>8, <1>9, <2>0, <3>1
  <2>3. \A j \in A : fc[j] = f[<<c, j>>]
    BY <2>0
  <2>. HIDE DEF A
  <2>4. turn \in Injection(A, 0 .. Cardinality(A) - 1) /\ b \in Nat /\ IsFiniteSet(A)
    BY <1>1, <1>4, <1>7, <2>0
  <2>5. /\ \A j \in A : b + turn[j] \in Nat /\ \E k \in A : fc[k] = b + turn[j]
        /\ \A j, k \in A : b + turn[j] = b + turn[k] => j = k
    <3>1. Foreseen(A, b, fc)
      BY <2>1, <2>2 DEF Foreseen
    <3>2. Turned(A, b, fc, turn)
      BY <2>4, <3>1, TurnsShare
    <3>. QED BY <3>2 DEF Turned
  <2>. QED BY <2>0, <2>3, <2>5
<1>12. PICK g : g = [x \in Given(i) |-> IF x \in Own(c, A) THEN base[c] + turn[x[2]] ELSE f[x]]
  OBVIOUS
<1>13. /\ \A x \in Own(c, A) : x \in Given(i) /\ x[2] \in A /\ x = <<c, x[2]>>
       /\ \A j \in A : <<c, j>> \in Own(c, A) /\ <<c, j>>[2] = j
  BY <1>8 DEF Own
<1>. HIDE DEF A, row
<1>14. /\ \A x \in Given(i) : x \notin Own(c, A) => g[x] = f[x]
       /\ \A j \in A : g[<<c, j>>] = base[c] + turn[j]
       /\ g = [x \in Given(i) |-> g[x]]
  BY <1>8, <1>12, <1>13
<1>15. \A x \in Own(c, A) : \E y \in Own(c, A) : g[x] = f[y] /\ y \in Tops(row)
  <2>. SUFFICES ASSUME NEW x \in Own(c, A) PROVE \E y \in Own(c, A) : g[x] = f[y] /\ y \in Tops(row)
    OBVIOUS
  <2>1. x[2] \in A /\ g[x] = base[c] + turn[x[2]]
    BY <1>13, <1>14
  <2>2. PICK k \in A : f[<<c, k>>] = base[c] + turn[x[2]]
    BY <1>11, <2>1
  <2>. QED BY <1>8, <1>13, <2>1, <2>2
<1>16. \A x \in Given(i) : g[x] \in Nat /\ g[x] < Cardinality(Given(i)) /\ (x \in Tops(row) => g[x] < K)
  <2>1. \A x \in Own(c, A) : g[x] \in Nat /\ g[x] < Cardinality(Given(i)) /\ g[x] < K
    <3>. SUFFICES ASSUME NEW x \in Own(c, A)
                  PROVE  g[x] \in Nat /\ g[x] < Cardinality(Given(i)) /\ g[x] < K
      OBVIOUS
    <3>1. PICK y \in Own(c, A) : g[x] = f[y] /\ y \in Tops(row)
      BY <1>15
    <3>2. y \in Given(i)
      BY <1>13
    <3>. QED BY <1>9, <3>1, <3>2
  <2>2. \A x \in Given(i) \ Own(c, A) :
           g[x] \in Nat /\ g[x] < Cardinality(Given(i)) /\ (x \in Tops(row) => g[x] < K)
    BY <1>9, <1>14
  <2>. QED BY <2>1, <2>2
<1>17. \A x, y \in Given(i) : g[x] = g[y] => x = y
  <2>1. \A x, y \in Own(c, A) : g[x] = g[y] => x = y
    <3>1. \A x \in Own(c, A) : g[x] = base[c] + turn[x[2]] /\ x[2] \in A /\ x = <<c, x[2]>>
      BY <1>13, <1>14
    <3>2. \A x, y \in Own(c, A) : g[x] = g[y] => x[2] = y[2]
      BY <1>11, <3>1
    <3>. QED BY <3>1, <3>2
  <2>2. \A x \in Own(c, A), y \in Given(i) \ Own(c, A) : g[x] # g[y]
    <3>. TAKE x \in Own(c, A), y \in Given(i) \ Own(c, A)
    <3>1. PICK z \in Own(c, A) : g[x] = f[z]
      BY <1>15
    <3>2. z \in Given(i) /\ z # y /\ g[y] = f[y]
      BY <1>13, <1>14
    <3>. QED BY <1>9, <3>1, <3>2
  <2>. QED BY <1>9, <1>14, <2>1, <2>2
<1>18. OneEach(i, g)'
  BY <1>5, <1>14, <1>16, <1>17 DEF OneEach
<1>19. InReach(i, g)'
  BY <1>1, <1>3, <1>5, <1>16 DEF InReach, row
<1>20. FromBase(i, g)'
  <2>. SUFFICES ASSUME NEW d \in CTA, Emitting(d, i)', NEW j \in TopsOf(row, d)
                PROVE  base'[d] <= g[<<d, j>>] /\ g[<<d, j>>] < base'[d] + Cardinality(TopsOf(row, d))
    BY <1>1 DEF FromBase, row
  <2>1. d # c /\ Emitting(d, i) /\ base'[d] = base[d]
    BY <1>1 DEF Emitting
  <2>2. <<d, j>> \in Given(i)
    <3>1. Claimed(d, i)
      BY <2>1 DEF Emitting, Claimed
    <3>2. <<d, j>> \in Tops(row) /\ <<d, j>>[1] = d
      BY <1>2, <1>3, SlotSums DEF row
    <3>. QED BY <3>1, <3>2 DEF Given, row
  <2>3. <<d, j>> \notin Own(c, A)
    BY <2>1 DEF Own
  <2>4. base[d] <= f[<<d, j>>] /\ f[<<d, j>>] < base[d] + Cardinality(TopsOf(row, d))
    BY <1>6, <2>1 DEF FromBase, row
  <2>. QED BY <1>14, <2>1, <2>2, <2>3, <2>4
<1>21. Written(c, A, [j \in A |-> base[c] + turn[j]]) = Wrote(i, g, Own(c, A))
  <2>1. \A j \in A : [k \in A |-> base[c] + turn[k]][j] = g[<<c, j>>] /\ g[<<c, j>>] < K
    BY <1>8, <1>14, <1>16
  <2>. QED BY <2>1, WrittenIs
<1>22. OutOf(i)' = OutOf(i) \cup Wrote(i, g, Own(c, A))
  <2>1. \A w \in Wrote(i, g, Own(c, A)) : w[1] = i
    BY DEF Wrote
  <2>. QED BY <1>7, <1>21, <2>1 DEF OutOf
<1>23. Holds(i, g)'
  <2>1. \A s : KindOf(i, s) = "index" /\ KindOf(i, s)' = "index"
    BY <1>2, <1>5
  <2>2. Shown(i)' = Shown(i) \cup Own(c, A) /\ Holds(i, f)
    BY <1>5, <1>6
  <2>3. \A x \in Shown(i) : g[x] = f[x]
    BY <1>3, <1>5, <1>14
  <2>. QED BY <1>22, <2>1, <2>2, <2>3, HoldsStep
<1>24. WorkedOut(i)'
  BY <1>18, <1>19, <1>20, <1>23 DEF WorkedOut
<1>. QED BY <1>1, <1>2, <1>24 DEF RowOut

LEMMA CollectGives ==
  ASSUME ControlInv, DataInv, OutInv, NEW c \in CTA, CollectEq(c), Alone(c), NEW i, i = it[c],
         NEW j \in left[c], left' = [left EXCEPT ![c] = @ \ {j}]
  PROVE  /\ Given(i)' = Given(i) \cup {<<c, j>>} /\ Shown(i)' = Shown(i) \cup {<<c, j>>}
         /\ <<c, j>> \notin Given(i) /\ <<c, j>> \notin Tops(rows[i + 1])
         /\ Cardinality(Given(i)') = Cardinality(Given(i)) + 1
         /\ \A d \in CTA : Emitting(d, i)' => Emitting(d, i)
         /\ \A s : KindOf(i, s)' = KindOf(i, s)
<1>1. /\ Aim(c) = "eq" /\ Aim(c)' = "eq" /\ it' = it /\ UNCHANGED <<rows, kernel>>
      /\ \A d \in CTA \ {c} : Aim(d)' = Aim(d)
  <2>1. left[c] # {}
    OBVIOUS
  <2>. QED BY <2>1, CollectDoes DEF OutInv, Alone, Aim
<1>2. /\ i \in Nat /\ i < Len(rows) /\ ~Trivial(rows[i + 1]) /\ Row(c) = rows[i + 1]
      /\ ~(it[c] > i)
  BY <1>1, CollectRow
<1>3. left[c] \subseteq TiesOf(rows[i + 1], c) /\ left \in [CTA -> SUBSET Nat]
  BY <1>1, <1>2 DEF OutInv, OutTypes, LeftInv
<1>4. left'[c] = left[c] \ {j} /\ \A d \in CTA \ {c} : left'[d] = left[d]
  BY <1>3
<1>5. \A d \in CTA \ {c} : /\ Collected(d, i)' = Collected(d, i)
                           /\ Emitted(d, i)' = Emitted(d, i)
                           /\ Claimed(d, i)' = Claimed(d, i)
  BY <1>1, <1>4 DEF Collected, Emitted, Claimed
<1>6. Collected(c, i) = TiesOf(rows[i + 1], c) \ left[c] /\ Claimed(c, i) /\ Emitted(c, i)
  BY <1>1, <1>2 DEF Collected, Emitted, Claimed
<1>7. Collected(c, i)' = TiesOf(rows[i + 1], c) \ (left[c] \ {j}) /\ Claimed(c, i)' /\ Emitted(c, i)'
  BY <1>1, <1>2, <1>4 DEF Collected, Emitted, Claimed
<1>8. Collected(c, i)' = Collected(c, i) \cup {j} /\ j \notin Collected(c, i)
  BY <1>3, <1>6, <1>7
<1>9. /\ rows[i + 1] \in Rows /\ Tops(rows[i + 1]) \subseteq Win(rows[i + 1])
      /\ \A x \in Win(rows[i + 1]) : x[1] \in CTA /\ x[2] \in Nat /\ x = <<x[1], x[2]>>
  BY <1>2, GivenFacts, WinFacts
<1>10. <<c, j>> \in Win(rows[i + 1]) \ Tops(rows[i + 1]) /\ <<c, j>>[1] = c /\ <<c, j>>[2] = j
  BY <1>2, <1>3, <1>9, SlotSums
<1>. DEFINE T == Win(rows[i + 1]) \ Tops(rows[i + 1])
<1>11. TiesGiven(i) = {x \in T : x[2] \in Collected(x[1], i)}
  BY DEF TiesGiven
<1>12. TiesGiven(i)' = {x \in T : x[2] \in Collected(x[1], i)'}
  BY <1>1 DEF TiesGiven
<1>13. \A x \in T : x[2] \in Collected(x[1], i)' <=> x[2] \in Collected(x[1], i) \/ x = <<c, j>>
  <2>. SUFFICES ASSUME NEW x \in T
                PROVE  x[2] \in Collected(x[1], i)' <=> x[2] \in Collected(x[1], i) \/ x = <<c, j>>
    OBVIOUS
  <2>1. x[1] \in CTA /\ x = <<x[1], x[2]>>
    BY <1>9
  <2>2. CASE x[1] = c
    <3>1. Collected(x[1], i)' = Collected(x[1], i) \cup {j}
      BY <1>8, <2>2
    <3>2. x = <<c, j>> <=> x[2] = j
      BY <1>10, <2>1, <2>2
    <3>. QED BY <3>1, <3>2
  <2>3. CASE x[1] # c
    <3>1. Collected(x[1], i)' = Collected(x[1], i)
      BY <1>5, <2>1, <2>3
    <3>. QED BY <1>10, <2>3, <3>1
  <2>. QED BY <2>2, <2>3
<1>14. TiesGiven(i)' = TiesGiven(i) \cup {<<c, j>>} /\ <<c, j>> \notin TiesGiven(i)
  <2>. HIDE DEF T
  <2>1. <<c, j>> \in T
    BY <1>10 DEF T
  <2>2. TiesGiven(i)' = TiesGiven(i) \cup {<<c, j>>}
    BY <1>11, <1>12, <1>13, <2>1
  <2>3. <<c, j>> \notin TiesGiven(i)
    BY <1>8, <1>10, <1>11
  <2>. QED BY <2>2, <2>3
<1>15. /\ {x \in Tops(rows[i + 1]) : Claimed(x[1], i)}' = {x \in Tops(rows[i + 1]) : Claimed(x[1], i)}
       /\ {x \in Tops(rows[i + 1]) : Emitted(x[1], i)}' = {x \in Tops(rows[i + 1]) : Emitted(x[1], i)}
  <2>1. \A d \in CTA : (Claimed(d, i)' <=> Claimed(d, i)) /\ (Emitted(d, i)' <=> Emitted(d, i))
    BY <1>5, <1>6, <1>7
  <2>2. \A x \in Tops(rows[i + 1]) : (Claimed(x[1], i)' <=> Claimed(x[1], i)) /\ (Emitted(x[1], i)' <=> Emitted(x[1], i))
    BY <1>9, <2>1
  <2>. QED BY <1>1, <2>2
<1>16. Given(i)' = Given(i) \cup {<<c, j>>} /\ Shown(i)' = Shown(i) \cup {<<c, j>>}
  BY <1>14, <1>15 DEF Given, Shown
<1>17. <<c, j>> \notin Given(i) /\ <<c, j>> \notin Tops(rows[i + 1])
  BY <1>10, <1>14 DEF Given
<1>18. Cardinality(Given(i)') = Cardinality(Given(i)) + 1
  <2>1. IsFiniteSet(Given(i))
    BY <1>2, GivenFacts
  <2>. QED BY <1>16, <1>17, <2>1, FS_AddElement
<1>19. \A d \in CTA : Emitting(d, i)' => Emitting(d, i)
  BY <1>1 DEF Emitting
<1>20. \A s : KindOf(i, s)' = KindOf(i, s)
  BY <1>1 DEF KindOf, Share
<1>. QED BY <1>16, <1>17, <1>18, <1>19, <1>20

LEMMA RowCollect ==
  ASSUME ControlInv, DataInv, OutInv, NEW c \in CTA, CtaStep(c), CollectEq(c), left[c] # {},
         NEW i \in Nat, i = it[c]
  PROVE  RowOut(i)'
<1>1. /\ Aim(c) = "eq" /\ UNCHANGED <<rows, kernel, base>>
  BY CollectDoes, StepReach DEF OutInv
<1>. Alone(c) /\ OutputInv(c)
  BY StepReach DEF OutInv
<1>2. /\ i < Len(rows) /\ ~Trivial(rows[i + 1]) /\ Row(c) = rows[i + 1] /\ WorkedOut(i)
      /\ \A s : KindOf(i, s) = "index"
  BY <1>1, CollectRow
<1>3. PICK j \in left[c] :
        /\ left' = [left EXCEPT ![c] = @ \ {j}]
        /\ out' = IF output < K THEN out \cup {<<i, output, "index", {<<c, j>>}>>} ELSE out
  BY CollectDoes DEF OutInv
<1>4. /\ Given(i)' = Given(i) \cup {<<c, j>>} /\ Shown(i)' = Shown(i) \cup {<<c, j>>}
      /\ <<c, j>> \notin Given(i) /\ <<c, j>> \notin Tops(rows[i + 1])
      /\ Cardinality(Given(i)') = Cardinality(Given(i)) + 1
      /\ \A d \in CTA : Emitting(d, i)' => Emitting(d, i)
      /\ \A s : KindOf(i, s)' = KindOf(i, s)
  BY <1>3, CollectGives
<1>. DEFINE row == rows[i + 1]
            n == Cardinality(Given(i))
            G == Given(i) \cup {<<c, j>>}
<1>5. row \in Rows /\ IsFiniteSet(Given(i)) /\ n \in Nat /\ Shown(i) \subseteq Given(i) /\ ~kernel.det
  BY <1>1, <1>2, GivenFacts, StageIs
<1>6. output = n
  BY <1>1 DEF OutputInv, Counting
<1>7. PICK f : OneEach(i, f) /\ InReach(i, f) /\ FromBase(i, f) /\ Holds(i, f)
  BY <1>2 DEF WorkedOut
<1>8. PICK g : g = [x \in G |-> IF x = <<c, j>> THEN n ELSE f[x]]
  OBVIOUS
<1>9. /\ \A x \in Given(i) : g[x] = f[x] /\ f[x] \in Nat /\ f[x] < n
      /\ g[<<c, j>>] = n /\ g = [x \in G |-> g[x]]
  BY <1>4, <1>5, <1>7, <1>8 DEF OneEach, InReach
<1>10. \A x \in G : g[x] \in Nat /\ g[x] < n + 1 /\ (x \in Tops(row) => g[x] < K)
  <2>1. \A x \in Given(i) : g[x] \in Nat /\ g[x] < n + 1
    <3>. HIDE DEF n
    <3>. QED BY <1>5, <1>9
  <2>2. \A x \in Given(i) : x \in Tops(row) => g[x] < K
    BY <1>7, <1>9 DEF InReach
  <2>3. g[<<c, j>>] \in Nat /\ g[<<c, j>>] < n + 1 /\ <<c, j>> \notin Tops(row)
    <3>. HIDE DEF n
    <3>. QED BY <1>4, <1>5, <1>9
  <2>. QED BY <2>1, <2>2, <2>3
<1>11. \A x, y \in G : g[x] = g[y] => x = y
  <2>1. \A x, y \in Given(i) : g[x] = g[y] => x = y
    BY <1>7, <1>9 DEF OneEach
  <2>2. \A x \in Given(i) : g[x] # g[<<c, j>>]
    <3>. HIDE DEF n
    <3>1. \A x \in Given(i) : g[x] < n /\ g[x] \in Nat
      BY <1>9
    <3>2. g[<<c, j>>] = n /\ n \in Nat
      BY <1>5, <1>9
    <3>. QED BY <3>1, <3>2
  <2>. QED BY <2>1, <2>2
<1>12. OneEach(i, g)'
  <2>. HIDE DEF G
  <2>1. G = Given(i)'
    BY <1>4 DEF G
  <2>. QED BY <1>9, <1>10, <1>11, <2>1 DEF OneEach
<1>13. InReach(i, g)'
  <2>1. \A x \in Given(i)' : g[x] < Cardinality(Given(i)') /\ (x \in Tops(row) => g[x] < K)
    <3>1. Cardinality(Given(i)') = n + 1 /\ Given(i)' = G
      BY <1>4
    <3>. HIDE DEF n
    <3>. QED BY <1>10, <3>1
  <2>. QED BY <1>1, <1>5, <2>1 DEF InReach
<1>14. FromBase(i, g)'
  <2>. SUFFICES ASSUME NEW d \in CTA, Emitting(d, i)', NEW k \in TopsOf(row, d)
                PROVE  /\ base'[d] <= g[<<d, k>>]
                       /\ g[<<d, k>>] < base'[d] + Cardinality(TopsOf(row, d))
    BY <1>1 DEF FromBase
  <2>1. Emitting(d, i) /\ Claimed(d, i)
    BY <1>4 DEF Emitting, Claimed
  <2>2. <<d, k>> \in Tops(row) /\ <<d, k>>[1] = d
    BY <1>2, <1>5, SlotSums
  <2>3. <<d, k>> \in Given(i)
    BY <2>1, <2>2 DEF Given
  <2>4. base[d] <= f[<<d, k>>] /\ f[<<d, k>>] < base[d] + Cardinality(TopsOf(row, d))
    BY <1>7, <2>1 DEF FromBase
  <2>. QED BY <1>1, <1>9, <2>3, <2>4
<1>15. Holds(i, g)'
  <2>1. OutOf(i)' = OutOf(i) \cup Wrote(i, g, {<<c, j>>})
    <3>1. Wrote(i, g, {<<c, j>>}) = IF output < K THEN {<<i, output, "index", {<<c, j>>}>>} ELSE {}
      <4>1. g[<<c, j>>] = output
        BY <1>6, <1>9
      <4>2. CASE output < K
        <5>1. {y \in {<<c, j>>} : g[y] < K} = {<<c, j>>}
          BY <4>1, <4>2
        <5>. QED BY <4>1, <4>2, <5>1 DEF Wrote
      <4>3. CASE ~(output < K)
        <5>1. {y \in {<<c, j>>} : g[y] < K} = {}
          BY <4>1, <4>3
        <5>. QED BY <4>3, <5>1 DEF Wrote
      <4>. QED BY <4>2, <4>3
    <3>2. out' = out \cup Wrote(i, g, {<<c, j>>})
      BY <1>3, <3>1
    <3>3. \A w \in Wrote(i, g, {<<c, j>>}) : w[1] = i
      BY DEF Wrote
    <3>. QED BY <3>2, <3>3 DEF OutOf
  <2>2. \A x \in Shown(i) : g[x] = f[x]
    BY <1>5, <1>9
  <2>3. Shown(i)' = Shown(i) \cup {<<c, j>>} /\ \A s : KindOf(i, s) = "index" /\ KindOf(i, s)' = "index"
    BY <1>2, <1>4
  <2>4. Holds(i, f)
    BY <1>7
  <2>. QED BY <2>1, <2>2, <2>3, <2>4, HoldsStep
<1>16. WorkedOut(i)'
  BY <1>12, <1>13, <1>14, <1>15 DEF WorkedOut
<1>. QED BY <1>1, <1>2, <1>16 DEF RowOut

(* All published counts are there for a CTA that derives its slots.          *)
LEMMA AllPublished ==
  ASSUME ControlInv, OutInv, NEW c \in CTA, NEW i, i = it[c], pc[c] = "place"
  PROVE  \A d \in CTA : scratch[d] = CountsOf(rows[i + 1], d)
<1>1. Aim(c) = "place" /\ Aim(c) \in OfRow /\ pc[c] \notin InBarrier
  BY DEF Aim, InBarrier, OfRow
<1>2. Stage(c) = kernel.rounds + 2 /\ kernel.rounds \in {2, 4} /\ kernel.det
  BY <1>1, StageIs
<1>3. ASSUME NEW d \in CTA
      PROVE  Published(d, i)
  <2>1. it[d] \in Nat /\ i \in Nat
    BY Seat
  <2>2. it[d] >= i /\ (it[d] = i => Stage(d) >= kernel.rounds + 2)
    BY <1>1, <1>2, Others
  <2>3. CASE it[d] = i
    <3>1. Stage(d) >= kernel.rounds + 2 /\ Aim(d) \notin {"claim", "emit", "eq"} /\ rnd[d] + 2 < kernel.rounds + 2
      BY <1>2, <2>2, <2>3, StageIs, Seat
    <3>2. Aim(d) \in OfRow
      BY <1>2, <3>1, Seat
    <3>3. Aim(d) \notin {"zero", "fold", "clear", "read", "select", "publish"}
      BY <1>2, <3>1, StageIs, Seat DEF OfRound
    <3>4. Aim(d) \in {"place", "gather"}
      BY <3>1, <3>2, <3>3 DEF OfRow
    <3>. QED BY <2>3, <3>4 DEF Published
  <2>4. CASE it[d] # i
    BY <2>1, <2>2, <2>4 DEF Published
  <2>. QED BY <2>3, <2>4
<1>. QED BY <1>1, <1>3 DEF OutInv, ScratchInv, Row

LEMMA CountFields ==
  ASSUME NEW s, NEW n, NEW m, s = [gt |-> n, eq |-> m]
  PROVE  s["gt"] = n /\ s["eq"] = m
BY Zenon

LEMMA SumsRead ==
  ASSUME ControlInv, OutInv, NEW c \in CTA, NEW i, i = it[c], pc[c] = "place", NEW n
  PROVE  /\ SumBefore("gt", n) = Totals(Sizes(TopSets(rows[i + 1])))[n]
         /\ SumBefore("eq", n) = Totals(Sizes(TieSets(rows[i + 1])))[n]
<1>1. \A d \in CTA : scratch[d] = CountsOf(rows[i + 1], d)
  BY AllPublished
<1>2. \A d \in CTA : /\ scratch[d]["gt"] = Cardinality(TopsOf(rows[i + 1], d))
                     /\ scratch[d]["eq"] = Cardinality(TiesOf(rows[i + 1], d))
  <2>. TAKE d \in CTA
  <2>1. scratch[d] = [gt |-> Cardinality(TopsOf(rows[i + 1], d)), eq |-> Cardinality(TiesOf(rows[i + 1], d))]
    BY <1>1 DEF CountsOf
  <2>2. \A a, b : scratch[d] = [gt |-> a, eq |-> b] => scratch[d]["gt"] = a /\ scratch[d]["eq"] = b
    BY CountFields, Zenon
  <2>. QED BY <2>1, <2>2, Zenon
<1>3. [d \in CTA |-> scratch[d]["gt"]] = Sizes(TopSets(rows[i + 1]))
  BY <1>2 DEF Sizes, TopSets
<1>4. [d \in CTA |-> scratch[d]["eq"]] = Sizes(TieSets(rows[i + 1]))
  BY <1>2 DEF Sizes, TieSets
<1>5. /\ SumBefore("gt", n) = Totals([d \in CTA |-> scratch[d]["gt"]])[n]
      /\ SumBefore("eq", n) = Totals([d \in CTA |-> scratch[d]["eq"]])[n]
  BY DEF SumBefore
<1>. QED BY <1>3, <1>4, <1>5

LEMMA PlaceGives ==
  ASSUME ControlInv, DataInv, OutInv, NEW c \in CTA, Place(c), Alone(c), NEW i, i = it[c]
  PROVE  LET N == Own(c, TopsOf(rows[i + 1], c)) \cup Own(c, TiesOf(rows[i + 1], c))
         IN /\ Given(i)' = Given(i) \cup N /\ Shown(i)' = Shown(i) \cup N
            /\ \A s : KindOf(i, s) = "index" /\ KindOf(i, s)' = "index"
<1>1. /\ Aim(c) = "place" /\ UNCHANGED <<rows, kernel, left>> /\ Leaves(c) /\ it[c] = i
      /\ \A d \in CTA \ {c} : Aim(d)' = Aim(d) /\ it'[d] = it[d]
  BY PlaceDoes DEF OutInv, Alone, Aim
<1>2. /\ i \in Nat /\ i < Len(rows) /\ ~Trivial(rows[i + 1]) /\ Row(c) = rows[i + 1]
      /\ ~(it[c] > i) /\ \A s : KindOf(i, s) = "index"
      /\ kernel.paged => \A d \in CTA : ~(it[d] > i)
  BY <1>1, CollectRow
<1>3. it'[c] > i \/ (it'[c] = i /\ Aim(c)' = "gather")
  BY <1>1, <1>2 DEF Leaves
<1>4. \A s : KindOf(i, s)' = "index"
  <2>1. kernel.paged => \A d \in CTA : ~(it'[d] > i)
    BY <1>1, <1>2 DEF Leaves
  <2>. QED BY <1>1, <2>1 DEF KindOf
<1>5. \A d \in CTA \ {c} : /\ Collected(d, i)' = Collected(d, i)
                           /\ Emitted(d, i)' <=> Emitted(d, i)
                           /\ Claimed(d, i)' <=> Claimed(d, i)
  BY <1>1 DEF Collected, Emitted, Claimed
<1>6. Collected(c, i) = {} /\ ~Claimed(c, i) /\ ~Emitted(c, i)
  BY <1>1, <1>2 DEF Collected, Emitted, Claimed
<1>7. Collected(c, i)' = TiesOf(rows[i + 1], c) /\ Claimed(c, i)' /\ Emitted(c, i)'
  BY <1>1, <1>3 DEF Collected, Emitted, Claimed
<1>. DEFINE row == rows[i + 1]
            T == Win(row) \ Tops(row)
            A == Own(c, TopsOf(row, c))
            B == Own(c, TiesOf(row, c))
<1>8. /\ row \in Rows /\ Tops(row) \subseteq Win(row)
      /\ \A x \in Win(row) : x[1] \in CTA /\ x[2] \in Nat /\ x = <<x[1], x[2]>>
  BY <1>2, GivenFacts, WinFacts
<1>9. A = {x \in Tops(row) : x[1] = c} /\ B = {x \in T : x[1] = c}
  <2>1. /\ \A j : j \in TopsOf(row, c) <=> <<c, j>> \in Tops(row)
        /\ \A j : j \in TiesOf(row, c) <=> <<c, j>> \in Win(row) \ Tops(row)
    BY <1>2, <1>8, SlotSums
  <2>. HIDE DEF row
  <2>2. A = {x \in Tops(row) : x[1] = c}
    BY <1>8, <2>1 DEF Own
  <2>3. B = {x \in T : x[1] = c}
    BY <1>8, <2>1 DEF Own
  <2>. QED BY <2>2, <2>3
<1>10. \A x \in T : x[2] \in Collected(x[1], i)' <=> x[2] \in Collected(x[1], i) \/ x \in B
  <2>. SUFFICES ASSUME NEW x \in T
                PROVE  x[2] \in Collected(x[1], i)' <=> x[2] \in Collected(x[1], i) \/ x \in B
    OBVIOUS
  <2>1. x[1] \in CTA /\ x = <<x[1], x[2]>>
    BY <1>8
  <2>2. CASE x[1] = c
    <3>1. x \in B /\ <<c, x[2]>> \in T
      BY <1>9, <2>1, <2>2
    <3>2. x[2] \in TiesOf(row, c)
      BY <1>2, <1>8, <3>1, SlotSums
    <3>. QED BY <1>7, <2>2, <3>1, <3>2
  <2>3. CASE x[1] # c
    BY <1>5, <1>9, <2>1, <2>3
  <2>. QED BY <2>2, <2>3
<1>11. TiesGiven(i)' = TiesGiven(i) \cup B
  <2>1. TiesGiven(i) = {x \in T : x[2] \in Collected(x[1], i)}
    BY DEF TiesGiven
  <2>2. TiesGiven(i)' = {x \in T : x[2] \in Collected(x[1], i)'}
    BY <1>1 DEF TiesGiven
  <2>3. B \subseteq T
    BY <1>9
  <2>. HIDE DEF T, B
  <2>. QED BY <1>10, <2>1, <2>2, <2>3
<1>12. /\ {x \in Tops(row) : Claimed(x[1], i)}' = {x \in Tops(row) : Claimed(x[1], i)} \cup A
       /\ {x \in Tops(row) : Emitted(x[1], i)}' = {x \in Tops(row) : Emitted(x[1], i)} \cup A
  <2>1. \A d \in CTA : /\ Claimed(d, i)' <=> (Claimed(d, i) \/ d = c)
                       /\ Emitted(d, i)' <=> (Emitted(d, i) \/ d = c)
    BY <1>5, <1>6, <1>7
  <2>2. \A x \in Tops(row) : x[1] \in CTA
    BY <1>8
  <2>3. /\ {x \in Tops(row) : Claimed(x[1], i)}' = {x \in Tops(row) : Claimed(x[1], i)'}
        /\ {x \in Tops(row) : Emitted(x[1], i)}' = {x \in Tops(row) : Emitted(x[1], i)'}
    BY <1>1
  <2>. HIDE DEF A, row
  <2>. QED BY <1>9, <2>1, <2>2, <2>3
<1>13. Given(i)' = Given(i) \cup (A \cup B) /\ Shown(i)' = Shown(i) \cup (A \cup B)
  <2>. HIDE DEF A, B
  <2>1. Given(i)' = {x \in Tops(row) : Claimed(x[1], i)}' \cup TiesGiven(i)'
    BY DEF Given
  <2>2. Shown(i)' = {x \in Tops(row) : Emitted(x[1], i)}' \cup TiesGiven(i)'
    BY DEF Shown
  <2>. QED BY <1>11, <1>12, <2>1, <2>2 DEF Given, Shown
<1>. QED BY <1>2, <1>4, <1>13

(* The deterministic collect of a CTA writes its keys where their slots are. *)
LEMMA PlaceWrites ==
  ASSUME ControlInv, DataInv, OutInv, NEW c \in CTA, Place(c), NEW i, i = it[c],
         NEW g, \A x \in Win(rows[i + 1]) : x[1] = c => g[x] = Slot(rows[i + 1], x)
  PROVE  out' = out \cup Wrote(i, g, Own(c, TopsOf(rows[i + 1], c)) \cup Own(c, TiesOf(rows[i + 1], c)))
<1>1. /\ Aim(c) = "place" /\ pc[c] = "place"
      /\ out' = out
           \cup Written(c, First(Above(c), GtLimit(c)), Ranked(Above(c), SumBefore("gt", c)))
           \cup Written(c, First(On(c), EqLimit(c)), Ranked(On(c), SumBefore("gt", CTAS) + SumBefore("eq", c)))
  BY PlaceDoes DEF OutInv
<1>2. /\ i \in Nat /\ i < Len(rows) /\ ~Trivial(rows[i + 1]) /\ Row(c) = rows[i + 1]
  BY <1>1, CollectRow
<1>. DEFINE row == rows[i + 1]
            A == TopsOf(row, c)
            B == TiesOf(row, c)
            s == Totals(Sizes(TopSets(row)))[c]
            t == Totals(Sizes(TopSets(row)))[CTAS] + Totals(Sizes(TieSets(row)))[c]
<1>3. /\ row \in Rows /\ Tops(row) \subseteq Win(row) /\ K \in Nat
  BY <1>2, GivenFacts, WinFacts
<1>4. Above(c) = A /\ On(c) = B /\ IsFiniteSet(A) /\ IsFiniteSet(B) /\ A \subseteq Nat /\ B \subseteq Nat
  BY <1>1, <1>2, PivotFound DEF AfterRounds
<1>5. /\ SumBefore("gt", c) = s
      /\ SumBefore("gt", CTAS) + SumBefore("eq", c) = t
      /\ GtLimit(c) = K - s
      /\ EqLimit(c) = K - Totals(Sizes(TopSets(row)))[CTAS] - Totals(Sizes(TieSets(row)))[c]
  BY <1>1, SumsRead DEF GtLimit, EqLimit
<1>6. /\ s \in Nat /\ Totals(Sizes(TopSets(row)))[CTAS] \in Nat /\ Totals(Sizes(TieSets(row)))[c] \in Nat
      /\ \A j : j \in A <=> <<c, j>> \in Tops(row)
      /\ \A j : j \in B <=> <<c, j>> \in Win(row) \ Tops(row)
      /\ \A j \in A : Slot(row, <<c, j>>) = s + Rank(A, j)
      /\ \A j \in B : Slot(row, <<c, j>>) = t + Rank(B, j)
  BY <1>2, <1>3, SlotSums
<1>7. t \in Nat /\ EqLimit(c) = K - t
  BY <1>3, <1>5, <1>6
<1>. HIDE DEF s, t
<1>8. /\ \A j \in A : Rank(A, j) \in Nat
      /\ \A j \in B : Rank(B, j) \in Nat
  BY <1>4, RankFacts
<1>9. /\ \A j \in A : g[<<c, j>>] = s + Rank(A, j)
      /\ \A j \in B : g[<<c, j>>] = t + Rank(B, j)
  <2>1. \A j \in A : <<c, j>> \in Win(row) /\ <<c, j>>[1] = c
    BY <1>3, <1>6
  <2>2. \A j \in B : <<c, j>> \in Win(row) /\ <<c, j>>[1] = c
    BY <1>6
  <2>. HIDE DEF A, B
  <2>. QED BY <1>6, <2>1, <2>2
<1>. HIDE DEF A, B, row
<1>10. /\ \A j : j \in First(A, K - s) <=> j \in A /\ g[<<c, j>>] < K
       /\ \A j : j \in First(B, K - t) <=> j \in B /\ g[<<c, j>>] < K
  BY <1>3, <1>6, <1>7, <1>8, <1>9 DEF First
<1>11. ASSUME NEW C \in SUBSET Nat, IsFiniteSet(C), NEW u \in Nat, \A j \in C : Rank(C, j) \in Nat /\ g[<<c, j>>] = u + Rank(C, j)
       PROVE  Written(c, First(C, K - u), Ranked(C, u)) = Wrote(i, g, Own(c, C))
  <2>. DEFINE F == First(C, K - u)
  <2>1. \A j : j \in F <=> j \in C /\ g[<<c, j>>] < K
    <3>1. \A j : j \in F <=> j \in C /\ Rank(C, j) < K - u
      BY DEF First
    <3>2. \A j \in C : Rank(C, j) < K - u <=> u + Rank(C, j) < K
      <4>1. \A a, b, k \in Nat : a < k - b <=> b + a < k
        OBVIOUS
      <4>2. u \in Nat /\ K \in Nat /\ \A j \in C : Rank(C, j) \in Nat
        BY <1>3, <1>11
      <4>. QED BY <4>1, <4>2
    <3>. QED BY <1>11, <3>1, <3>2
  <2>3. \A j \in F : Ranked(C, u)[j] = g[<<c, j>>] /\ g[<<c, j>>] < K
    BY <1>11, <2>1 DEF Ranked
  <2>4. Written(c, F, Ranked(C, u)) = Wrote(i, g, Own(c, F))
    <3>. HIDE DEF F
    <3>. QED BY <2>3, WrittenIs
  <2>5. Wrote(i, g, Own(c, F)) = Wrote(i, g, Own(c, C))
    <3>1. {y \in Own(c, F) : g[y] < K} = {y \in Own(c, C) : g[y] < K}
      <4>. HIDE DEF F
      <4>. QED BY <2>1 DEF Own
    <3>. QED BY <3>1 DEF Wrote
  <2>. QED BY <2>4, <2>5
<1>12. Written(c, First(A, K - s), Ranked(A, s)) = Wrote(i, g, Own(c, A))
  BY <1>4, <1>6, <1>8, <1>9, <1>11
<1>13. Written(c, First(B, K - t), Ranked(B, t)) = Wrote(i, g, Own(c, B))
  BY <1>4, <1>7, <1>8, <1>9, <1>11
<1>14. out' = out \cup Wrote(i, g, Own(c, A)) \cup Wrote(i, g, Own(c, B))
  <2>1. GtLimit(c) = K - s /\ EqLimit(c) = K - t /\ SumBefore("gt", c) = s
        /\ SumBefore("gt", CTAS) + SumBefore("eq", c) = t
    BY <1>5, <1>7
  <2>. QED BY <1>1, <1>4, <1>12, <1>13, <2>1
<1>15. Wrote(i, g, Own(c, A)) \cup Wrote(i, g, Own(c, B)) = Wrote(i, g, Own(c, A) \cup Own(c, B))
  BY DEF Wrote
<1>. QED BY <1>14, <1>15 DEF A, B, row

LEMMA RowPlace ==
  ASSUME ControlInv, DataInv, OutInv, NEW c \in CTA, CtaStep(c), Place(c), NEW i \in Nat, i = it[c]
  PROVE  RowOut(i)'
<1>1. /\ Aim(c) = "place" /\ UNCHANGED <<rows, kernel, base>> /\ Leaves(c)
      /\ \A d \in CTA \ {c} : Aim(d)' = Aim(d)
  BY PlaceDoes, StepReach DEF OutInv, Alone, Aim
<1>. Alone(c)
  BY StepReach DEF OutInv
<1>2. /\ i < Len(rows) /\ ~Trivial(rows[i + 1]) /\ Row(c) = rows[i + 1] /\ WorkedOut(i) /\ kernel.det
  BY <1>1, CollectRow, StageIs
<1>. DEFINE row == rows[i + 1]
            N == Own(c, TopsOf(row, c)) \cup Own(c, TiesOf(row, c))
<1>3. /\ row \in Rows /\ Shown(i) \subseteq Given(i) /\ Given(i) \subseteq Win(row)
      /\ Tops(row) \subseteq Win(row)
  BY <1>2, GivenFacts, WinFacts
<1>4. /\ Given(i)' = Given(i) \cup N /\ Shown(i)' = Shown(i) \cup N
      /\ \A s : KindOf(i, s) = "index" /\ KindOf(i, s)' = "index"
  BY PlaceGives
<1>5. N \subseteq Win(row)
  <2>1. /\ \A j : j \in TopsOf(row, c) <=> <<c, j>> \in Tops(row)
        /\ \A j : j \in TiesOf(row, c) <=> <<c, j>> \in Win(row) \ Tops(row)
    BY <1>2, <1>3, SlotSums
  <2>. QED BY <1>3, <2>1 DEF Own
<1>6. PICK f : OneEach(i, f) /\ InReach(i, f) /\ FromBase(i, f) /\ Holds(i, f)
  BY <1>2 DEF WorkedOut
<1>7. \A x \in Given(i) : f[x] = Slot(row, x)
  BY <1>2, <1>6 DEF InReach
<1>. DEFINE G == Given(i) \cup N
<1>8. PICK h : h = [x \in Win(row) |-> Slot(row, x)]
  OBVIOUS
<1>9. PICK g : g = [x \in G |-> h[x]]
  OBVIOUS
<1>10. G \subseteq Win(row) /\ G = Given(i)'
  BY <1>3, <1>4, <1>5
<1>11. \A x \in G : g[x] = Slot(row, x)
  BY <1>8, <1>9, <1>10
<1>12. /\ \A x \in G : g[x] \in Nat
       /\ \A x, y \in G : g[x] = g[y] => x = y
       /\ \A x \in G : x \in Tops(row) => g[x] < K
  BY <1>2, <1>3, <1>10, <1>11, SlotFacts
<1>13. OneEach(i, g)'
  <2>. HIDE DEF G
  <2>1. g \in [Given(i)' -> Nat]
    BY <1>9, <1>10, <1>12
  <2>2. \A x, y \in Given(i)' : g[x] = g[y] => x = y
    BY <1>10, <1>12
  <2>. QED BY <2>1, <2>2 DEF OneEach
<1>14. InReach(i, g)'
  BY <1>1, <1>2, <1>10, <1>11, <1>12 DEF InReach
<1>15. FromBase(i, g)'
  <2>. SUFFICES ASSUME NEW d \in CTA, Emitting(d, i)' PROVE FALSE
    BY DEF FromBase
  <2>1. Aim(d)' = "emit"
    BY DEF Emitting
  <2>2. Aim(c)' # "emit"
    BY <1>1 DEF Leaves
  <2>3. Aim(d) = "emit"
    BY <1>1, <2>1, <2>2
  <2>. QED BY <1>2, <2>3, StageIs
<1>16. Holds(i, g)'
  <2>0. \A x \in Win(row) : h[x] = Slot(row, x)
    BY <1>8
  <2>1. out' = out \cup Wrote(i, h, N)
    BY <2>0, PlaceWrites
  <2>2. Wrote(i, h, N) = Wrote(i, g, N)
    <3>1. \A x \in N : h[x] = g[x]
      BY <1>9
    <3>. HIDE DEF N
    <3>2. {y \in N : h[y] < K} = {y \in N : g[y] < K}
      BY <3>1
    <3>. QED BY <3>1, <3>2 DEF Wrote
  <2>3. OutOf(i)' = OutOf(i) \cup Wrote(i, g, N)
    <3>. HIDE DEF N
    <3>1. \A w \in Wrote(i, g, N) : w[1] = i
      BY DEF Wrote
    <3>. QED BY <2>1, <2>2, <3>1 DEF OutOf
  <2>4. \A x \in Shown(i) : g[x] = f[x]
    BY <1>3, <1>7, <1>11
  <2>5. Holds(i, f) /\ Shown(i)' = Shown(i) \cup N
    BY <1>4, <1>6
  <2>. HIDE DEF N
  <2>. QED BY <1>4, <2>3, <2>4, <2>5, HoldsStep
<1>17. WorkedOut(i)'
  BY <1>13, <1>14, <1>15, <1>16 DEF WorkedOut
<1>. QED BY <1>1, <1>2, <1>17 DEF RowOut

(* The shares of two CTAs have no slot in common.                            *)
LEMMA SharesApart ==
  ASSUME NEW c \in CTA, NEW d \in CTA, c # d, NEW s \in Share(c)
  PROVE  s \notin Share(d) /\ s \in 0 .. K - 1
<1>. DEFINE e == (K + CTAS - 1) \div CTAS
<1>1. e \in Nat
  BY CtasAssumption, KernelAssumption
<1>2. c \in Nat /\ d \in Nat
  BY CtasAssumption DEF CTA
<1>3. \A k : \A x \in Share(k) : x \in 0 .. K - 1 /\ x >= k * e /\ x < (k + 1) * e
  BY DEF Share
<1>. HIDE DEF e
<1>4. \A a, b \in Nat : a < b => (a + 1) * e <= b * e
  <2>. SUFFICES ASSUME NEW a \in Nat, NEW b \in Nat, a < b PROVE (a + 1) * e <= b * e
    OBVIOUS
  <2>1. PICK k \in Nat : b = (a + 1) + k
    <3>1. b - (a + 1) \in Nat /\ b = (a + 1) + (b - (a + 1))
      OBVIOUS
    <3>. QED BY <3>1
  <2>2. a + 1 \in Nat /\ (a + 1) * e \in Nat /\ k * e \in Nat
    BY <1>1
  <2>3. ((a + 1) + k) * e = (a + 1) * e + k * e
    BY <1>1, <2>2
  <2>. QED BY <2>1, <2>2, <2>3
<1>5. c * e \in Nat /\ (c + 1) * e \in Nat /\ d * e \in Nat /\ (d + 1) * e \in Nat
  BY <1>1, <1>2
<1>6. (c + 1) * e <= d * e \/ (d + 1) * e <= c * e
  BY <1>2, <1>4
<1>7. s \in 0 .. K - 1 /\ s >= c * e /\ s < (c + 1) * e /\ K \in Nat
  BY <1>3, KernelAssumption
<1>8. s \notin Share(d)
  <2>. SUFFICES ASSUME s \in Share(d) PROVE FALSE
    OBVIOUS
  <2>1. s >= d * e /\ s < (d + 1) * e /\ s \in Nat
    BY <1>3, <1>7
  <2>. QED BY <1>5, <1>6, <1>7, <2>1
<1>. QED BY <1>7, <1>8

(* Once a CTA turns to the pages, every key that is to have a slot has one.  *)
LEMMA AllGiven ==
  ASSUME ControlInv, NEW c \in CTA, NEW i, i = it[c], pc[c] = "gather"
  PROVE  /\ \A d \in CTA : /\ it[d] > i \/ (it[d] = i /\ Aim(d) = "gather")
         /\ Given(i) = Win(rows[i + 1]) /\ Shown(i) = Win(rows[i + 1])
<1>1. Aim(c) = "gather" /\ Aim(c) \in OfRow /\ pc[c] \notin InBarrier
  BY DEF Aim, InBarrier, OfRow
<1>2. Stage(c) = kernel.rounds + 3 /\ kernel.rounds \in {2, 4}
  BY <1>1, StageIs
<1>3. ASSUME NEW d \in CTA
      PROVE  it[d] > i \/ (it[d] = i /\ Aim(d) = "gather")
  <2>1. it[d] \in Nat /\ i \in Nat
    BY Seat
  <2>2. it[d] >= i /\ (it[d] = i => Stage(d) >= kernel.rounds + 3)
    BY <1>1, <1>2, Others
  <2>3. CASE it[d] = i
    <3>1. Stage(d) >= kernel.rounds + 3 /\ rnd[d] \in Nat /\ rnd[d] < kernel.rounds
      BY <2>2, <2>3, Seat
    <3>2. Aim(d) \in OfRow
      BY <1>2, <3>1, Seat
    <3>3. Aim(d) \notin {"zero", "fold", "clear", "read", "select", "publish", "claim", "emit", "eq", "place"}
      BY <1>2, <3>1, StageIs, Seat DEF OfRound
    <3>4. Aim(d) = "gather"
      BY <3>2, <3>3 DEF OfRow
    <3>. QED BY <2>3, <3>4
  <2>4. CASE it[d] # i
    BY <2>1, <2>2, <2>4
  <2>. QED BY <2>3, <2>4
<1>4. \A d \in CTA : /\ Claimed(d, i) /\ Emitted(d, i) /\ Collected(d, i) = TiesOf(rows[i + 1], d)
  BY <1>3 DEF Claimed, Emitted, Collected
<1>5. /\ i \in Nat /\ i < Len(rows) /\ ~Trivial(rows[i + 1]) /\ rows[i + 1] \in Rows
  BY <1>1, CollectRow, GivenFacts
<1>. DEFINE row == rows[i + 1]
<1>6. Tops(row) \subseteq Win(row) /\ \A x \in Win(row) : x[1] \in CTA /\ x = <<x[1], x[2]>>
  BY <1>5, GivenFacts, WinFacts
<1>7. TiesGiven(i) = Win(row) \ Tops(row)
  <2>1. \A x \in Win(row) \ Tops(row) : x[2] \in Collected(x[1], i)
    <3>. SUFFICES ASSUME NEW x \in Win(row) \ Tops(row) PROVE x[2] \in Collected(x[1], i)
      OBVIOUS
    <3>1. x[1] \in CTA /\ <<x[1], x[2]>> \in Win(row) \ Tops(row)
      BY <1>6
    <3>2. x[2] \in TiesOf(row, x[1])
      BY <1>5, <3>1, SlotSums
    <3>. QED BY <1>4, <3>1, <3>2
  <2>. QED BY <2>1 DEF TiesGiven
<1>8. {x \in Tops(row) : Claimed(x[1], i)} = Tops(row) /\ {x \in Tops(row) : Emitted(x[1], i)} = Tops(row)
  BY <1>4, <1>6
<1>9. Given(i) = Win(row) /\ Shown(i) = Win(row)
  BY <1>6, <1>7, <1>8 DEF Given, Shown
<1>. QED BY <1>3, <1>9

LEMMA RowGather ==
  ASSUME ControlInv, DataInv, OutInv, NEW c \in CTA, CtaStep(c), Gather(c), NEW i \in Nat, i = it[c]
  PROVE  RowOut(i)'
<1>. DEFINE row == rows[i + 1]
            W == Win(row)
            items(s) == ItemsIn({w \in At(i, s) : w[3] = "index"})
<1>1. /\ Aim(c) = "gather" /\ pc[c] = "gather" /\ UNCHANGED <<rows, kernel, base, left>>
      /\ it'[c] = i + 1 /\ Aim(c)' = "row"
      /\ \A d \in CTA \ {c} : Aim(d)' = Aim(d) /\ it'[d] = it[d]
      /\ out' = {w \in out : ~(w[1] = i /\ w[2] \in Share(c))} \cup {<<i, s, "page", items(s)>> : s \in Share(c)}
  <2>1. OutTypes /\ it[c] = i
    BY DEF OutInv
  <2>2. out' = {w \in out : ~(w[1] = it[c] /\ w[2] \in Share(c))}
                \cup {<<it[c], s, "page", ItemsIn({w \in At(it[c], s) : w[3] = "index"})>> : s \in Share(c)}
    BY <2>1, GatherDoes
  <2>3. out' = {w \in out : ~(w[1] = i /\ w[2] \in Share(c))} \cup {<<i, s, "page", items(s)>> : s \in Share(c)}
    BY <2>1, <2>2, Zenon
  <2>4. /\ Aim(c) = "gather" /\ pc[c] = "gather" /\ UNCHANGED <<rows, kernel, base, left>>
        /\ it'[c] = i + 1 /\ Aim(c)' = "row"
    BY <2>1, GatherDoes, StepReach
  <2>5. \A d \in CTA \ {c} : Aim(d)' = Aim(d) /\ it'[d] = it[d]
    BY <2>1, StepReach DEF Alone, Aim
  <2>. QED BY <2>3, <2>4, <2>5
<1>2. /\ i < Len(rows) /\ ~Trivial(row) /\ WorkedOut(i) /\ kernel.paged /\ row \in Rows
  BY <1>1, CollectRow, StageIs, GivenFacts
<1>3. /\ \A d \in CTA : it[d] > i \/ (it[d] = i /\ Aim(d) = "gather")
      /\ Given(i) = W /\ Shown(i) = W
  BY <1>1, AllGiven
<1>4. \A d \in CTA : /\ Claimed(d, i)' /\ Emitted(d, i)' /\ Collected(d, i)' = TiesOf(row, d)
                     /\ Claimed(d, i) /\ Emitted(d, i) /\ Collected(d, i) = TiesOf(row, d)
                     /\ ~Emitting(d, i)'
  <2>1. \A d \in CTA : it'[d] > i \/ (it'[d] = i /\ Aim(d)' = "gather")
    BY <1>1, <1>3
  <2>2. \A d \in CTA : Claimed(d, i) /\ Emitted(d, i) /\ Collected(d, i) = TiesOf(row, d)
    BY <1>3 DEF Claimed, Emitted, Collected
  <2>3. \A d \in CTA : it'[d] = i => Aim(d)' # "emit"
    BY <1>1, <2>1
  <2>4. \A d \in CTA : Claimed(d, i)' /\ Emitted(d, i)' /\ Collected(d, i)' = TiesOf(row, d)
    BY <1>1, <2>1 DEF Claimed, Emitted, Collected
  <2>. QED BY <2>2, <2>3, <2>4 DEF Emitting
<1>5. Given(i)' = Given(i) /\ Shown(i)' = Shown(i)
  <2>1. TiesGiven(i)' = TiesGiven(i)
    <3>1. \A x \in DOMAIN Keys(row) : x[1] \in CTA
      BY DEF Keys
    <3>. QED BY <1>1, <1>4, <3>1 DEF TiesGiven, Win
  <2>2. /\ {x \in Tops(row) : Claimed(x[1], i)}' = {x \in Tops(row) : Claimed(x[1], i)}
        /\ {x \in Tops(row) : Emitted(x[1], i)}' = {x \in Tops(row) : Emitted(x[1], i)}
    <3>1. \A x \in Tops(row) : x[1] \in CTA
      BY DEF Tops, Keys
    <3>. QED BY <1>1, <1>4, <3>1
  <2>. QED BY <2>1, <2>2 DEF Given, Shown
<1>6. PICK f : OneEach(i, f) /\ InReach(i, f) /\ FromBase(i, f) /\ Holds(i, f)
  BY <1>2 DEF WorkedOut
<1>7. OneEach(i, f)' /\ InReach(i, f)' /\ FromBase(i, f)'
  BY <1>1, <1>4, <1>5, <1>6 DEF OneEach, InReach, FromBase
<1>8. /\ f \in [W -> Nat] /\ (\A x, y \in W : f[x] = f[y] => x = y) /\ \A x \in W : f[x] < Cardinality(W)
  <2>1. CASE kernel.det
    BY <1>2, <1>3, <1>6, <2>1, SlotFacts DEF OneEach, InReach
  <2>2. CASE ~kernel.det
    BY <1>3, <1>6, <2>2 DEF OneEach, InReach
  <2>. QED BY <2>1, <2>2
<1>9. IsFiniteSet(W) /\ Cardinality(W) \in Nat /\ Cardinality(W) >= K /\ K \in Nat
  BY <1>2, WinFacts
<1>. HIDE DEF W
<1>10. \A s \in Share(c) : s \in 0 .. K - 1 /\ \E x \in W : f[x] = s
  <2>1. \A s \in Share(c) : s \in 0 .. K - 1
    BY DEF Share
  <2>2. \A s \in 0 .. Cardinality(W) - 1 : \E x \in W : f[x] = s
    BY <1>8, <1>9, NoSlotLeft
  <2>3. \A s \in 0 .. K - 1 : s \in 0 .. Cardinality(W) - 1
    BY <1>9
  <2>. QED BY <2>1, <2>2, <2>3
<1>11. \A s : /\ s \in Share(c) => KindOf(i, s) = "index" /\ KindOf(i, s)' = "page"
              /\ s \notin Share(c) => KindOf(i, s)' = KindOf(i, s)
  <2>. TAKE s
  <2>0. ~(it[c] > i) /\ it'[c] > i /\ Share(c)' = Share(c)
    BY <1>1, <1>3 DEF Share
  <2>1. ASSUME s \in Share(c)
        PROVE  KindOf(i, s) = "index" /\ KindOf(i, s)' = "page"
    <3>1. \A d \in CTA : it[d] > i => s \notin Share(d)
      BY <2>0, <2>1, SharesApart
    <3>. QED BY <1>1, <1>2, <2>0, <2>1, <3>1 DEF KindOf
  <2>2. ASSUME s \notin Share(c)
        PROVE  KindOf(i, s)' = KindOf(i, s)
    <3>1. \A d \in CTA : Share(d)' = Share(d)
      BY DEF Share
    <3>2. (\E d \in CTA : it'[d] > i /\ s \in Share(d)) <=> (\E d \in CTA : it[d] > i /\ s \in Share(d))
      BY <1>1, <2>2
    <3>. QED BY <1>1, <3>1, <3>2 DEF KindOf
  <2>. QED BY <2>1, <2>2
<1>12. \A w : w \in out /\ w[1] = i <=> \E x \in W : f[x] < K /\ w = <<i, f[x], KindOf(i, f[x]), {x}>>
  BY <1>3, <1>6 DEF Holds, OutOf
<1>13. \A x \in W : f[x] \in Share(c) => items(f[x]) = {x}
  <2>. SUFFICES ASSUME NEW x \in W, f[x] \in Share(c) PROVE items(f[x]) = {x}
    OBVIOUS
  <2>1. \A w : w \in out /\ w[1] = i /\ w[2] = f[x] => w = <<i, f[x], "index", {x}>>
    BY <1>8, <1>11, <1>12
  <2>2. f[x] < K
    BY <1>9, <1>10
  <2>3. <<i, f[x], "index", {x}>> \in out
    BY <1>11, <1>12, <2>2
  <2>4. {w \in At(i, f[x]) : w[3] = "index"} = {<<i, f[x], "index", {x}>>}
    BY <2>1, <2>3 DEF At
  <2>5. <<i, f[x], "index", {x}>>[4] = {x}
    OBVIOUS
  <2>6. ItemsIn({<<i, f[x], "index", {x}>>}) = {x}
    BY <2>5 DEF ItemsIn
  <2>. QED BY <2>4, <2>6
<1>. HIDE DEF items
<1>14. \A w : w \in out' /\ w[1] = i <=>
              \/ w \in out /\ w[1] = i /\ w[2] \notin Share(c)
              \/ \E s \in Share(c) : w = <<i, s, "page", items(s)>>
  BY <1>1
<1>15. \A w : w \in out' /\ w[1] = i <=> \E x \in W : f[x] < K /\ w = <<i, f[x], KindOf(i, f[x])', {x}>>
  <2>. SUFFICES ASSUME NEW w
                PROVE  w \in out' /\ w[1] = i <=> \E x \in W : f[x] < K /\ w = <<i, f[x], KindOf(i, f[x])', {x}>>
    OBVIOUS
  <2>1. ASSUME w \in out, w[1] = i, w[2] \notin Share(c)
        PROVE  \E x \in W : f[x] < K /\ w = <<i, f[x], KindOf(i, f[x])', {x}>>
    <3>1. PICK x \in W : f[x] < K /\ w = <<i, f[x], KindOf(i, f[x]), {x}>>
      BY <1>12, <2>1
    <3>2. KindOf(i, f[x])' = KindOf(i, f[x])
      BY <1>11, <2>1, <3>1
    <3>. QED BY <3>1, <3>2
  <2>2. ASSUME NEW s \in Share(c), w = <<i, s, "page", items(s)>>
        PROVE  \E x \in W : f[x] < K /\ w = <<i, f[x], KindOf(i, f[x])', {x}>>
    <3>1. PICK x \in W : f[x] = s
      BY <1>10
    <3>2. f[x] < K /\ KindOf(i, f[x])' = "page" /\ items(s) = {x}
      BY <1>9, <1>10, <1>11, <1>13, <3>1
    <3>. QED BY <2>2, <3>1, <3>2
  <2>3. ASSUME NEW x \in W, f[x] < K, w = <<i, f[x], KindOf(i, f[x])', {x}>>
        PROVE  w \in out' /\ w[1] = i
    <3>1. CASE f[x] \in Share(c)
      <4>1. w = <<i, f[x], "page", items(f[x])>>
        BY <1>11, <1>13, <2>3, <3>1
      <4>. QED BY <1>14, <3>1, <4>1
    <3>2. CASE f[x] \notin Share(c)
      <4>1. w = <<i, f[x], KindOf(i, f[x]), {x}>> /\ w[2] = f[x]
        BY <1>11, <2>3, <3>2
      <4>2. w \in out /\ w[1] = i
        BY <1>12, <2>3, <4>1
      <4>. QED BY <1>14, <3>2, <4>1, <4>2
    <3>. QED BY <3>1, <3>2
  <2>. QED BY <1>14, <2>1, <2>2, <2>3
<1>16. Holds(i, f)'
  <2>1. {y \in Shown(i)' : f[y] < K} = {y \in W : f[y] < K}
    BY <1>3, <1>5
  <2>2. OutOf(i)' = {<<i, f[x], KindOf(i, f[x])', {x}>> : x \in {y \in W : f[y] < K}}
    BY <1>15 DEF OutOf
  <2>. QED BY <2>1, <2>2 DEF Holds
<1>17. WorkedOut(i)'
  BY <1>7, <1>16 DEF WorkedOut
<1>. QED BY <1>1, <1>2, <1>17 DEF RowOut

----------------------------------------------------------------------------
(* Every row is on its way after any step of the group.                      *)
LEMMA RowStep ==
  ASSUME ControlInv, DataInv, OutInv, NEW c \in CTA, CtaStep(c), NEW i \in 0 .. Len(rows) - 1
  PROVE  RowOut(i)'
<1>1. OutTypes /\ i \in Nat /\ RowOut(i)
  BY DEF OutInv, ControlInv, ControlTypes
<1>2. CASE i # it[c]
  BY <1>1, <1>2, RowElsewhere
<1>3. CASE i = it[c]
  <2>1. CASE Plain(c)
    BY <1>1, <1>3, <2>1, RowPlain
  <2>2. CASE NextRow(c) /\ Trivial(Row(c))
    BY <1>1, <1>3, <2>2, RowEarly
  <2>3. CASE Claim(c)
    BY <1>1, <1>3, <2>3, RowClaim
  <2>4. CASE Emit(c)
    BY <1>1, <1>3, <2>4, RowEmit
  <2>5. CASE CollectEq(c)
    BY <1>1, <1>3, <2>5, RowCollected, RowCollect
  <2>6. CASE Place(c)
    BY <1>1, <1>3, <2>6, RowPlace
  <2>7. CASE Gather(c)
    BY <1>1, <1>3, <2>7, RowGather
  <2>. QED BY <1>1, <2>1, <2>2, <2>3, <2>4, <2>5, <2>6, <2>7, StepReach
<1>. QED BY <1>2, <1>3

(* The steps that move the two counters of the slots, and the counts.        *)
LEMMA CounterSteps ==
  ASSUME NEW c \in CTA, CtaStep(c)
  PROVE  /\ output' = output \/ (c = 0 /\ ZeroOutput) \/ Claim(c) \/ CollectEq(c)
         /\ scratch' = scratch \/ Publish(c) \/ Reset(c)
BY DEF CtaStep, Arrive, Leave, NextRow, Takes, ZeroOutput, Fold, ClearNext, Read, Select, Claim, Emit, Emits,
       CollectEq, Publish, Place, Gather, Exit, Reset, Release, shared

LEMMA AimSteps ==
  ASSUME ControlInv, OutTypes, NEW c \in CTA, CtaStep(c)
  PROVE  /\ Aim(c)' = "place" => Publish(c) \/ Aim(c) = "place"
         /\ Aim(c) = "eq" /\ pc[c] \notin InBarrier => CollectEq(c)
         /\ Aim(c)' \in {"claim", "emit", "eq"} => Aim(c) \in {"claim", "emit", "eq"} \/ Select(c)
         /\ Aim(0)' \in OfRound /\ c = 0 => Aim(0) \in OfRound \/ ZeroOutput
<1>. ControlTypes /\ PathInv(c) /\ OfRound = {"fold", "clear", "read", "select"}
  BY DEF ControlInv, OfRound
<1>1. CASE Arrive(c) \/ Leave(c)
  <2>1. Aim(c)' = Aim(c) /\ pc[c] \in InBarrier
    BY <1>1, BarrierPath DEF Arrive, Leave, InBarrier
  <2>. QED BY <2>1
<1>2. CASE NextRow(c)
  <2>1. Aim(c) = "row" /\ Aim(c)' \in {"row", "zero", "fold"}
    BY <1>2, Turns
  <2>2. c = 0 => Aim(c)' # "fold"
    <3>1. SUFFICES ASSUME c = 0 PROVE Aim(c)' # "fold"
      OBVIOUS
    <3>2. CASE Trivial(Row(c))
      BY <1>2, <3>2, Turns
    <3>3. CASE ~Trivial(Row(c))
      <4>1. pc[c] = "row" /\ Meet(c, "zero")
        BY <1>2, <3>1, <3>3 DEF NextRow, Takes
      <4>2. Aim(c)' = "zero"
        BY <4>1, Meets, Spots DEF Aim, InBarrier
      <4>. QED BY <4>2
    <3>. QED BY <3>2, <3>3
  <2>. QED BY <2>1, <2>2
<1>3. CASE c = 0 /\ ZeroOutput
  <2>1. pc[c] = "zero" /\ Goto(c, "fold")
    BY <1>3 DEF ZeroOutput
  <2>2. Aim(c) = "zero" /\ Aim(c)' = "fold"
    BY <2>1, Goes, Spots DEF Aim, InBarrier
  <2>. QED BY <1>3, <2>2
<1>4. CASE Fold(c) \/ Read(c) \/ Select(c) \/ (c = 0 /\ ClearNext) \/ Reset(c)
  BY <1>4, Turns
<1>5. CASE Claim(c) \/ Emit(c)
  BY <1>5, ClaimDoes, EmitDoes
<1>6. CASE CollectEq(c)
  BY <1>6, CollectDoes DEF Leaves
<1>7. CASE Publish(c)
  BY <1>7, PublishDoes
<1>8. CASE Place(c) \/ Gather(c)
  BY <1>8, PlaceDoes, GatherDoes DEF Leaves
<1>9. CASE Exit(c) \/ Release(c)
  <2>1. /\ pc[c] \in {"row", "release"}
        /\ Goto(c, "reset") \/ Goto(c, "done")
    BY <1>9 DEF Exit, Release
  <2>2. pc'[c] \in {"reset", "done"}
    BY <2>1, Goes, Spots
  <2>3. Aim(c) \in {"row", "release"} /\ Aim(c)' \in {"reset", "done"}
    BY <2>1, <2>2 DEF Aim, InBarrier
  <2>. QED BY <2>3
<1>. QED BY <1>1, <1>2, <1>3, <1>4, <1>5, <1>6, <1>7, <1>8, <1>9 DEF CtaStep

LEMMA CountingFrom ==
  ASSUME ControlInv, OutTypes, NEW c \in CTA, CtaStep(c), NEW d \in CTA, Counting(d)'
  PROVE  /\ it'[d] = it[d]
         /\ Counting(d) \/ (c = 0 /\ d = 0 /\ ZeroOutput) \/ (d = c /\ Select(c) /\ c # 0 /\ Aim(c)' = "claim")
<1>1. Alone(c) /\ OnItsWay(c)
  BY StepReach
<1>2. CASE d # c
  <2>1. it'[d] = it[d] /\ Aim(d)' = Aim(d)
    BY <1>1, <1>2 DEF Alone, Aim
  <2>. QED BY <2>1 DEF Counting
<1>3. CASE d = c
  <2>1. Aim(c)' # "row"
    BY <1>3 DEF Counting, OfRound
  <2>2. it'[d] = it[d]
    BY <1>1, <1>3, <2>1 DEF OnItsWay
  <2>3. \/ c = 0 /\ Aim(0)' \in OfRound
        \/ Aim(c)' \in {"claim", "emit", "eq"}
    BY <1>3 DEF Counting
  <2>4. CASE c = 0 /\ Aim(0)' \in OfRound
    BY <1>3, <2>2, <2>4, AimSteps DEF Counting
  <2>5. CASE Aim(c)' \in {"claim", "emit", "eq"}
    <3>1. CASE Aim(c) \in {"claim", "emit", "eq"}
      BY <1>3, <2>2, <3>1 DEF Counting
    <3>2. CASE Select(c)
      <4>1. Aim(c) = "select" /\ Aim(c)' \in {"fold", "publish", "claim"}
        BY <3>2, Turns
      <4>2. c = 0 => Counting(c)
        BY <4>1 DEF Counting, OfRound
      <4>. QED BY <1>3, <2>2, <2>5, <3>2, <4>1, <4>2
    <3>. QED BY <2>5, <3>1, <3>2, AimSteps
  <2>. QED BY <2>3, <2>4, <2>5
<1>. QED BY <1>2, <1>3

----------------------------------------------------------------------------
(* The counter of the slots counts the keys given one.                       *)
LEMMA CountingSeat ==
  ASSUME ControlInv, NEW d \in CTA, Counting(d)
  PROVE  /\ Aim(d) \in OfRow /\ Inner(d) /\ it[d] \in Nat /\ it[d] < Len(rows) /\ ~Trivial(rows[it[d] + 1])
         /\ Aim(d) \notin {"zero", "place", "gather"}
<1>1. Aim(d) \in OfRow /\ Aim(d) \notin {"zero", "place", "gather"}
  BY DEF Counting, OfRound, OfRow
<1>2. Inner(d)
  <2>1. pc[d] \in InBarrier => Aim(d) \in {"zero", "fold", "read", "eq", "place", "gather"}
    BY StageOf
  <2>2. pc[d] \in InBarrier /\ Aim(d) = "fold" => d # 0
    BY StageOf
  <2>3. d # 0 => Aim(d) \in {"claim", "emit", "eq"}
    BY DEF Counting
  <2>. QED BY <1>1, <2>1, <2>2, <2>3 DEF Inner
<1>. QED BY <1>1, <1>2, Seat

LEMMA NothingGiven ==
  ASSUME NEW i, \A d \in CTA : ~(it[d] > i) /\ (it[d] = i => Aim(d) \notin {"emit", "eq", "gather"})
  PROVE  Given(i) = {}
<1>1. \A x \in DOMAIN Keys(rows[i + 1]) : x[1] \in CTA
  BY DEF Keys
<1>2. \A d \in CTA : ~Claimed(d, i) /\ Collected(d, i) = {}
  BY DEF Claimed, Collected
<1>3. TiesGiven(i) = {}
  BY <1>1, <1>2 DEF TiesGiven, Win
<1>4. {x \in Tops(rows[i + 1]) : Claimed(x[1], i)} = {}
  BY <1>1, <1>2 DEF Tops
<1>. QED BY <1>3, <1>4 DEF Given

LEMMA GivenKept ==
  ASSUME ControlInv, DataInv, OutInv, NEW c \in CTA, CtaStep(c), NEW i \in Nat, i < Len(rows),
         ~Trivial(rows[i + 1]),
         Claim(c) \/ (CollectEq(c) /\ left[c] # {}) \/ Place(c) \/ Gather(c) => it[c] # i
  PROVE  Given(i)' = Given(i)
<1>. OutTypes
  BY DEF OutInv
<1>1. /\ Alone(c) /\ OnItsWay(c) /\ it[c] \in Nat /\ UNCHANGED <<kernel, rows>>
      /\ \A d \in CTA \ {c} : base'[d] = base[d] /\ left'[d] = left[d]
  BY StepReach
<1>2. \A d \in CTA \ {c} : SameView(d, i)
  BY <1>1, Bystander
<1>3. CASE it[c] # i
  <2>1. SameView(c, i)
    BY <1>1, <1>3, Elsewhere
  <2>. QED BY <1>1, <1>2, <2>1, SameGiven DEF SameView
<1>4. CASE Plain(c)
  <2>1. SameView(c, i)
    BY <1>1, <1>4, StillView DEF Plain
  <2>. QED BY <1>1, <1>2, <2>1, SameGiven DEF SameView
<1>5. CASE it[c] = i /\ Emit(c)
  BY <1>1, <1>5, EmitGives
<1>6. CASE it[c] = i /\ CollectEq(c)
  <2>1. left[c] = {}
    BY <1>6
  <2>2. UNCHANGED <<base, left, out>> /\ Aim(c) = "eq" /\ Leaves(c)
    BY <1>6, <2>1, CollectDoes
  <2>3. SameView(c, i)
    BY <1>1, <1>6, <2>1, <2>2, DoneView DEF Leaves
  <2>. QED BY <1>1, <1>2, <2>3, SameGiven DEF SameView
<1>7. CASE it[c] = i /\ NextRow(c) /\ Trivial(Row(c))
  BY <1>7 DEF Row
<1>. QED BY <1>3, <1>4, <1>5, <1>6, <1>7, StepReach

LEMMA NoneCounting ==
  ASSUME ControlInv, ZeroOutput
  PROVE  /\ \A d \in CTA : ~Counting(d)
         /\ \A d \in CTA : ~(it[d] > it[0]) /\ (it[d] = it[0] => Aim(d) \notin {"emit", "eq", "gather"})
<1>1. 0 \in CTA
  BY Group
<1>2. pc[0] = "zero" /\ Aim(0) = "zero" /\ pc[0] \notin InBarrier /\ Aim(0) \in OfRow
  BY DEF ZeroOutput, Aim, InBarrier, OfRow
<1>3. Stage(0) = 1 /\ kernel.rounds \in {2, 4} /\ PerRow >= 4 /\ PerRow \in Nat
  BY <1>1, <1>2, StageIs, Rounds24, GateFacts DEF ControlInv
<1>4. ASSUME NEW d \in CTA
      PROVE  it[d] = it[0] /\ Stage(d) <= 2 /\ Stage(d) \in Nat
  <2>1. it[d] \in Nat /\ it[0] \in Nat /\ Stage(d) \in Nat
    BY <1>1, Seat
  <2>2. /\ it[d] > it[0] => Stage(0) = PerRow
        /\ it[d] >= it[0] /\ (it[d] = it[0] => Stage(d) <= Stage(0) + 1)
    BY <1>1, <1>2, Others
  <2>. QED BY <1>3, <2>1, <2>2
<1>5. ASSUME NEW d \in CTA
      PROVE  Aim(d) \notin {"claim", "emit", "eq", "gather"}
  BY <1>3, <1>4, StageIs
<1>6. ASSUME NEW d \in CTA
      PROVE  ~Counting(d)
  BY <1>2, <1>5 DEF Counting, OfRound
<1>7. it[0] \in Nat
  BY <1>1, Seat
<1>. QED BY <1>4, <1>5, <1>6, <1>7

(* CTA 0 counts by the time another is about to claim.                       *)
LEMMA ZeroCounts ==
  ASSUME ControlInv, NEW c \in CTA, Select(c), Aim(c)' = "claim"
  PROVE  Counting(0) /\ it[0] = it[c] /\ rnd[c] + 1 = kernel.rounds
<1>1. 0 \in CTA
  BY Group
<1>2. Aim(c) = "select" /\ rnd[c] + 1 = kernel.rounds /\ pc[c] \notin InBarrier /\ Aim(c) \in OfRow
  <2>1. pc[c] = "select"
    BY DEF Select
  <2>. QED BY <2>1, Turns DEF InBarrier, OfRow
<1>3. ~kernel.det
  <2>1. rnd[c] + 1 < kernel.rounds \/ Goto(c, IF kernel.det THEN "publish" ELSE "claim")
    BY DEF Select
  <2>2. rnd[c] \in Nat /\ kernel.rounds \in {2, 4}
    BY Seat, StageIs
  <2>3. kernel.det => Goto(c, "publish")
    BY <1>2, <2>1, <2>2
  <2>4. Goto(c, "publish") => pc'[c] = "publish"
    BY Goes, Spots DEF ControlInv
  <2>. QED BY <2>3, <2>4 DEF Aim, InBarrier
<1>4. rnd[c] \in Nat /\ kernel.rounds \in {2, 4} /\ Stage(c) = kernel.rounds + 1 /\ PerRow >= kernel.rounds + 2
      /\ it[0] \in Nat /\ it[c] \in Nat /\ Stage(0) \in Nat /\ PerRow \in Nat
  <2>1. rnd[c] \in Nat /\ it[c] \in Nat /\ it[0] \in Nat /\ Stage(0) \in Nat
    BY <1>1, Seat
  <2>2. kernel.rounds \in {2, 4} /\ PerRow >= kernel.rounds + 2 /\ PerRow \in Nat
    BY Rounds24 DEF ControlInv
  <2>3. Stage(c) = rnd[c] + 2
    BY <1>2, StageIs
  <2>. QED BY <1>2, <2>1, <2>2, <2>3
<1>5. it[0] = it[c] /\ Stage(0) >= kernel.rounds + 1 /\ Stage(0) <= kernel.rounds + 2
  BY <1>1, <1>2, <1>4, Others
<1>6. Aim(0) \in OfRow /\ Aim(0) \notin {"zero", "publish", "place", "gather"}
  <2>1. Aim(0) \notin {"zero", "publish", "place", "gather"}
    BY <1>1, <1>3, <1>4, <1>5, StageIs
  <2>2. Aim(0) \in OfRow
    BY <1>1, <1>4, <1>5, Seat
  <2>. QED BY <2>1, <2>2
<1>7. Counting(0)
  BY <1>6 DEF Counting, OfRow, OfRound
<1>. QED BY <1>2, <1>5, <1>7

LEMMA OutputStep ==
  ASSUME ControlInv, DataInv, OutInv, NEW c \in CTA, CtaStep(c), NEW d \in CTA
  PROVE  OutputInv(d)'
<1>. SUFFICES ASSUME Counting(d)'
              PROVE  output' = Cardinality(Given(it[d]))'
  BY DEF OutputInv
<1>. OutTypes /\ 0 \in CTA
  BY Group DEF OutInv
<1>1. PICK i : i = it[d]
  OBVIOUS
<1>2. it'[d] = i
  BY <1>1, CountingFrom
<1>. SUFFICES output' = Cardinality(Given(i)')
  BY <1>2
<1>3. Alone(c)
  BY StepReach
<1>4. CASE Counting(d)
  <2>1. /\ Aim(d) \in OfRow /\ Inner(d) /\ i \in Nat /\ i < Len(rows) /\ ~Trivial(rows[i + 1])
        /\ Aim(d) \notin {"zero", "place", "gather"}
    BY <1>1, <1>4, CountingSeat
  <2>2. output = Cardinality(Given(i))
    BY <1>1, <1>4 DEF OutInv, OutputInv
  <2>3. ~(c = 0 /\ ZeroOutput)
    BY <1>4, NoneCounting
  <2>4. CASE Claim(c)
    <3>1. Inner(c)
      BY <2>4, ClaimDoes DEF Inner, OfRow, InBarrier
    <3>2. i = it[c]
      BY <1>1, <2>1, <3>1, InnerRow
    <3>. QED BY <1>3, <2>2, <2>4, <3>2, ClaimGives, ClaimDoes
  <2>5. CASE CollectEq(c) /\ left[c] # {}
    <3>1. Inner(c)
      BY <2>5, CollectDoes DEF Inner, OfRow, InBarrier
    <3>2. i = it[c]
      BY <1>1, <2>1, <3>1, InnerRow
    <3>3. PICK j \in left[c] : left' = [left EXCEPT ![c] = @ \ {j}]
      BY <2>5, CollectDoes
    <3>4. output' = output + 1
      BY <2>5, CollectDoes
    <3>. QED BY <1>3, <2>2, <2>5, <3>2, <3>3, <3>4, CollectGives
  <2>6. CASE ~Claim(c) /\ ~(CollectEq(c) /\ left[c] # {})
    <3>1. output' = output
      BY <2>3, <2>6, CounterSteps, CollectDoes
    <3>2. Place(c) \/ Gather(c) => it[c] # i
      <4>. SUFFICES ASSUME Place(c) \/ Gather(c), it[c] = i
                    PROVE  FALSE
        OBVIOUS
      <4>1. Aim(c) \in {"place", "gather"} /\ pc[c] \notin InBarrier /\ Aim(c) \in OfRow /\ c # d
        BY <2>1, PlaceDoes, GatherDoes DEF InBarrier, OfRow
      <4>2. Stage(c) <= Stage(d) /\ Stage(c) \in Nat /\ Stage(d) \in Nat
        BY <1>1, <2>1, <4>1, Others, Seat
      <4>3. Aim(d) \in {"claim", "emit", "eq"} \/ Aim(d) \in OfRound
        BY <1>4 DEF Counting
      <4>4. CASE Aim(c) = "place"
        <5>1. kernel.det /\ Stage(c) = kernel.rounds + 2 /\ kernel.rounds \in {2, 4}
          BY <4>4, StageIs
        <5>2. Aim(d) \in OfRound
          BY <4>3, <5>1, StageIs
        <5>3. Stage(d) <= rnd[d] + 2 /\ rnd[d] \in Nat /\ rnd[d] < kernel.rounds
          BY <5>2, StageIs
        <5>. QED BY <4>2, <5>1, <5>3
      <4>5. CASE Aim(c) = "gather"
        <5>1. Stage(c) = kernel.rounds + 3 /\ kernel.rounds \in {2, 4}
          BY <4>5, StageIs
        <5>2. Stage(d) <= kernel.rounds + 2
          BY <4>2, <4>3, <5>1, StageIs
        <5>. QED BY <4>2, <5>1, <5>2
      <4>. QED BY <4>1, <4>4, <4>5
    <3>3. Given(i)' = Given(i)
      BY <2>1, <2>6, <3>2, GivenKept
    <3>. QED BY <2>2, <3>1, <3>3
  <2>. QED BY <2>4, <2>5, <2>6
<1>5. CASE c = 0 /\ d = 0 /\ ZeroOutput
  <2>1. Given(i) = {}
    BY <1>1, <1>5, NoneCounting, NothingGiven
  <2>2. Aim(0) \in OfRow /\ pc[0] = "zero"
    BY <1>5 DEF ZeroOutput, Aim, InBarrier, OfRow
  <2>3. i \in Nat /\ i < Len(rows) /\ ~Trivial(rows[i + 1])
    BY <1>1, <1>5, <2>2, Seat
  <2>4. ~Claim(c) /\ ~CollectEq(c) /\ ~Place(c) /\ ~Gather(c)
    BY <1>5, <2>2 DEF Claim, CollectEq, Place, Gather
  <2>5. Given(i)' = {}
    BY <2>1, <2>3, <2>4, GivenKept
  <2>6. output' = 0
    BY <1>5 DEF ZeroOutput
  <2>. QED BY <2>5, <2>6, FS_EmptySet
<1>6. CASE d = c /\ Select(c) /\ c # 0 /\ Aim(c)' = "claim"
  <2>1. Counting(0) /\ it[0] = i
    BY <1>1, <1>6, ZeroCounts
  <2>2. output = Cardinality(Given(i))
    BY <2>1 DEF OutInv, OutputInv
  <2>3. i \in Nat /\ i < Len(rows) /\ ~Trivial(rows[i + 1])
    BY <2>1, CountingSeat
  <2>4. pc[c] = "select" /\ output' = output
    BY <1>6 DEF Select, shared
  <2>5. ~Claim(c) /\ ~CollectEq(c) /\ ~Place(c) /\ ~Gather(c)
    BY <2>4 DEF Claim, CollectEq, Place, Gather
  <2>6. Given(i)' = Given(i)
    BY <2>3, <2>5, GivenKept
  <2>. QED BY <2>2, <2>4, <2>6
<1>. QED BY <1>4, <1>5, <1>6, CountingFrom

LEMMA LeftStep ==
  ASSUME ControlInv, DataInv, OutInv, NEW c \in CTA, CtaStep(c), NEW d \in CTA
  PROVE  LeftInv(d)'
<1>. SUFFICES ASSUME Aim(d)' = "eq"
              PROVE  /\ left'[d] \subseteq TiesOf(Row(d), d)'
                     /\ pc'[d] \in InBarrier => left'[d] = TiesOf(Row(d), d)'
  BY DEF LeftInv
<1>. OutTypes /\ LeftInv(d)
  BY DEF OutInv
<1>1. /\ Alone(c) /\ OnItsWay(c) /\ UNCHANGED <<kernel, rows>>
      /\ \A e \in CTA \ {c} : base'[e] = base[e] /\ left'[e] = left[e]
  BY StepReach
<1>2. it'[d] = it[d]
  BY <1>1 DEF Alone, OnItsWay
<1>3. TiesOf(Row(d), d)' = TiesOf(Row(d), d)
  BY <1>1, <1>2 DEF TiesOf, Row, Pivot
<1>4. CASE d # c
  <2>1. Aim(d)' = Aim(d) /\ pc'[d] = pc[d] /\ left'[d] = left[d]
    BY <1>1, <1>4 DEF Alone, Aim
  <2>. QED BY <1>3, <2>1 DEF LeftInv
<1>5. CASE d = c
  <2>1. CASE Emit(c)
    <3>1. Aim(c) \in AfterRounds /\ left'[c] = On(c)
      BY <2>1, EmitDoes DEF AfterRounds, OutTypes
    <3>2. left'[c] = TiesOf(Row(c), c)
      BY <3>1, PivotFound
    <3>. QED BY <1>3, <1>5, <3>2
  <2>2. CASE CollectEq(c)
    <3>1. Aim(c) = "eq" /\ pc[c] = "eq" /\ left[c] # {}
      BY <1>5, <2>2, CollectDoes DEF Leaves
    <3>2. pc'[c] = "eq" /\ left'[c] \subseteq left[c]
      BY <2>2, <3>1, CollectDoes DEF OutTypes
    <3>. QED BY <1>3, <1>5, <3>1, <3>2 DEF LeftInv, InBarrier
  <2>3. CASE ~Emit(c) /\ ~CollectEq(c)
    <3>1. Plain(c)
      <4>1. ~(NextRow(c) /\ Trivial(Row(c)))
        BY <1>5, EarlyDoes
      <4>2. ~Claim(c) /\ ~Place(c) /\ ~Gather(c)
        BY <1>5, ClaimDoes, PlaceDoes, GatherDoes DEF Leaves
      <4>. QED BY <2>3, <4>1, <4>2, StepReach
    <3>2. Aim(c) = "eq" /\ left'[c] = left[c]
      BY <1>5, <3>1 DEF Plain
    <3>3. pc[c] \in InBarrier
      BY <2>3, <3>2, AimSteps
    <3>. QED BY <1>3, <1>5, <3>2, <3>3 DEF LeftInv
  <2>. QED BY <2>1, <2>2, <2>3
<1>. QED BY <1>4, <1>5

LEMMA ScratchStep ==
  ASSUME ControlInv, DataInv, OutInv, NEW c \in CTA, CtaStep(c), NEW d \in CTA
  PROVE  ScratchInv(d)'
<1>. SUFFICES ASSUME Aim(d)' = "place", NEW e \in CTA, Published(e, it[d])'
              PROVE  scratch'[e] = CountsOf(Row(d), e)'
  BY DEF ScratchInv
<1>. OutTypes /\ ScratchInv(d)
  BY DEF OutInv
<1>1. /\ Alone(c) /\ OnItsWay(c) /\ UNCHANGED <<kernel, rows>>
      /\ \A f \in CTA : it[f] \in Nat
  BY StepReach, Seat
<1>2. PICK i : i = it[d]
  OBVIOUS
<1>3. it'[d] = i /\ CountsOf(Row(d), e)' = CountsOf(rows[i + 1], e) /\ Row(d) = rows[i + 1] /\ i \in Nat
  <2>1. it'[d] = i
    BY <1>1, <1>2 DEF Alone, OnItsWay
  <2>. QED BY <1>1, <1>2, <2>1 DEF CountsOf, TopsOf, TiesOf, Row, Pivot
<1>4. Published(e, i)'
  BY <1>3 DEF Published
<1>5. CASE Publish(c)
  <2>1. /\ Aim(c) = "publish" /\ pc[c] = "publish" /\ Aim(c)' = "place" /\ it' = it
        /\ scratch' = [scratch EXCEPT ![c] = [gt |-> Cardinality(Above(c)), eq |-> Cardinality(On(c))]]
        /\ Aim(c) \in OfRow /\ Aim(c) \in AfterRounds /\ Inner(c) /\ pc[c] \notin InBarrier
    BY <1>5, PublishDoes DEF OfRow, AfterRounds, Inner, InBarrier
  <2>2. d # c => Aim(d) = "place" /\ Inner(d)
    <3>1. d # c => Aim(d)' = Aim(d)
      BY <1>1 DEF Alone, Aim
    <3>. QED BY <3>1 DEF Inner, OfRow
  <2>3. it[d] = it[c]
    BY <2>1, <2>2, InnerRow
  <2>4. CASE e = c
    <3>1. scratch'[c] = [gt |-> Cardinality(Above(c)), eq |-> Cardinality(On(c))]
      BY <2>1 DEF OutTypes
    <3>2. Above(c) = TopsOf(Row(c), c) /\ On(c) = TiesOf(Row(c), c) /\ Row(c) = rows[i + 1]
      BY <1>2, <2>1, <2>3, PivotFound DEF Row
    <3>. QED BY <1>3, <2>4, <3>1, <3>2 DEF CountsOf
  <2>5. CASE e # c
    <3>1. scratch'[e] = scratch[e] /\ Aim(e)' = Aim(e)
      BY <1>1, <2>1, <2>5 DEF OutTypes, Alone, Aim
    <3>2. it[e] > i \/ (it[e] = i /\ Aim(e) \in {"place", "gather"})
      BY <1>4, <2>1, <3>1 DEF Published
    <3>3. /\ Stage(c) = kernel.rounds + 1 /\ kernel.rounds \in {2, 4} /\ Stage(e) \in Nat
          /\ PerRow >= kernel.rounds + 2 /\ PerRow \in Nat
          /\ Aim(e) = "gather" => Stage(e) = kernel.rounds + 3
      BY <2>1, StageIs, Seat, Rounds24 DEF ControlInv
    <3>4. /\ it[e] > it[c] => Stage(c) = PerRow
          /\ it[e] = it[c] => Stage(e) <= Stage(c) + 1
      BY <2>1, Others
    <3>5. it[e] = i /\ Aim(e) = "place"
      BY <1>2, <2>3, <3>2, <3>3, <3>4
    <3>6. scratch[e] = CountsOf(Row(e), e)
      BY <3>5 DEF OutInv, ScratchInv, Published
    <3>7. Row(e) = rows[i + 1]
      BY <3>5 DEF Row
    <3>. QED BY <1>3, <3>1, <3>6, <3>7
  <2>. QED BY <2>4, <2>5
<1>6. CASE ~Publish(c)
  <2>1. Aim(d) = "place"
    <3>1. d # c => Aim(d)' = Aim(d)
      BY <1>1 DEF Alone, Aim
    <3>2. d = c => Aim(d) = "place"
      BY <1>6, AimSteps
    <3>. QED BY <3>1, <3>2
  <2>2. ~Reset(c)
    <3>. SUFFICES ASSUME Reset(c) PROVE FALSE
      OBVIOUS
    <3>1. Aim(c) = "reset" /\ pc[c] = "reset"
      BY Turns DEF Reset
    <3>2. c # d => pc[d] = "done"
      BY <3>1 DEF ControlInv, CountInv
    <3>. QED BY <2>1, <3>1, <3>2 DEF Aim, InBarrier
  <2>3. scratch' = scratch
    BY <1>6, <2>2, CounterSteps
  <2>4. Published(e, i)
    <3>1. CASE e # c
      <4>1. it'[e] = it[e] /\ Aim(e)' = Aim(e)
        BY <1>1, <3>1 DEF Alone, Aim
      <4>. QED BY <1>4, <4>1 DEF Published
    <3>2. CASE e = c /\ it'[c] = it[c] + 1 /\ Aim(c)' = "row"
      <4>. SUFFICES ASSUME it[c] = i, Aim(c) \notin {"place", "gather"} PROVE FALSE
        <5>1. it'[c] > i
          BY <1>3, <1>4, <3>2 DEF Published
        <5>2. it[c] >= i
          BY <1>1, <1>3, <3>2, <5>1
        <5>. QED BY <1>1, <1>3, <3>2, <5>2 DEF Published
      <4>1. ~Trivial(rows[i + 1]) /\ kernel.det
        BY <1>2, <2>1, Seat, StageIs DEF OfRow
      <4>2. ~Place(c) /\ ~Gather(c)
        BY PlaceDoes, GatherDoes
      <4>3. ~(NextRow(c) /\ Trivial(Row(c)))
        BY <4>1 DEF Row
      <4>4. ~Claim(c) /\ ~Emit(c)
        BY <3>2, ClaimDoes, EmitDoes
      <4>5. ~CollectEq(c)
        BY <4>1, CollectDoes, StageIs
      <4>6. Plain(c)
        BY <4>2, <4>3, <4>4, <4>5, StepReach
      <4>. QED BY <1>1, <3>2, <4>6 DEF Plain
    <3>3. CASE e = c /\ it'[c] = it[c]
      <4>1. CASE Aim(c)' \in {"place", "gather"} /\ it[c] = i
        <5>1. Aim(c)' = "place" => Aim(c) = "place"
          BY <1>6, AimSteps
        <5>2. kernel.det
          BY <2>1, StageIs
        <5>3. Aim(c)' = "gather" => Aim(c) \in {"place", "gather"}
          <6>. SUFFICES ASSUME Aim(c)' = "gather", Aim(c) \notin {"place", "gather"} PROVE FALSE
            OBVIOUS
          <6>1. ~Place(c) /\ ~Gather(c)
            BY PlaceDoes, GatherDoes
          <6>2. ~(NextRow(c) /\ Trivial(Row(c)))
            BY EarlyDoes
          <6>3. ~Claim(c) /\ ~Emit(c)
            BY ClaimDoes, EmitDoes
          <6>4. ~CollectEq(c)
            BY <5>2, CollectDoes, StageIs
          <6>5. Plain(c)
            BY <6>1, <6>2, <6>3, <6>4, StepReach
          <6>. QED BY <6>5 DEF Plain
        <5>. QED BY <3>3, <4>1, <5>1, <5>3 DEF Published
      <4>2. CASE it[c] > i
        BY <3>3, <4>2 DEF Published
      <4>. QED BY <1>4, <3>3, <4>1, <4>2 DEF Published
    <3>. QED BY <1>1, <3>1, <3>2, <3>3 DEF OnItsWay
  <2>5. scratch[e] = CountsOf(Row(d), e)
    BY <1>2, <2>1, <2>4 DEF ScratchInv
  <2>. QED BY <1>3, <2>3, <2>5
<1>. QED BY <1>5, <1>6

LEMMA OutTypesStep ==
  ASSUME ControlInv, DataInv, OutInv, NEW c \in CTA, CtaStep(c)
  PROVE  OutTypes'
<1>. OutTypes
  BY DEF OutInv
<1>1. /\ Alone(c) /\ rows' = rows
      /\ \A w \in out' : w[1] \in 0 .. Len(rows) - 1
  BY StepReach, OutElsewhere
<1>2. output' \in Nat
  <2>1. CASE Claim(c)
    <3>1. Aim(c) \in AfterRounds /\ output' = output + Cardinality(Above(c))
      BY <2>1, ClaimDoes DEF AfterRounds
    <3>2. Cardinality(Above(c)) \in Nat
      BY <3>1, PivotFound
    <3>. QED BY <3>1, <3>2 DEF OutTypes
  <2>2. CASE CollectEq(c)
    <3>1. output' = output \/ output' = output + 1
      BY <2>2, CollectDoes
    <3>2. output \in Nat
      BY DEF OutTypes
    <3>. QED BY <3>1, <3>2
  <2>3. CASE c = 0 /\ ZeroOutput
    BY <2>3 DEF ZeroOutput
  <2>. QED BY <2>1, <2>2, <2>3, CounterSteps DEF OutTypes
<1>3. scratch' \in [CTA -> [gt : Nat, eq : Nat]]
  <2>1. CASE Publish(c)
    <3>1. /\ Aim(c) \in AfterRounds
          /\ scratch' = [scratch EXCEPT ![c] = [gt |-> Cardinality(Above(c)), eq |-> Cardinality(On(c))]]
      BY <2>1, PublishDoes DEF AfterRounds
    <3>2. Cardinality(Above(c)) \in Nat /\ Cardinality(On(c)) \in Nat
      BY <3>1, PivotFound
    <3>. QED BY <3>1, <3>2 DEF OutTypes
  <2>2. CASE Reset(c)
    BY <2>2 DEF Reset, NoCounts, OutTypes
  <2>. QED BY <2>1, <2>2, CounterSteps DEF OutTypes
<1>4. base' \in [CTA -> Nat] /\ left' \in [CTA -> SUBSET Nat]
  <2>1. CASE Plain(c)
    BY <2>1 DEF Plain, OutTypes
  <2>2. CASE (NextRow(c) /\ Trivial(Row(c))) \/ Place(c) \/ Gather(c)
    BY <2>2, EarlyDoes, PlaceDoes, GatherDoes DEF OutTypes
  <2>3. CASE Claim(c)
    BY <2>3, ClaimDoes DEF OutTypes
  <2>4. CASE Emit(c)
    <3>1. Aim(c) \in AfterRounds /\ base' = [base EXCEPT ![c] = 0] /\ left' = [left EXCEPT ![c] = On(c)]
      BY <2>4, EmitDoes DEF AfterRounds
    <3>2. On(c) \subseteq Nat
      BY <3>1, PivotFound
    <3>. QED BY <3>1, <3>2 DEF OutTypes
  <2>5. CASE CollectEq(c)
    <3>1. base' = base /\ (left' = left \/ \E j \in left[c] : left' = [left EXCEPT ![c] = @ \ {j}])
      BY <2>5, CollectDoes
    <3>2. left[c] \subseteq Nat
      BY DEF OutTypes
    <3>. QED BY <3>1, <3>2 DEF OutTypes
  <2>. QED BY <2>1, <2>2, <2>3, <2>4, <2>5, StepReach
<1>. QED BY <1>1, <1>2, <1>3, <1>4 DEF OutTypes

(* A launch starts with no row written.                                      *)
LEMMA FreshOut ==
  ASSUME ControlInv, AtStart, out = {}, OutTypes
  PROVE  OutInv
<1>1. \A d \in CTA : it[d] = 0 /\ pc[d] = "row" /\ Aim(d) = "row"
  BY DEF AtStart, AtHead, Zeros, Aim, InBarrier
<1>2. \A d \in CTA : ~Counting(d) /\ OutputInv(d) /\ LeftInv(d) /\ ScratchInv(d)
  <2>1. 0 \in CTA
    BY Group
  <2>. QED BY <1>1, <2>1 DEF Counting, OutputInv, LeftInv, ScratchInv, OfRound
<1>3. ASSUME NEW i \in 0 .. Len(rows) - 1
      PROVE  RowOut(i)
  <2>1. \A d \in CTA : ~(it[d] > i) /\ Aim(d) = "row"
    BY <1>1
  <2>2. OutOf(i) = {}
    BY DEF OutOf
  <2>3. \A x \in DOMAIN Keys(rows[i + 1]) : x[1] \in CTA
    BY DEF Keys
  <2>4. CASE Trivial(rows[i + 1])
    <3>1. \A d \in CTA : ~Passed(i, d)
      BY <2>1 DEF Passed
    <3>2. {y \in DOMAIN Keys(rows[i + 1]) : Passed(i, y[1])} = {}
      BY <2>3, <3>1
    <3>3. Padded(i) = {}
      BY <2>1 DEF Padded
    <3>4. TrivialOut(i)
      <4>1. {<<i, Position(rows[i + 1], x), IF kernel.paged THEN "page" ELSE "index", {x}>> :
               x \in {y \in DOMAIN Keys(rows[i + 1]) : Passed(i, y[1])}} = {}
        BY <3>2
      <4>. QED BY <2>2, <3>3, <4>1, Zenon DEF TrivialOut
    <3>. QED BY <2>4, <3>4 DEF RowOut
  <2>5. CASE ~Trivial(rows[i + 1])
    <3>1. Given(i) = {} /\ TiesGiven(i) = {}
      <4>1. Given(i) = {}
        BY <2>1, NothingGiven
      <4>. QED BY <4>1 DEF Given
    <3>2. Shown(i) = {}
      <4>1. {x \in Tops(rows[i + 1]) : Emitted(x[1], i)} = {}
        BY <2>1, <2>3 DEF Tops, Emitted
      <4>. QED BY <3>1, <4>1 DEF Shown
    <3>. DEFINE f == [x \in {} |-> 0]
    <3>3. OneEach(i, f) /\ InReach(i, f)
      BY <3>1 DEF OneEach, InReach
    <3>4. FromBase(i, f)
      BY <2>1 DEF FromBase, Emitting
    <3>5. Holds(i, f)
      BY <2>2, <3>2 DEF Holds
    <3>6. WorkedOut(i)
      BY <3>3, <3>4, <3>5, Zenon DEF WorkedOut
    <3>. QED BY <2>5, <3>6 DEF RowOut
  <2>. QED BY <2>4, <2>5
<1>. QED BY <1>2, <1>3 DEF OutInv

LEMMA OutStart == Init => OutInv
<1>. SUFFICES ASSUME Init PROVE OutInv
  OBVIOUS
<1>1. ControlInv /\ AtStart
  BY ControlStart DEF Init, AtStart
<1>2. OutTypes
  BY DEF Init, OutTypes, Zeros, NoCounts
<1>3. out = {}
  BY DEF Init
<1>. QED BY <1>1, <1>2, <1>3, FreshOut

LEMMA OutStep == ControlInv /\ DataInv /\ OutInv /\ [Next]_vars => OutInv'
<1>. SUFFICES ASSUME ControlInv, DataInv, OutInv, [Next]_vars PROVE OutInv'
  OBVIOUS
<1>1. CASE Launch
  <2>1. (ControlInv /\ AtStart)'
    BY <1>1, LaunchControl
  <2>2. OutTypes' /\ (out = {})'
    BY <1>1 DEF Launch, OutInv, OutTypes, local
  <2>. QED BY <2>1, <2>2, FreshOut, PTL
<1>2. ASSUME NEW c \in CTA, CtaStep(c)
      PROVE  OutInv'
  <2>1. OutTypes'
    BY <1>2, OutTypesStep
  <2>2. \A d \in CTA : OutputInv(d)' /\ LeftInv(d)' /\ ScratchInv(d)'
    BY <1>2, OutputStep, LeftStep, ScratchStep
  <2>3. rows' = rows
    BY <1>2, StepReach DEF OutInv
  <2>4. \A i \in 0 .. Len(rows) - 1 : RowOut(i)'
    BY <1>2, RowStep
  <2>. QED BY <2>1, <2>2, <2>3, <2>4 DEF OutInv
<1>3. CASE UNCHANGED vars
  <2>1. UNCHANGED <<kernel, rows, pc, then, it, rnd, phase, base, left, out, output, scratch>>
    BY <1>3 DEF vars, place, local, shared
  <2>2. \A c \in CTA : Aim(c)' = Aim(c) /\ it'[c] = it[c]
    BY <2>1 DEF Aim
  <2>3. \A i : \A c \in CTA : SameView(c, i)
    BY <2>1, <2>2 DEF SameView, Claimed, Emitted, Collected, Emitting
  <2>4. OutTypes'
    BY <2>1 DEF OutInv, OutTypes
  <2>5. ASSUME NEW i \in 0 .. Len(rows) - 1
        PROVE  RowOut(i)'
    <3>1. RowOut(i) /\ OutOf(i)' = OutOf(i)
      BY <2>1 DEF OutInv, OutOf
    <3>2. CASE Trivial(rows[i + 1])
      <4>1. TrivialOut(i)'
        BY <2>1, <3>1, <3>2, TrivialKept DEF RowOut
      <4>. QED BY <2>1, <3>2, <4>1 DEF RowOut
    <3>3. CASE ~Trivial(rows[i + 1])
      <4>1. WorkedOut(i)'
        BY <2>1, <2>3, <3>1, <3>3, WorkedKept DEF RowOut
      <4>. QED BY <2>1, <3>3, <4>1 DEF RowOut
    <3>. QED BY <3>2, <3>3
  <2>6. ASSUME NEW c \in CTA
        PROVE  OutputInv(c)'
    <3>1. PICK i : i = it[c]
      OBVIOUS
    <3>2. Given(i)' = Given(i)
      BY <2>1, <2>3, SameGiven DEF SameView
    <3>3. OutputInv(c) /\ (Counting(c)' => Counting(c)) /\ it'[c] = i
      BY <2>1, <3>1 DEF OutInv, Counting, Aim
    <3>4. Counting(c)' => output' = Cardinality(Given(i)')
      BY <2>1, <3>1, <3>2, <3>3 DEF OutputInv
    <3>. QED BY <3>3, <3>4 DEF OutputInv
  <2>7. ASSUME NEW c \in CTA
        PROVE  LeftInv(c)' /\ ScratchInv(c)'
    <3>1. LeftInv(c)'
      BY <2>1, <2>2 DEF OutInv, LeftInv, TiesOf, Row, Pivot
    <3>2. ScratchInv(c)'
      BY <2>1, <2>2 DEF OutInv, ScratchInv, Published, CountsOf, TopsOf, TiesOf, Row, Pivot
    <3>. QED BY <3>1, <3>2
  <2>. QED BY <2>1, <2>4, <2>5, <2>6, <2>7 DEF OutInv
<1>. QED BY <1>1, <1>2, <1>3 DEF Next, Finished

LEMMA OutInvariant == Spec => []OutInv
BY OutStart, OutStep, ControlInvariant, DataInvariant, PTL DEF Spec

----------------------------------------------------------------------------
(* A row behind every CTA.                                                   *)
LEMMA BehindGiven ==
  ASSUME ControlInv, NEW r \in 0 .. Len(rows) - 1, Behind(r), ~Trivial(rows[r + 1])
  PROVE  Given(r) = Win(rows[r + 1]) /\ Shown(r) = Win(rows[r + 1])
<1>1. \A d \in CTA : Claimed(d, r) /\ Emitted(d, r) /\ Collected(d, r) = TiesOf(rows[r + 1], d)
  BY DEF Behind, Claimed, Emitted, Collected
<1>2. r \in Nat /\ r < Len(rows)
  BY DEF ControlInv, ControlTypes
<1>. DEFINE row == rows[r + 1]
<1>3. /\ row \in Rows /\ Tops(row) \subseteq Win(row)
      /\ \A x \in Win(row) : x[1] \in CTA /\ x = <<x[1], x[2]>>
  BY <1>2, GivenFacts, WinFacts
<1>4. TiesGiven(r) = Win(row) \ Tops(row)
  <2>1. \A x \in Win(row) \ Tops(row) : x[2] \in Collected(x[1], r)
    <3>. SUFFICES ASSUME NEW x \in Win(row) \ Tops(row) PROVE x[2] \in Collected(x[1], r)
      OBVIOUS
    <3>1. x[1] \in CTA /\ <<x[1], x[2]>> \in Win(row) \ Tops(row)
      BY <1>3
    <3>2. x[2] \in TiesOf(row, x[1])
      BY <1>3, <3>1, SlotSums
    <3>. QED BY <1>1, <3>1, <3>2
  <2>. QED BY <2>1 DEF TiesGiven
<1>5. {x \in Tops(row) : Claimed(x[1], r)} = Tops(row) /\ {x \in Tops(row) : Emitted(x[1], r)} = Tops(row)
  BY <1>1, <1>3
<1>. QED BY <1>3, <1>4, <1>5 DEF Given, Shown

(* What a full row of slots shows: one write to each, of one key, and no key *)
(* in the slots behind, if those are written at all.                         *)
ShowsIn(r, slots, all, chosen, S) ==
  /\ {w[2] : w \in {v \in out : v[1] = r}} = all
  /\ \A s \in slots : Cardinality(At(r, s)) = 1 /\ Cardinality(ItemsIn(At(r, s))) = 1
  /\ Cardinality(chosen) = Cardinality(slots)
  /\ \A x \in chosen, y \in S \ chosen : Keys(rows[r + 1])[x] >= Keys(rows[r + 1])[y]
NoneBehind(r, n) == \A s \in n .. K - 1 : ItemsIn(At(r, s)) = {}
Shows(r, n, m, S) ==
  /\ ShowsIn(r, 0 .. n - 1, 0 .. m - 1, ItemsIn(UNION {At(r, s) : s \in 0 .. n - 1}), S)
  /\ NoneBehind(r, n)
Pads(pad, n, m) == n <= m /\ {w[2] : w \in pad} = n .. m - 1 /\ \A w \in pad : w[4] = {}
Largest(r, S, D) == \A x \in S, y \in D \ S : Keys(rows[r + 1])[x] >= Keys(rows[r + 1])[y]
LEMMA NoPads ==
  ASSUME NEW n \in Nat
  PROVE  Pads({}, n, n)
<1>1. n .. n - 1 = {} /\ n <= n
  OBVIOUS
<1>. QED BY <1>1 DEF Pads

LEMMA FullSlots ==
  ASSUME NEW r, NEW S, NEW D, NEW n \in Nat, NEW m \in Nat, NEW ws, NEW pad,
         OutOf(r) = ws \cup pad, Full(ws, r, S, n), Pads(pad, n, m), Largest(r, S, D)
  PROVE  Shows(r, n, m, D)
<1>. /\ n <= m /\ {w[2] : w \in pad} = n .. m - 1 /\ \A w \in pad : w[4] = {}
     /\ \A x \in S, y \in D \ S : Keys(rows[r + 1])[x] >= Keys(rows[r + 1])[y]
  BY DEF Pads, Largest
<1>0. /\ {w[2] : w \in ws} = 0 .. n - 1
      /\ \A s \in 0 .. n - 1 : \E x \in S : \E k : {w \in ws : w[2] = s} = {<<r, s, k, {x}>>}
      /\ ItemsIn(ws) = S /\ Cardinality(S) = n
  BY DEF Full
<1>. DEFINE slots == 0 .. n - 1
<1>1. /\ \A w \in ws : w[2] \in slots
      /\ \A w \in pad : w[2] \in n .. m - 1
  BY <1>0
<1>2. \A s \in slots : s \notin n .. m - 1
  OBVIOUS
<1>3. \A s : At(r, s) = {w \in OutOf(r) : w[2] = s}
  BY DEF At, OutOf
<1>. HIDE DEF slots
<1>4. \A s \in slots : At(r, s) = {w \in ws : w[2] = s}
  BY <1>1, <1>2, <1>3
<1>5. UNION {At(r, s) : s \in slots} = ws
  <2>1. \A w : w \in UNION {At(r, s) : s \in slots} <=> \E s \in slots : w \in At(r, s)
    OBVIOUS
  <2>2. \A w : w \in UNION {At(r, s) : s \in slots} <=> w \in ws
    BY <1>1, <1>4, <2>1
  <2>. QED BY <2>2
<1>6. ASSUME NEW s \in slots
      PROVE  Cardinality(At(r, s)) = 1 /\ Cardinality(ItemsIn(At(r, s))) = 1
  <2>0. PICK x \in S : \E kd : {w \in ws : w[2] = s} = {<<r, s, kd, {x}>>}
    BY <1>0 DEF slots
  <2>1. PICK kd : At(r, s) = {<<r, s, kd, {x}>>}
    BY <1>4, <2>0
  <2>2. ItemsIn(At(r, s)) = {x}
    BY <2>1 DEF ItemsIn
  <2>. QED BY <2>1, <2>2, FS_Singleton
<1>7. Cardinality(slots) = n
  <2>1. Cardinality(0 .. n - 1) = IF 0 > n - 1 THEN 0 ELSE n - 1 - 0 + 1
    BY FS_Interval
  <2>. QED BY <2>1 DEF slots
<1>8. {w[2] : w \in {v \in out : v[1] = r}} = 0 .. m - 1
  <2>1. {w[2] : w \in {v \in out : v[1] = r}} = {w[2] : w \in ws} \cup {w[2] : w \in pad}
    BY DEF OutOf
  <2>2. (0 .. n - 1) \cup (n .. m - 1) = 0 .. m - 1
    OBVIOUS
  <2>. QED BY <1>0, <2>1, <2>2
<1>9. ItemsIn(UNION {At(r, s) : s \in slots}) = S
  BY <1>0, <1>5
<1>10. ShowsIn(r, slots, 0 .. m - 1, S, D)
  BY <1>0, <1>6, <1>7, <1>8 DEF ShowsIn
<1>11. ShowsIn(r, slots, 0 .. m - 1, ItemsIn(UNION {At(r, s) : s \in slots}), D)
  BY <1>9, <1>10
<1>12. NoneBehind(r, n)
  <2>. SUFFICES ASSUME NEW s \in n .. K - 1 PROVE ItemsIn(At(r, s)) = {}
    BY DEF NoneBehind
  <2>1. s \notin slots
    BY DEF slots
  <2>2. \A w \in At(r, s) : w[4] = {}
    BY <1>1, <1>3, <2>1
  <2>. QED BY <2>2 DEF ItemsIn
<1>. QED BY <1>11, <1>12 DEF Shows, slots

LEMMA SmallerOf ==
  ASSUME NEW a \in Nat, NEW b \in Nat
  PROVE  Min({a, b}) = IF a <= b THEN a ELSE b
<1>. DEFINE m == IF a <= b THEN a ELSE b
<1>1. m \in {a, b} /\ \A y \in {a, b} : m <= y
  OBVIOUS
<1>2. \A x \in {a, b} : (\A y \in {a, b} : x <= y) => x = m
  OBVIOUS
<1>. HIDE DEF m
<1>3. (CHOOSE x \in {a, b} : \A y \in {a, b} : x <= y) = m
  BY <1>1, <1>2
<1>4. Min({a, b}) = m
  BY <1>3 DEF Min
<1>. QED BY <1>4 DEF m

(* The slots of a row that was worked out, and of one that came early.       *)
LEMMA WorkedSlots ==
  ASSUME ControlInv, OutInv, NEW r \in 0 .. Len(rows) - 1, Behind(r), ~Trivial(rows[r + 1])
  PROVE  \E S : /\ Full(OutOf(r), r, S, K) /\ S \subseteq Win(rows[r + 1]) /\ Tops(rows[r + 1]) \subseteq S
<1>. DEFINE row == rows[r + 1]
<1>1. row \in Rows /\ r \in Nat
  <2>1. r \in Nat /\ r < Len(rows)
    BY DEF ControlInv, ControlTypes
  <2>. QED BY <2>1, GivenFacts
<1>2. Given(r) = Win(row) /\ Shown(r) = Win(row)
  BY BehindGiven
<1>3. /\ IsFiniteSet(Win(row)) /\ Cardinality(Win(row)) \in Nat /\ K <= Cardinality(Win(row))
      /\ Tops(row) \subseteq Win(row) /\ K \in Nat
  BY <1>1, WinFacts
<1>4. PICK f : OneEach(r, f) /\ InReach(r, f) /\ FromBase(r, f) /\ Holds(r, f)
  BY DEF OutInv, RowOut, WorkedOut
<1>5. f \in [Win(row) -> Nat] /\ \A x, y \in Win(row) : f[x] = f[y] => x = y
  BY <1>2, <1>4 DEF OneEach
<1>6. \A x \in Win(row) : f[x] < Cardinality(Win(row))
  <2>1. \A x \in Win(row) : Slot(row, x) < Cardinality(Win(row))
    BY <1>1, SlotFacts
  <2>. QED BY <1>2, <1>4, <2>1 DEF InReach
<1>7. \A x \in Tops(row) : f[x] < K
  BY <1>2, <1>3, <1>4 DEF InReach
<1>8. PICK kd : kd = [s \in Nat |-> KindOf(r, s)]
  OBVIOUS
<1>9. Filled(OutOf(r), r, Win(row), f, kd, K)
  <2>1. OutOf(r) = {<<r, f[x], KindOf(r, f[x]), {x}>> : x \in {y \in Win(row) : f[y] < K}}
    BY <1>2, <1>4 DEF Holds
  <2>2. \A x \in {y \in Win(row) : f[y] < K} : KindOf(r, f[x]) = kd[f[x]]
    BY <1>5, <1>8
  <2>. HIDE DEF row
  <2>3. OutOf(r) = {<<r, f[x], kd[f[x]], {x}>> : x \in {y \in Win(row) : f[y] < K}}
    BY <2>1, <2>2
  <2>. QED BY <2>3 DEF Filled
<1>. DEFINE S == {y \in Win(row) : f[y] < K}
<1>10. Full(OutOf(r), r, S, K)
  <2>. HIDE DEF row
  <2>. QED BY <1>3, <1>5, <1>6, <1>9, FilledFacts
<1>11. S \subseteq Win(row) /\ Tops(row) \subseteq S
  BY <1>3, <1>7
<1>. HIDE DEF S
<1>. QED BY <1>10, <1>11

LEMMA TrivialSlots ==
  ASSUME ControlInv, OutInv, NEW r \in 0 .. Len(rows) - 1, Behind(r), Trivial(rows[r + 1]),
         NEW D, D = DOMAIN Keys(rows[r + 1])
  PROVE  /\ Cardinality(D) \in Nat
         /\ \E ws : /\ Full(ws, r, D, Cardinality(D))
                    /\ OutOf(r) = ws \cup IF kernel.basic THEN {} ELSE Padding(r, rows[r + 1])
<1>. DEFINE row == rows[r + 1]
<1>1. row \in Rows
  <2>1. rows \in Seq(Rows) /\ Len(rows) \in Nat /\ r + 1 \in 1 .. Len(rows)
    BY DEF ControlInv, ControlTypes
  <2>. QED BY <2>1
<1>2. IsFiniteSet(D) /\ Cardinality(D) \in Nat /\ Cardinality(D) <= Cardinality(D)
  <2>1. IsFiniteSet(D) /\ Cardinality(D) \in Nat
    BY <1>1, RowKeys, FS_CardinalityType
  <2>. QED BY <2>1
<1>3. \A x \in D : x[1] \in CTA
  BY DEF Keys
<1>4. \A d \in CTA : Passed(r, d)
  <2>1. 0 \in CTA
    BY Group
  <2>. QED BY <2>1 DEF Passed, Behind
<1>5. PICK f : f = [x \in D |-> Position(row, x)]
  OBVIOUS
<1>6. /\ f \in [D -> Nat] /\ \A x, y \in D : f[x] = f[y] => x = y
      /\ \A x \in D : f[x] < Cardinality(D)
  BY <1>1, <1>5, PositionFacts
<1>7. PICK kd : kd = [s \in Nat |-> IF kernel.paged THEN "page" ELSE "index"]
  OBVIOUS
<1>0. PICK ws : ws = {<<r, Position(row, x), IF kernel.paged THEN "page" ELSE "index", {x}>> :
                          x \in {y \in D : Passed(r, y[1])}}
  OBVIOUS
<1>11. OutOf(r) = ws \cup IF kernel.basic THEN {} ELSE Padding(r, row)
  <2>1. OutOf(r) = ws \cup Padded(r)
    BY <1>0 DEF OutInv, RowOut, TrivialOut
  <2>2. 0 \in CTA
    BY Group
  <2>. QED BY <2>1, <2>2 DEF Padded, Behind
<1>8. Filled(ws, r, D, f, kd, Cardinality(D))
  <2>2. {y \in D : Passed(r, y[1])} = D /\ {y \in D : f[y] < Cardinality(D)} = D
    BY <1>3, <1>4, <1>6
  <2>3. \A x \in D : Position(row, x) = f[x] /\ (IF kernel.paged THEN "page" ELSE "index") = kd[f[x]]
    BY <1>5, <1>6, <1>7
  <2>. HIDE DEF row
  <2>4. ws = {<<r, f[x], kd[f[x]], {x}>> : x \in D}
    BY <1>0, <2>2, <2>3
  <2>. QED BY <2>2, <2>4 DEF Filled
<1>9. {y \in D : f[y] < Cardinality(D)} = D
  BY <1>6
<1>10. Full(ws, r, {y \in D : f[y] < Cardinality(D)}, Cardinality(D))
  BY <1>2, <1>6, <1>8, FilledFacts
<1>. QED BY <1>2, <1>9, <1>10, <1>11

(* The slots behind a short row.                                             *)
LEMMA PaddingSlots ==
  ASSUME NEW r, NEW row, NEW n, n = Cardinality(DOMAIN Keys(row))
  PROVE  {w[2] : w \in Padding(r, row)} = n .. K - 1 /\ \A w \in Padding(r, row) : w[4] = {}
<1>1. Padding(r, row) = {<<r, s, "none", {}>> : s \in n .. K - 1}
  BY DEF Padding
<1>2. \A w \in Padding(r, row) : w[2] \in n .. K - 1 /\ w[4] = {}
  BY <1>1
<1>3. \A s \in n .. K - 1 : \E w \in Padding(r, row) : w[2] = s
  <2>. TAKE s \in n .. K - 1
  <2>1. <<r, s, "none", {}>> \in Padding(r, row) /\ <<r, s, "none", {}>>[2] = s
    BY <1>1
  <2>. QED BY <2>1
<1>. QED BY <1>2, <1>3

(* Once a row is behind every CTA its K slots hold its K largest keys, each  *)
(* once, whatever the group, the rows, the collect and the schedule.         *)
THEOREM SelectsTheLargest == Spec => []RowsSelected
<1>1. ASSUME ControlInv, OutInv, NEW r \in 0 .. Len(rows) - 1, Behind(r),
             NEW D, D = DOMAIN Keys(rows[r + 1])
      PROVE  LET n == Min({K, Cardinality(D)}) IN Shows(r, n, IF kernel.basic THEN n ELSE K, D)
  <2>. DEFINE keys == Keys(rows[r + 1])
  <2>1. rows[r + 1] \in Rows
    <3>1. rows \in Seq(Rows) /\ Len(rows) \in Nat /\ r + 1 \in 1 .. Len(rows)
      BY <1>1 DEF ControlInv, ControlTypes
    <3>. QED BY <3>1
  <2>2. IsFiniteSet(D) /\ Cardinality(D) \in Nat /\ K \in Nat /\ \A x \in D : keys[x] \in Nat
    BY <1>1, <2>1, RowKeys, FS_CardinalityType, KernelAssumption
  <2>3. CASE Trivial(rows[r + 1])
    <3>1. Min({K, Cardinality(D)}) = Cardinality(D)
      <4>1. Cardinality(D) <= K
        BY <1>1, <2>3 DEF Trivial
      <4>2. Min({K, Cardinality(D)}) = IF K <= Cardinality(D) THEN K ELSE Cardinality(D)
        BY <2>2, SmallerOf
      <4>. QED BY <2>2, <4>1, <4>2
    <3>2. PICK ws : /\ Full(ws, r, D, Cardinality(D))
                    /\ OutOf(r) = ws \cup IF kernel.basic THEN {} ELSE Padding(r, rows[r + 1])
      BY <1>1, <2>3, TrivialSlots
    <3>3. Largest(r, D, D)
      BY DEF Largest
    <3>4. CASE kernel.basic
      <4>1. OutOf(r) = ws \cup {}
        BY <3>2, <3>4
      <4>2. Pads({}, Cardinality(D), Cardinality(D))
        BY <2>2, NoPads
      <4>3. Shows(r, Cardinality(D), Cardinality(D), D)
        BY <2>2, <3>2, <3>3, <4>1, <4>2, FullSlots
      <4>. QED BY <3>1, <3>4, <4>3
    <3>5. CASE ~kernel.basic
      <4>1. OutOf(r) = ws \cup Padding(r, rows[r + 1])
        BY <3>2, <3>5
      <4>2. Cardinality(D) <= K
        BY <1>1, <2>3 DEF Trivial
      <4>3. /\ {w[2] : w \in Padding(r, rows[r + 1])} = Cardinality(D) .. K - 1
            /\ \A w \in Padding(r, rows[r + 1]) : w[4] = {}
        BY <1>1, PaddingSlots
      <4>4. Pads(Padding(r, rows[r + 1]), Cardinality(D), K)
        BY <4>2, <4>3 DEF Pads
      <4>5. Shows(r, Cardinality(D), K, D)
        BY <2>2, <3>2, <3>3, <4>1, <4>4, FullSlots
      <4>. QED BY <3>1, <3>5, <4>5
    <3>. QED BY <3>4, <3>5
  <2>4. CASE ~Trivial(rows[r + 1])
    <3>1. Min({K, Cardinality(D)}) = K
      <4>1. K < Cardinality(D)
        BY <1>1, <2>2, <2>4 DEF Trivial
      <4>2. Min({K, Cardinality(D)}) = IF K <= Cardinality(D) THEN K ELSE Cardinality(D)
        BY <2>2, SmallerOf
      <4>. QED BY <2>2, <4>1, <4>2
    <3>2. PICK S : Full(OutOf(r), r, S, K) /\ S \subseteq Win(rows[r + 1]) /\ Tops(rows[r + 1]) \subseteq S
      BY <1>1, <2>4, WorkedSlots
    <3>3. \A x \in S, y \in D \ S : keys[x] >= keys[y]
      <4>. SUFFICES ASSUME NEW x \in S, NEW y \in D \ S PROVE keys[x] >= keys[y]
        OBVIOUS
      <4>1. Pivot(rows[r + 1]) \in Nat
        BY <2>1, <2>4, WinFacts
      <4>2. x \in D /\ keys[x] >= Pivot(rows[r + 1])
        BY <1>1, <3>2 DEF Win
      <4>3. ~(keys[y] > Pivot(rows[r + 1]))
        BY <1>1, <3>2 DEF Tops
      <4>. QED BY <2>2, <4>1, <4>2, <4>3
    <3>4. Shows(r, K, K, D)
      <4>1. OutOf(r) = OutOf(r) \cup {} /\ Pads({}, K, K)
        BY <2>2, NoPads
      <4>2. Largest(r, S, D)
        BY <3>3 DEF Largest
      <4>. QED BY <2>2, <3>2, <4>1, <4>2, FullSlots
    <3>. QED BY <3>1, <3>4
  <2>. QED BY <2>3, <2>4
<1>2. (\A r \in 0 .. Len(rows) - 1 : Behind(r) =>
         LET n == Min({K, Cardinality(DOMAIN Keys(rows[r + 1]))})
         IN Shows(r, n, IF kernel.basic THEN n ELSE K, DOMAIN Keys(rows[r + 1]))) => RowsSelected
  BY DEF RowsSelected, Shows, ShowsIn, NoneBehind
<1>3. ControlInv /\ OutInv => RowsSelected
  BY <1>1, <1>2
<1>. QED BY <1>3, ControlInvariant, OutInvariant, PTL

(* With the deterministic collect every key is where its rank says, by CTA   *)
(* and then by thread, from the moment it is written, in every schedule.     *)
THEOREM PlacesByRank == Spec => []Reproducible
<1>1. ControlInv /\ OutInv => Reproducible
  <2>. SUFFICES ASSUME ControlInv, OutInv, kernel.det, NEW w \in out, ~Trivial(rows[w[1] + 1]), NEW x \in w[4]
                PROVE  w[2] = Slot(rows[w[1] + 1], x)
    BY DEF Reproducible, Slot
  <2>1. PICK i : i = w[1]
    OBVIOUS
  <2>2. i \in 0 .. Len(rows) - 1 /\ i \in Nat /\ i < Len(rows)
    BY <2>1 DEF OutInv, OutTypes, ControlInv, ControlTypes
  <2>3. PICK f : OneEach(i, f) /\ InReach(i, f) /\ Holds(i, f)
    BY <2>1, <2>2 DEF OutInv, RowOut, WorkedOut
  <2>4. w \in OutOf(i)
    BY <2>1 DEF OutOf
  <2>5. PICK y \in Shown(i) : w = <<i, f[y], KindOf(i, f[y]), {y}>>
    BY <2>3, <2>4 DEF Holds
  <2>6. y \in Given(i) /\ x = y /\ w[2] = f[y]
    BY <2>1, <2>2, <2>5, GivenFacts
  <2>. QED BY <2>1, <2>3, <2>6 DEF InReach
<1>. QED BY <1>1, ControlInvariant, OutInvariant, PTL
=============================================================================
