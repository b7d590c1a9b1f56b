------------------------ MODULE NvlinkBarrier_proofs ------------------------
(***************************************************************************)
(* The barrier between ranks is a barrier, for any number of ranks and of    *)
(* barriers. The argument: a signal word counts the ranks whose last signal  *)
(* to it went up (Counted), and because nobody passes a barrier before all   *)
(* have told of it (PassedAfterAll) the ranks are never more than one        *)
(* barrier apart, so the words of two barriers are never taken for one       *)
(* another.                                                                 *)
(***************************************************************************)
EXTENDS NvlinkBarrier, FiniteSetTheorems, TLAPS

(* A rank that sent n signals has its mark in word p if the last of them to  *)
(* that word went up.                                                       *)
Mark(n, p) == ((n + 1 - p) \div 2) % 2
Marked(q, p) == {r \in Rank : Mark(Sent(r, q), p) = 1}

Types ==
  /\ counter \in [Rank -> Nat]
  /\ signal \in [Rank -> [0 .. 1 -> Int]]
  /\ spot \in [Rank -> {"out", "tell", "wait"}]
  /\ told \in [Rank -> SUBSET Rank]
Spots == \A r \in Rank : /\ spot[r] = "wait" => counter[r] \in 1 .. BARRIERS
                         /\ spot[r] = "tell" => counter[r] < BARRIERS
                         /\ counter[r] <= BARRIERS
Counted == \A q \in Rank, p \in 0 .. 1 : signal[q][p] = Cardinality(Marked(q, p))
BarrierInv == Types /\ Spots /\ Counted /\ PassedAfterAll

LEMMA SentType ==
  ASSUME Types, Spots
  PROVE  \A q, r \in Rank : /\ Sent(r, q) \in Nat
                            /\ Passed(r) \in Nat
                            /\ Passed(r) <= Sent(r, q)
                            /\ Sent(r, q) <= Passed(r) + 1
BY SMT DEF Types, Spots, Sent, Passed

(* The next signal goes to word n % 2 and changes the mark there.            *)
LEMMA MarkStep ==
  ASSUME NEW n \in Nat
  PROVE  /\ Mark(n, 1 - Phase(n)) = Mark(n + 1, 1 - Phase(n))
         /\ Mark(n, Phase(n)) = Sign(n)
         /\ Mark(n + 1, Phase(n)) = 1 - Sign(n)
         /\ Mark(n + 2, Phase(n)) = 1 - Sign(n)
         /\ Phase(n) \in 0 .. 1 /\ Sign(n) \in 0 .. 1
BY SMT DEF Mark, Phase, Sign

(* Words keep their values and ranks their marks when nobody sends.          *)
LEMMA CountedKept ==
  ASSUME Counted, \A q, r \in Rank : Sent(r, q)' = Sent(r, q), signal' = signal
  PROVE  Counted'
<1>. SUFFICES ASSUME NEW q \in Rank, NEW p \in 0 .. 1
              PROVE  signal'[q][p] = Cardinality(Marked(q, p)')
  BY DEF Counted
<1>1. Marked(q, p)' = Marked(q, p)
  BY DEF Marked
<1>. QED BY <1>1 DEF Counted

LEMMA MarkedFinite == \A q, p : IsFiniteSet(Marked(q, p)) /\ Marked(q, p) \in SUBSET Rank
BY RankAssumption, FS_Subset DEF Marked

(* One signal of rank r to rank q: the mark of r, and the word, change by the *)
(* same amount.                                                             *)
LEMMA TellCounted ==
  ASSUME BarrierInv, NEW r \in Rank, NEW q \in Rank, Tell(r, q)
  PROVE  BarrierInv'
<1>. DEFINE n == counter[r]
            w == Phase(n)
<1>1. n \in Nat /\ Sent(r, q) = n /\ Sent(r, q)' = n + 1
  BY SMT DEF BarrierInv, Types, Tell, Sent
<1>2. \A a, b \in Rank : <<a, b>> # <<r, q>> => Sent(a, b)' = Sent(a, b)
  BY SMT DEF BarrierInv, Types, Tell, Sent
<1>3. \A a \in Rank : Passed(a)' = Passed(a)
  BY DEF Tell, Passed
<1>4. Types' /\ Spots'
  BY MarkStep, <1>1, SMT DEF BarrierInv, Types, Spots, Tell, Delta
<1>5. PassedAfterAll'
  BY <1>1, <1>2, <1>3, SentType, SMT DEF BarrierInv, PassedAfterAll
<1>6. ASSUME NEW a \in Rank, NEW p \in 0 .. 1
      PROVE  signal'[a][p] = Cardinality(Marked(a, p)')
  <2>0. signal[a][p] = Cardinality(Marked(a, p)) /\ IsFiniteSet(Marked(a, p))
    BY MarkedFinite DEF BarrierInv, Counted
  <2>1. CASE a # q
    <3>1. Marked(a, p)' = Marked(a, p)
      BY <1>2, <2>1 DEF Marked
    <3>. QED BY <2>0, <2>1, <3>1 DEF Tell, BarrierInv, Types
  <2>2. CASE a = q /\ p # w
    <3>1. p = 1 - w
      BY <2>2, <1>1, MarkStep, SMT
    <3>2. Mark(n + 1, p) = Mark(n, p)
      BY <3>1, <1>1, MarkStep
    <3>3. Marked(a, p)' = Marked(a, p)
      BY <1>1, <1>2, <2>2, <3>2 DEF Marked
    <3>4. signal'[a][p] = signal[a][p]
      BY <2>2, SMT DEF Tell, BarrierInv, Types
    <3>. QED BY <2>0, <3>3, <3>4
  <2>3. CASE a = q /\ p = w
    <3>1. Mark(n, w) = Sign(n) /\ Mark(n + 1, w) = 1 - Sign(n) /\ Sign(n) \in 0 .. 1
      BY <1>1, MarkStep
    <3>2. signal'[a][p] = signal[a][p] + Delta(n)
      BY <2>3, <1>1, MarkStep, SMT DEF Tell, BarrierInv, Types
    <3>3. CASE Sign(n) = 0
      <4>1. r \notin Marked(a, p) /\ Marked(a, p)' = Marked(a, p) \cup {r}
        BY <1>1, <1>2, <2>3, <3>1, <3>3 DEF Marked
      <4>. QED BY <2>0, <3>2, <3>3, <4>1, FS_AddElement DEF Delta
    <3>4. CASE Sign(n) = 1
      <4>1. r \in Marked(a, p) /\ Marked(a, p)' = Marked(a, p) \ {r}
        BY <1>1, <1>2, <2>3, <3>1, <3>4 DEF Marked
      <4>2. Cardinality(Marked(a, p)) \in Nat
        BY <2>0, FS_CardinalityType
      <4>3. Cardinality(Marked(a, p)') = Cardinality(Marked(a, p)) - 1
        BY <2>0, <4>1, FS_RemoveElement
      <4>. QED BY <2>0, <3>2, <3>4, <4>2, <4>3, SMT DEF Delta
    <3>. QED BY <3>1, <3>3, <3>4, SMT
  <2>. QED BY <2>1, <2>2, <2>3
<1>. QED BY <1>4, <1>5, <1>6 DEF BarrierInv, Counted

(* A rank that sees its target was told by every rank: between its signal    *)
(* number n and the target only marks of other ranks can be missing, and a    *)
(* rank that has not signalled yet would leave one too few, or one too many. *)
LEMMA PassSafe ==
  ASSUME BarrierInv, NEW r \in Rank, Pass(r)
  PROVE  \A q \in Rank : Sent(q, r) >= counter[r]
<1>. DEFINE n == counter[r] - 1
            w == Phase(n)
<1>. SUFFICES ASSUME NEW q \in Rank, ~(Sent(q, r) >= n + 1) PROVE FALSE
  BY SMT DEF BarrierInv, Types
<1>1. n \in Nat /\ Passed(r) = n
  BY SMT DEF BarrierInv, Types, Spots, Pass, Passed
<1>2. Sent(q, r) = n
  BY <1>1, SentType, SMT DEF BarrierInv, PassedAfterAll
<1>3. \A a \in Rank : Sent(a, r) \in n .. n + 2
  <2>. TAKE a \in Rank
  <2>1. Sent(r, a) = n + 1
    BY <1>1, SMT DEF Pass, Sent, BarrierInv, Types
  <2>2. Passed(a) <= n + 1 /\ Sent(a, r) >= n
    BY <1>1, <2>1 DEF BarrierInv, PassedAfterAll
  <2>. QED BY <1>1, <2>2, SentType, SMT DEF BarrierInv
<1>4. w \in 0 .. 1 /\ Sign(n) \in 0 .. 1
  BY <1>1, MarkStep
<1>5. Cardinality(Marked(r, w)) = Target(n)
  BY <1>1, <1>4 DEF BarrierInv, Counted, Pass, Signalled
<1>6. Marked(r, w) \in SUBSET Rank /\ IsFiniteSet(Marked(r, w))
  BY MarkedFinite
<1>7. CASE Sign(n) = 0
  <2>1. Marked(r, w) = Rank
    BY <1>5, <1>6, <1>7, RankAssumption, FS_Subset DEF Target
  <2>2. Mark(n, w) = 0
    BY <1>1, <1>7, MarkStep
  <2>. QED BY <1>2, <2>1, <2>2 DEF Marked
<1>8. CASE Sign(n) = 1
  <2>1. Marked(r, w) = {}
    BY <1>5, <1>6, <1>8, FS_EmptySet DEF Target
  <2>2. Mark(n, w) = 1
    BY <1>1, <1>8, MarkStep
  <2>. QED BY <1>2, <2>1, <2>2 DEF Marked
<1>. QED BY <1>4, <1>7, <1>8, SMT

LEMMA InvStart == BarrierInit => BarrierInv
<1>. SUFFICES ASSUME BarrierInit PROVE BarrierInv
  OBVIOUS
<1>1. Types /\ Spots /\ \A q, r \in Rank : Sent(q, r) = 0 /\ Passed(r) = 0
  BY BarriersAssumption, SMT DEF BarrierInit, Types, Spots, Sent, Passed
<1>2. \A q \in Rank, p \in 0 .. 1 : Marked(q, p) = {}
  <2>1. \A p \in 0 .. 1 : Mark(0, p) = 0
    BY SMT DEF Mark
  <2>. QED BY <1>1, <2>1 DEF Marked
<1>3. Counted
  BY <1>2, FS_EmptySet DEF Counted, BarrierInit
<1>. QED BY <1>1, <1>3 DEF BarrierInv, PassedAfterAll

LEMMA InvStep == BarrierInv /\ [BarrierNext]_barrierVars => BarrierInv'
<1>. SUFFICES ASSUME BarrierInv, [BarrierNext]_barrierVars PROVE BarrierInv'
  OBVIOUS
<1>1. ASSUME NEW r \in Rank, Begin(r) PROVE BarrierInv'
  <2>1. \A a, b \in Rank : Sent(a, b)' = Sent(a, b) /\ Passed(a)' = Passed(a)
    BY <1>1, SMT DEF BarrierInv, Types, Begin, Sent, Passed
  <2>2. Types' /\ Spots'
    BY <1>1, BarriersAssumption, SMT DEF BarrierInv, Types, Spots, Begin
  <2>3. Counted'
    BY <1>1, <2>1, CountedKept DEF BarrierInv, Begin
  <2>. QED BY <2>1, <2>2, <2>3 DEF BarrierInv, PassedAfterAll
<1>2. ASSUME NEW r \in Rank, NEW q \in Rank, Tell(r, q) PROVE BarrierInv'
  BY <1>2, TellCounted
<1>3. ASSUME NEW r \in Rank, CountUp(r) PROVE BarrierInv'
  <2>1. \A a, b \in Rank : Sent(a, b)' = Sent(a, b) /\ Passed(a)' = Passed(a)
    BY <1>3, SMT DEF BarrierInv, Types, CountUp, Sent, Passed
  <2>2. Types' /\ Spots'
    BY <1>3, BarriersAssumption, SMT DEF BarrierInv, Types, Spots, CountUp
  <2>3. Counted'
    BY <1>3, <2>1, CountedKept DEF BarrierInv, CountUp
  <2>. QED BY <2>1, <2>2, <2>3 DEF BarrierInv, PassedAfterAll
<1>4. ASSUME NEW r \in Rank, Pass(r) PROVE BarrierInv'
  <2>1. \A a, b \in Rank : Sent(a, b)' = Sent(a, b)
    BY <1>4, SMT DEF BarrierInv, Types, Pass, Sent
  <2>2. \A a \in Rank : Passed(a)' = IF a = r THEN counter[r] ELSE Passed(a)
    BY <1>4, SMT DEF BarrierInv, Types, Pass, Passed
  <2>3. Types' /\ Spots'
    BY <1>4, SMT DEF BarrierInv, Types, Spots, Pass
  <2>4. Counted'
    BY <1>4, <2>1, CountedKept DEF BarrierInv, Pass
  <2>5. PassedAfterAll'
    BY <1>4, <2>1, <2>2, PassSafe DEF BarrierInv, PassedAfterAll
  <2>. QED BY <2>3, <2>4, <2>5 DEF BarrierInv
<1>5. CASE UNCHANGED barrierVars
  <2>1. \A a, b \in Rank : Sent(a, b)' = Sent(a, b) /\ Passed(a)' = Passed(a)
    BY <1>5 DEF barrierVars, Sent, Passed
  <2>2. Types' /\ Spots'
    BY <1>5 DEF barrierVars, BarrierInv, Types, Spots
  <2>3. Counted'
    BY <1>5, <2>1, CountedKept DEF barrierVars, BarrierInv
  <2>. QED BY <2>1, <2>2, <2>3 DEF BarrierInv, PassedAfterAll
<1>. QED BY <1>1, <1>2, <1>3, <1>4, <1>5 DEF BarrierNext, RankStep, Finished

LEMMA Invariance == BarrierSpec => []BarrierInv
BY InvStart, InvStep, PTL DEF BarrierSpec

(* No rank passes a barrier that another has not told it of, for any number   *)
(* of ranks (nvlink_barrier of dispatch.py and combine.py).                  *)
THEOREM BarrierSafe == BarrierSpec => []PassedAfterAll
<1>1. BarrierInv => PassedAfterAll
  BY DEF BarrierInv
<1>. QED BY <1>1, Invariance, PTL

(* A signal word never leaves 0 .. number of ranks, and the rest of the       *)
(* barrier's state keeps its type.                                          *)
THEOREM BarrierTypes == BarrierSpec => []BarrierTypeOK
<1>1. BarrierInv => BarrierTypeOK
  <2>. SUFFICES ASSUME BarrierInv PROVE BarrierTypeOK
    OBVIOUS
  <2>1. \A q \in Rank, p \in 0 .. 1 : signal[q][p] \in 0 .. Cardinality(Rank)
    <3>. TAKE q \in Rank, p \in 0 .. 1
    <3>1. Marked(q, p) \in SUBSET Rank /\ IsFiniteSet(Marked(q, p))
      BY MarkedFinite
    <3>2. Cardinality(Marked(q, p)) \in Nat /\ Cardinality(Rank) \in Nat
          /\ Cardinality(Marked(q, p)) <= Cardinality(Rank)
      BY <3>1, RankAssumption, FS_Subset, FS_CardinalityType
    <3>. QED BY <3>2, SMT DEF BarrierInv, Counted
  <2>2. counter \in [Rank -> 0 .. BARRIERS]
    BY BarriersAssumption, SMT DEF BarrierInv, Types, Spots
  <2>. QED BY <2>1, <2>2 DEF BarrierInv, Types, BarrierTypeOK
<1>. QED BY <1>1, Invariance, PTL

(* The barrier of the ranks implements the abstract one: every step is a      *)
(* rank's entering or passing, or nothing the others can see.                *)
THEOREM BarrierImplements == BarrierSpec => RanksMeet
<1>. DEFINE in == [r \in Rank |-> counter[r] + IF spot[r] = "tell" /\ told[r] # {} THEN 1 ELSE 0]
            gone == [r \in Rank |-> Passed(r)]
<1>1. BarrierInit => Meeting!Init
  BY DEF BarrierInit, Meeting!Init, Passed
<1>2. BarrierInv /\ [BarrierNext]_barrierVars => [Meeting!Next]_<<in, gone>>
  <2>. SUFFICES ASSUME BarrierInv, [BarrierNext]_barrierVars
                PROVE  Meeting!Next \/ UNCHANGED <<in, gone>>
    OBVIOUS
  <2>1. ASSUME NEW r \in Rank, Begin(r) PROVE UNCHANGED <<in, gone>>
    BY <2>1, SMT DEF Begin, Passed, BarrierInv, Types
  <2>2. ASSUME NEW r \in Rank, CountUp(r) PROVE UNCHANGED <<in, gone>>
    <3>1. /\ told' = told /\ told[r] # {} /\ spot[r] = "tell" /\ spot' = [spot EXCEPT ![r] = "wait"]
          /\ counter' = [counter EXCEPT ![r] = @ + 1]
      BY <2>2 DEF CountUp
    <3>2. in' = in
      BY <3>1, SMT DEF BarrierInv, Types
    <3>3. gone' = gone
      BY <3>1, SMT DEF Passed, BarrierInv, Types
    <3>. QED BY <3>2, <3>3
  <2>3. ASSUME NEW r \in Rank, NEW q \in Rank, Tell(r, q)
        PROVE  Meeting!Enter(r) \/ UNCHANGED <<in, gone>>
    <3>1. gone' = gone
      BY <2>3 DEF Tell, Passed
    <3>2. CASE told[r] # {}
      <4>1. in' = in
        BY <2>3, <3>2, SMT DEF Tell, BarrierInv, Types
      <4>. QED BY <3>1, <4>1
    <3>3. CASE told[r] = {}
      <4>0. /\ counter' = counter /\ spot' = spot /\ spot[r] = "tell"
            /\ q \in told'[r] /\ \A a \in Rank \ {r} : told'[a] = told[a]
        BY <2>3 DEF Tell, BarrierInv, Types
      <4>1. \A a \in Rank : in'[a] = IF a = r THEN in[r] + 1 ELSE in[a]
        BY <4>0, <3>3, SMT DEF BarrierInv, Types
      <4>2. in[r] = gone[r]
        BY <2>3, <3>3, SMT DEF Tell, BarrierInv, Types, Passed
      <4>3. in' = [in EXCEPT ![r] = @ + 1]
        BY <4>1
      <4>. QED BY <3>1, <4>2, <4>3 DEF Meeting!Enter
    <3>. QED BY <3>2, <3>3
  <2>4. ASSUME NEW r \in Rank, Pass(r) PROVE Meeting!Pass(r)
    <3>0. /\ in' = in
          /\ \A a \in Rank : gone'[a] = IF a = r THEN gone[r] + 1 ELSE gone[a]
      BY <2>4, SMT DEF Pass, BarrierInv, Types, Spots, Passed
    <3>1. in' = in /\ gone' = [gone EXCEPT ![r] = @ + 1]
      BY <3>0
    <3>2. gone[r] = counter[r] - 1 /\ in[r] = counter[r] /\ counter[r] \in Nat
      BY <2>4, SMT DEF Pass, BarrierInv, Types, Passed
    <3>3. \A q \in Rank : in[q] > gone[r]
      <4>. TAKE q \in Rank
      <4>1. Sent(q, r) >= counter[r]
        BY <2>4, PassSafe
      <4>2. in[q] >= Sent(q, r) /\ in[q] \in Int /\ Sent(q, r) \in Int
        BY SMT DEF Sent, BarrierInv, Types
      <4>. QED BY <3>2, <4>1, <4>2, SMT
    <3>. QED BY <3>1, <3>2, <3>3, SMT DEF Meeting!Pass
  <2>5. CASE UNCHANGED barrierVars
    BY <2>5 DEF barrierVars, Passed
  <2>. QED BY <2>1, <2>2, <2>3, <2>4, <2>5 DEF BarrierNext, RankStep, Finished, Meeting!Next
<1>. QED BY <1>1, <1>2, Invariance, PTL DEF BarrierSpec, RanksMeet, Meeting!Spec
=============================================================================
