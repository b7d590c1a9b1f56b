---------------------------- MODULE DeepEP_proofs ----------------------------
(***************************************************************************)
(* The proofs about the two DeepEP kernels, which share the barrier of the   *)
(* ranks and its theorems (NvlinkBarrier_proofs). The combine comes first,   *)
(* then the dispatch.                                                       *)
(***************************************************************************)
EXTENDS DeepEPCombine, DeepEPDispatch, NvlinkBarrier_proofs

(***************************************************************************)
(* The two barriers of the combine kernel keep the slots of its calls apart. *)
(* The grid barrier counts: in call n a word holds (n - 1) * NUM_SMS and one *)
(* for every SM that is through, so that it reaches the goal n * NUM_SMS     *)
(* only with the last SM of this call (GridInv). The barrier of the ranks is *)
(* the one of NvlinkBarrier_proofs; how many of them a rank has passed says  *)
(* how far it is in its calls (CombineCountInv), and so which call of        *)
(* another rank can have stored by then.                                    *)
(***************************************************************************)

CombinePlace == {"idle", "nvlink", "grid", "arrive", "wait", "send",
                 "grid_exit", "arrive_exit", "wait_exit", "nvlink_exit", "done"}
CombineTypes ==
  /\ call \in [Rank -> Nat] /\ place \in [Rank -> [Warp -> CombinePlace]]
  /\ grid \in [Rank -> [Site -> Int]] /\ goal \in [Rank -> [SM -> Int]]
  /\ slot \in [Rank -> [Rank \X Warp -> Int]]

(* Thread 0 of an SM leads; the other warps meet it at every bar.sync.       *)
Lead(r, s) == place[r][<<s, 0>>]
Beside(p) == IF p \in {"grid", "arrive", "wait"} THEN {"grid"}
             ELSE IF p \in {"send", "grid_exit", "arrive_exit", "wait_exit"} THEN {"send", "grid_exit"}
             ELSE {p}
WarpsInv(r) ==
  /\ \A s \in SM : \A w \in WarpsOf(s) : w = <<s, 0>> \/ place[r][w] \in Beside(Lead(r, s))
  /\ \A s \in SM : s # 0 => Lead(r, s) \notin {"nvlink", "nvlink_exit"}
  /\ \A s, t \in SM : Lead(r, s) = "idle" => Lead(r, t) = "idle"

(* A grid word counts the SMs that are through, over all calls.              *)
BeforeExit == BeforeEntry \cup {"wait", "send", "grid_exit", "arrive_exit"}
Through(r, before) == {s \in SM : Lead(r, s) \notin before}
GridCounts(r) ==
  /\ grid[r][0] = (call[r] - 1) * NUM_SMS + Cardinality(Through(r, BeforeEntry))
  /\ grid[r][1] = (call[r] - 1) * NUM_SMS + Cardinality(Through(r, BeforeExit))
  /\ \A s \in SM : Lead(r, s) \in {"arrive", "wait", "arrive_exit", "wait_exit"} =>
       goal[r][s] = call[r] * NUM_SMS
GridOrder(r) ==
  \A s, t \in SM :
     /\ Lead(r, s) \in PastEntry => Lead(r, t) \notin BeforeEntry
     /\ Lead(r, s) \in {"nvlink_exit", "done"} =>
          Lead(r, t) \in {"wait_exit", "nvlink_exit", "done"}

(* Two barriers of the ranks in a call; only SM 0 is ever inside one.        *)
CombineCountInv(r) ==
  /\ Passed(r) = 2 * call[r] - (IF Lead(r, 0) = "nvlink" THEN 2
                                ELSE IF Lead(r, 0) \in {"done", "idle"} THEN 0 ELSE 1)
  /\ spot[r] # "out" => Lead(r, 0) \in {"nvlink", "nvlink_exit"}

CombineRankInv(r) == WarpsInv(r) /\ GridCounts(r) /\ GridOrder(r) /\ CombineCountInv(r)

(* What a warp stored last, everywhere.                                      *)
BeforeStore == {"nvlink", "grid", "arrive", "wait", "send"}
CombineSlotInv ==
  \A x, q \in Rank, w \in Warp :
    slot[x][<<q, w>>] = IF place[q][w] \in BeforeStore THEN call[q] - 1 ELSE call[q]

CombineInv == BarrierInv /\ CombineTypes /\ (\A r \in Rank : CombineRankInv(r)) /\ CombineSlotInv

----------------------------------------------------------------------------
LEMMA Places ==
  /\ NUM_SMS \in Nat \ {0} /\ 0 \in SM
  /\ IsFiniteSet(SM) /\ Cardinality(SM) = NUM_SMS
  /\ \A s \in SM : /\ <<s, 0>> \in Warp /\ <<s, 0>> \in WarpsOf(s)
                   /\ \A t \in SM : <<t, 0>> \in WarpsOf(s) <=> s = t
                   /\ \A t \in SM : \A w \in WarpsOf(t) : w \in WarpsOf(s) <=> s = t
                   /\ WarpsOf(s) \subseteq Warp
  /\ \A w \in Warp : w[1] \in SM /\ w \in WarpsOf(w[1])
<1>1. NUM_SMS \in Nat \ {0} /\ 0 \in SM /\ 0 \in 0 .. NUM_WARPS - 1
  BY SizeAssumption DEF SM
<1>2. IsFiniteSet(SM) /\ Cardinality(SM) = NUM_SMS
  <2>1. /\ IsFiniteSet(0 .. NUM_SMS - 1)
        /\ Cardinality(0 .. NUM_SMS - 1) = IF 0 > NUM_SMS - 1 THEN 0 ELSE (NUM_SMS - 1) - 0 + 1
    BY SizeAssumption, FS_Interval
  <2>. QED BY <2>1, SizeAssumption DEF SM
<1>3. \A s \in SM : <<s, 0>> \in Warp
  BY <1>1 DEF Warp
<1>4. \A w \in Warp : w[1] \in SM
  BY DEF Warp
<1>. QED BY <1>1, <1>2, <1>3, <1>4 DEF WarpsOf

LEMMA Multiples ==
  /\ \A n \in Int : n * NUM_SMS \in Int /\ (n - 1) * NUM_SMS + NUM_SMS = n * NUM_SMS
  /\ \A n \in Int, m \in Nat : m < NUM_SMS => Goal((n - 1) * NUM_SMS + m) = n * NUM_SMS
<1>1. NUM_SMS \in Nat /\ NUM_SMS > 0
  BY SizeAssumption
<1>2. \A n \in Int : n * NUM_SMS \in Int /\ (n - 1) * NUM_SMS + NUM_SMS = n * NUM_SMS
  BY <1>1
<1>3. ASSUME NEW n \in Int, NEW m \in Nat, m < NUM_SMS
      PROVE  Goal((n - 1) * NUM_SMS + m) = n * NUM_SMS
  <2>. DEFINE c == (n - 1) * NUM_SMS + m
              q == c \div NUM_SMS
  <2>1. c \in Int /\ q \in Int
    BY <1>1
  <2>2. q * NUM_SMS <= c /\ c < q * NUM_SMS + NUM_SMS
    <3>. HIDE DEF c
    <3>. QED BY <1>1, <2>1
  <2>3. q = n - 1
    <3>. HIDE DEF q
    <3>1. CASE q < n - 1
      <4>1. (q + 1) * NUM_SMS <= (n - 1) * NUM_SMS
        BY <1>1, <2>1, <3>1
      <4>2. (q + 1) * NUM_SMS = q * NUM_SMS + NUM_SMS
        BY <1>1, <2>1
      <4>. QED BY <1>1, <2>1, <2>2, <4>1, <4>2
    <3>2. CASE q > n - 1
      <4>1. n * NUM_SMS <= q * NUM_SMS
        BY <1>1, <2>1, <3>2
      <4>. QED BY <1>1, <1>2, <1>3, <2>1, <2>2, <4>1
    <3>. QED BY <2>1, <3>1, <3>2
  <2>4. Goal(c) = (q + 1) * NUM_SMS
    BY DEF Goal
  <2>. QED BY <1>1, <2>3, <2>4
<1>. QED BY <1>2, <1>3

LEMMA ThroughFacts ==
  \A r, b : /\ IsFiniteSet(Through(r, b)) /\ Through(r, b) \subseteq SM
            /\ Cardinality(Through(r, b)) \in Nat
            /\ Cardinality(Through(r, b)) <= NUM_SMS
            /\ Cardinality(Through(r, b)) = NUM_SMS => Through(r, b) = SM
<1>1. \A r, b : Through(r, b) \in SUBSET SM
  BY DEF Through
<1>. QED BY <1>1, Places, FS_Subset, FS_CardinalityType

LEMMA LeadPlace ==
  ASSUME CombineTypes, NEW r \in Rank
  PROVE  \A s \in SM : Lead(r, s) \in CombinePlace
<1>1. place[r] \in [Warp -> CombinePlace]
  BY DEF CombineTypes
<1>2. \A s \in SM : <<s, 0>> \in Warp
  BY Places
<1>. QED BY <1>1, <1>2 DEF Lead

----------------------------------------------------------------------------
(* A step of one SM of one rank.                                             *)
OtherSms(r, s) ==
  \A t \in SM : t # s => /\ Lead(r, t)' = Lead(r, t)
                         /\ \A w \in WarpsOf(t) : place'[r][w] = place[r][w]

LEMMA SmMoved ==
  ASSUME CombineTypes, NEW r \in Rank, NEW s \in SM, NEW ws \in SUBSET WarpsOf(s), NEW p,
         Move(r, ws, p)
  PROVE  /\ \A q \in Rank : q # r => place'[q] = place[q]
         /\ OtherSms(r, s)
         /\ \A w \in WarpsOf(s) : place'[r][w] = IF w \in ws THEN p ELSE place[r][w]
         /\ Lead(r, s)' = IF <<s, 0>> \in ws THEN p ELSE Lead(r, s)
<1>1. /\ \A q \in Rank : q # r => place'[q] = place[q]
      /\ \A w \in Warp : place'[r][w] = IF w \in ws THEN p ELSE place[r][w]
  BY DEF Move, CombineTypes
<1>. QED BY <1>1, Places DEF Lead, OtherSms

LEMMA WholeSmMoved ==
  ASSUME CombineTypes, NEW r \in Rank, NEW s \in SM, NEW p, Move(r, WarpsOf(s), p)
  PROVE  /\ \A q \in Rank : q # r => place'[q] = place[q]
         /\ OtherSms(r, s) /\ Lead(r, s)' = p
         /\ \A w \in WarpsOf(s) : place'[r][w] = p
<1>. DEFINE ws == WarpsOf(s)
<1>1. ws \in SUBSET WarpsOf(s) /\ Move(r, ws, p) /\ <<s, 0>> \in ws
  BY Places
<1>. HIDE DEF ws
<1>2. /\ \A q \in Rank : q # r => place'[q] = place[q]
      /\ OtherSms(r, s)
      /\ \A w \in WarpsOf(s) : place'[r][w] = IF w \in ws THEN p ELSE place[r][w]
      /\ Lead(r, s)' = IF <<s, 0>> \in ws THEN p ELSE Lead(r, s)
  BY <1>1, SmMoved
<1>. QED BY <1>1, <1>2 DEF ws

LEMMA LeadMoved ==
  ASSUME CombineTypes, NEW r \in Rank, NEW s \in SM, NEW p, Move(r, {<<s, 0>>}, p)
  PROVE  /\ \A q \in Rank : q # r => place'[q] = place[q]
         /\ OtherSms(r, s) /\ Lead(r, s)' = p
         /\ \A w \in WarpsOf(s) : w # <<s, 0>> => place'[r][w] = place[r][w]
<1>. DEFINE ws == {<<s, 0>>}
<1>1. ws \in SUBSET WarpsOf(s) /\ Move(r, ws, p)
  BY Places
<1>. HIDE DEF ws
<1>2. /\ \A q \in Rank : q # r => place'[q] = place[q]
      /\ OtherSms(r, s)
      /\ \A w \in WarpsOf(s) : place'[r][w] = IF w \in ws THEN p ELSE place[r][w]
      /\ Lead(r, s)' = IF <<s, 0>> \in ws THEN p ELSE Lead(r, s)
  BY <1>1, SmMoved
<1>. QED BY <1>2 DEF ws

LEMMA WarpsMoved ==
  ASSUME NEW r \in Rank, NEW s \in SM, WarpsInv(r), OtherSms(r, s),
         NEW p, Lead(r, s)' = p, p # "idle", Lead(r, s) # "idle",
         \A w \in WarpsOf(s) : w = <<s, 0>> \/ place'[r][w] \in Beside(p),
         s # 0 => p \notin {"nvlink", "nvlink_exit"}
  PROVE  WarpsInv(r)'
<1>1. ASSUME NEW t \in SM, NEW w \in WarpsOf(t)
      PROVE  w = <<t, 0>> \/ place'[r][w] \in Beside(place'[r][<<t, 0>>])
  <2>1. CASE t = s
    BY <2>1 DEF Lead
  <2>2. CASE t # s
    BY <2>2 DEF OtherSms, WarpsInv, Lead
  <2>. QED BY <2>1, <2>2
<1>2. \A t \in SM : t # 0 => place'[r][<<t, 0>>] \notin {"nvlink", "nvlink_exit"}
  BY DEF OtherSms, WarpsInv, Lead
<1>3. \A t, u \in SM : place'[r][<<t, 0>>] = "idle" => place'[r][<<u, 0>>] = "idle"
  BY DEF OtherSms, WarpsInv, Lead
<1>. QED BY <1>1, <1>2, <1>3 DEF WarpsInv, Lead

LEMMA ThroughMoved ==
  ASSUME NEW r \in Rank, NEW s \in SM, OtherSms(r, s), NEW b,
         Lead(r, s)' \in b => Lead(r, s) \in b
  PROVE  IF (Lead(r, s) \in b <=> Lead(r, s)' \in b)
         THEN Through(r, b)' = Through(r, b)
         ELSE Cardinality(Through(r, b)') = Cardinality(Through(r, b)) + 1
<1>1. CASE Lead(r, s) \in b <=> Lead(r, s)' \in b
  BY <1>1 DEF Through, OtherSms
<1>2. CASE ~(Lead(r, s) \in b <=> Lead(r, s)' \in b)
  <2>1. Through(r, b)' = Through(r, b) \cup {s} /\ s \notin Through(r, b)
    BY <1>2 DEF Through, OtherSms
  <2>. QED BY <1>2, <2>1, ThroughFacts, FS_AddElement
<1>. QED BY <1>1, <1>2

(* Nothing of a rank's own changed.                                          *)
LEMMA RankFramed ==
  ASSUME NEW r \in Rank, CombineRankInv(r),
         place'[r] = place[r], call'[r] = call[r], grid'[r] = grid[r], goal'[r] = goal[r],
         Passed(r)' = Passed(r),
         spot'[r] = "out" \/ spot[r] # "out" \/ Lead(r, 0) \in {"nvlink", "nvlink_exit"}
  PROVE  CombineRankInv(r)'
<1>1. \A s : Lead(r, s)' = Lead(r, s)
  BY DEF Lead
<1>2. WarpsInv(r)'
  BY DEF CombineRankInv, WarpsInv, Lead
<1>3. Through(r, BeforeEntry)' = Through(r, BeforeEntry)
      /\ Through(r, BeforeExit)' = Through(r, BeforeExit)
  BY <1>1 DEF Through
<1>4. GridCounts(r)' /\ GridOrder(r)'
  BY <1>1, <1>3 DEF CombineRankInv, GridCounts, GridOrder
<1>5. CombineCountInv(r)'
  BY <1>1 DEF CombineRankInv, CombineCountInv
<1>. QED BY <1>2, <1>4, <1>5 DEF CombineRankInv

(* The part of the invariant the barrier of the ranks does not see.          *)
LEMMA PassedKept ==
  ASSUME NEW r, counter'[r] = counter[r], spot'[r] = spot[r]
  PROVE  Passed(r)' = Passed(r)
  BY DEF Passed

----------------------------------------------------------------------------
(* The steps of a rank keep its invariant, one by one.                       *)
LEMMA LaunchStep ==
  ASSUME CombineTypes, BarrierInv, NEW r \in Rank, CombineRankInv(r), CombineLaunch(r)
  PROVE  CombineRankInv(r)'
<1>1. /\ \A s \in SM : Lead(r, s) = "idle"
      /\ \A w \in Warp : place'[r][w] = IF w[1] = 0 THEN "nvlink" ELSE "grid"
      /\ call'[r] = call[r] + 1 /\ UNCHANGED <<grid, goal, counter, spot>>
  BY Places DEF CombineLaunch, Opening, Lead, CombineTypes, barrierVars
<1>2. \A s \in SM : Lead(r, s)' = IF s = 0 THEN "nvlink" ELSE "grid"
  BY <1>1, Places DEF Lead
<1>3. WarpsInv(r)'
  <2>1. \A s \in SM : \A w \in WarpsOf(s) : place'[r][w] = IF s = 0 THEN "nvlink" ELSE "grid"
    BY <1>1 DEF WarpsOf
  <2>2. \A s \in SM : place'[r][<<s, 0>>] = IF s = 0 THEN "nvlink" ELSE "grid"
    BY <1>2 DEF Lead
  <2>. QED BY <2>1, <2>2 DEF WarpsInv, Lead, Beside
<1>4. GridCounts(r)'
  <2>1. \A b : b \in {BeforeEntry, BeforeExit} => Through(r, b) = SM /\ Through(r, b)' = {}
    BY <1>1, <1>2 DEF Through, BeforeEntry, BeforeExit
  <2>2. Cardinality({}) = 0
    BY FS_EmptySet
  <2>3. call[r] \in Int /\ call'[r] - 1 = call[r]
    BY <1>1 DEF CombineTypes
  <2>4. grid[r][0] = (call[r] - 1) * NUM_SMS + NUM_SMS /\ grid[r][1] = (call[r] - 1) * NUM_SMS + NUM_SMS
    BY <2>1, Places DEF CombineRankInv, GridCounts
  <2>5. /\ grid'[r][0] = (call'[r] - 1) * NUM_SMS + 0
        /\ grid'[r][1] = (call'[r] - 1) * NUM_SMS + 0
    BY <1>1, <2>3, <2>4, Multiples
  <2>. QED BY <1>2, <2>1, <2>2, <2>5 DEF GridCounts
<1>5. GridOrder(r)'
  BY <1>2 DEF GridOrder, PastEntry
<1>6. CombineCountInv(r)'
  <2>1. Passed(r) = 2 * call[r] /\ spot[r] = "out"
    BY <1>1, Places DEF CombineRankInv, CombineCountInv, CombineTypes
  <2>. QED BY <1>1, <1>2, <2>1, Places, PassedKept DEF CombineCountInv, CombineTypes
<1>. QED BY <1>3, <1>4, <1>5, <1>6 DEF CombineRankInv

LEMMA ReducedStep ==
  ASSUME CombineTypes, NEW r \in Rank, CombineRankInv(r), Reduced(r)
  PROVE  CombineRankInv(r)'
<1>1. /\ \A s \in SM : Lead(r, s) = "done"
      /\ \A w \in Warp : place'[r][w] = "idle"
      /\ UNCHANGED <<call, grid, goal, counter, spot>>
  BY Places DEF Reduced, KernelDone, Move, Lead, CombineTypes, barrierVars
<1>2. \A s \in SM : Lead(r, s)' = "idle"
  BY <1>1, Places DEF Lead
<1>3. WarpsInv(r)'
  <2>1. \A s \in SM : place'[r][<<s, 0>>] = "idle" /\ \A w \in WarpsOf(s) : place'[r][w] = "idle"
    BY <1>1, Places
  <2>. QED BY <2>1 DEF WarpsInv, Lead, Beside
<1>4. GridCounts(r)'
  <2>1. \A b : b \in {BeforeEntry, BeforeExit} => Through(r, b) = SM /\ Through(r, b)' = SM
    BY <1>1, <1>2 DEF Through, BeforeEntry, BeforeExit
  <2>. QED BY <1>1, <1>2, <2>1 DEF CombineRankInv, GridCounts
<1>5. GridOrder(r)'
  BY <1>2 DEF GridOrder, PastEntry
<1>6. CombineCountInv(r)'
  BY <1>1, <1>2, Places, PassedKept DEF CombineRankInv, CombineCountInv
<1>. QED BY <1>3, <1>4, <1>5, <1>6 DEF CombineRankInv

LEMMA EnterStep ==
  ASSUME BarrierInv, NEW r \in Rank, CombineRankInv(r),
         CombineEnter(r) \/ CombineCount(r) \/ \E q \in Rank : CombineTell(r, q)
  PROVE  CombineRankInv(r)'
<1>1. UNCHANGED <<place, call, grid, goal>>
  BY DEF CombineEnter, CombineCount, CombineTell, kernelVars
<1>2. Passed(r)' = Passed(r)
  <2>. counter[r] \in Nat
    BY DEF BarrierInv, Types
  <2>1. CASE CombineEnter(r)
    BY <2>1 DEF CombineEnter, Begin, Passed, BarrierInv, Types
  <2>2. CASE CombineCount(r)
    <3>1. spot[r] = "tell" /\ spot'[r] = "wait" /\ counter'[r] = counter[r] + 1
      BY <2>2 DEF CombineCount, CountUp, BarrierInv, Types
    <3>. QED BY <3>1 DEF Passed
  <2>3. CASE \E q \in Rank : CombineTell(r, q)
    BY <2>3 DEF CombineTell, Tell, Passed
  <2>. QED BY <2>1, <2>2, <2>3
<1>3. spot[r] # "out" \/ Lead(r, 0) \in {"nvlink", "nvlink_exit"}
  BY DEF CombineEnter, CombineCount, CombineTell, CountUp, Tell, Lead
<1>. QED BY <1>1, <1>2, <1>3, RankFramed

LEMMA PassStep ==
  ASSUME CombineTypes, BarrierInv, NEW r \in Rank, CombineRankInv(r), CombinePass(r)
  PROVE  CombineRankInv(r)'
<1>1. /\ spot[r] = "wait" /\ spot'[r] = "out" /\ counter'[r] = counter[r]
      /\ UNCHANGED <<call, grid, goal>>
  BY DEF CombinePass, Pass, BarrierInv, Types
<1>. PICK p \in {"nvlink", "nvlink_exit"} : Lead(r, 0) = p
  BY <1>1 DEF CombineRankInv, CombineCountInv
<1>. DEFINE n == IF p = "nvlink" THEN "grid" ELSE "done"
<1>2. Move(r, WarpsOf(0), n)
  BY DEF CombinePass, Lead
<1>3. OtherSms(r, 0) /\ Lead(r, 0)' = n /\ \A w \in WarpsOf(0) : place'[r][w] = n
  BY <1>2, WholeSmMoved, Places
<1>4. WarpsInv(r)'
  <2>1. n # "idle" /\ \A w \in WarpsOf(0) : place'[r][w] \in Beside(n)
    BY <1>3 DEF Beside
  <2>. QED BY <1>3, <2>1, WarpsMoved, Places DEF CombineRankInv
<1>5. \A b : b \in {BeforeEntry, BeforeExit} => Through(r, b)' = Through(r, b)
  BY <1>3, ThroughMoved, Places DEF BeforeEntry, BeforeExit
<1>6. GridCounts(r)'
  BY <1>1, <1>3, <1>5 DEF CombineRankInv, GridCounts, OtherSms
<1>7. GridOrder(r)'
  BY <1>3 DEF CombineRankInv, GridOrder, OtherSms, PastEntry, BeforeEntry
<1>8. CombineCountInv(r)'
  <2>1. counter[r] \in Nat /\ call[r] \in Nat
    BY DEF BarrierInv, Types, CombineTypes
  <2>. QED BY <1>1, <1>3, <2>1 DEF CombineRankInv, CombineCountInv, Passed
<1>. QED BY <1>4, <1>6, <1>7, <1>8 DEF CombineRankInv

LEMMA ReadStep ==
  ASSUME CombineTypes, NEW r \in Rank, NEW s \in SM, CombineRankInv(r), ReadCount(r, s)
  PROVE  CombineRankInv(r)'
<1>. PICK p \in {"grid", "grid_exit"} : Lead(r, s) = p
  BY DEF ReadCount, Lead
<1>. DEFINE n == IF p = "grid" THEN "arrive" ELSE "arrive_exit"
            b == IF p = "grid" THEN BeforeEntry ELSE BeforeExit
<1>1. /\ UNCHANGED <<call, grid, counter, spot>> /\ Move(r, {<<s, 0>>}, n)
      /\ goal' = [goal EXCEPT ![r][s] = Goal(grid[r][SiteOf(p)])]
  BY DEF ReadCount, Lead, barrierVars
<1>2. /\ OtherSms(r, s) /\ Lead(r, s)' = n
      /\ \A w \in WarpsOf(s) : w # <<s, 0>> => place'[r][w] = place[r][w]
  BY <1>1, LeadMoved
<1>3. WarpsInv(r)'
  <2>1. n # "idle" /\ Beside(n) = Beside(p)
    BY DEF Beside
  <2>. QED BY <1>2, <2>1, WarpsMoved DEF CombineRankInv, WarpsInv
<1>4. \A x : x \in {BeforeEntry, BeforeExit} => Through(r, x)' = Through(r, x)
  BY <1>2, ThroughMoved DEF BeforeEntry, BeforeExit
<1>5. Goal(grid[r][SiteOf(p)]) = call[r] * NUM_SMS
  <2>1. grid[r][SiteOf(p)] = (call[r] - 1) * NUM_SMS + Cardinality(Through(r, b))
    BY DEF CombineRankInv, GridCounts, SiteOf
  <2>2. s \notin Through(r, b)
    BY DEF Through, BeforeEntry, BeforeExit
  <2>3. Cardinality(Through(r, b)) \in Nat /\ Cardinality(Through(r, b)) < NUM_SMS
    BY <2>2, ThroughFacts, Places
  <2>4. call[r] \in Int
    BY DEF CombineTypes
  <2>. QED BY <2>1, <2>3, <2>4, Multiples
<1>6. goal'[r][s] = call[r] * NUM_SMS /\ \A t \in SM : t # s => goal'[r][t] = goal[r][t]
  BY <1>1, <1>5 DEF CombineTypes
<1>7. GridCounts(r)'
  BY <1>1, <1>2, <1>4, <1>6 DEF CombineRankInv, GridCounts, OtherSms
<1>8. GridOrder(r)'
  BY <1>2 DEF CombineRankInv, GridOrder, OtherSms, PastEntry, BeforeEntry
<1>9. CombineCountInv(r)'
  BY <1>1, <1>2, Places, PassedKept DEF CombineRankInv, CombineCountInv, OtherSms
<1>. QED BY <1>3, <1>7, <1>8, <1>9 DEF CombineRankInv

LEMMA ArriveStep ==
  ASSUME CombineTypes, NEW r \in Rank, NEW s \in SM, CombineRankInv(r), Arrive(r, s)
  PROVE  CombineRankInv(r)'
<1>. PICK p \in {"arrive", "arrive_exit"} : Lead(r, s) = p
  BY DEF Arrive, Lead
<1>. DEFINE n == IF p = "arrive" THEN "wait" ELSE "wait_exit"
<1>1. /\ UNCHANGED <<call, goal, counter, spot>> /\ Move(r, {<<s, 0>>}, n)
      /\ grid' = [grid EXCEPT ![r][SiteOf(p)] = @ + 1]
  BY DEF Arrive, Lead, barrierVars
<1>2. /\ OtherSms(r, s) /\ Lead(r, s)' = n
      /\ \A w \in WarpsOf(s) : w # <<s, 0>> => place'[r][w] = place[r][w]
  BY <1>1, LeadMoved
<1>3. WarpsInv(r)'
  <2>1. n # "idle" /\ Beside(n) = Beside(p)
    BY DEF Beside
  <2>. QED BY <1>2, <2>1, WarpsMoved DEF CombineRankInv, WarpsInv
<1>4. /\ grid'[r][0] = IF p = "arrive" THEN grid[r][0] + 1 ELSE grid[r][0]
      /\ grid'[r][1] = IF p = "arrive" THEN grid[r][1] ELSE grid[r][1] + 1
      /\ grid[r][0] \in Int /\ grid[r][1] \in Int
  BY <1>1 DEF SiteOf, Site, CombineTypes
<1>5. /\ p = "arrive" => /\ Cardinality(Through(r, BeforeEntry)') = Cardinality(Through(r, BeforeEntry)) + 1
                         /\ Through(r, BeforeExit)' = Through(r, BeforeExit)
      /\ p # "arrive" => /\ Cardinality(Through(r, BeforeExit)') = Cardinality(Through(r, BeforeExit)) + 1
                         /\ Through(r, BeforeEntry)' = Through(r, BeforeEntry)
  BY <1>2, ThroughMoved DEF BeforeEntry, BeforeExit
<1>6. GridCounts(r)'
  <2>1. /\ call'[r] = call[r] /\ (call[r] - 1) * NUM_SMS \in Int
        /\ Cardinality(Through(r, BeforeEntry)) \in Nat /\ Cardinality(Through(r, BeforeExit)) \in Nat
    BY <1>1, Multiples, ThroughFacts DEF CombineTypes
  <2>2. grid'[r][0] = (call'[r] - 1) * NUM_SMS + Cardinality(Through(r, BeforeEntry)')
    BY <1>4, <1>5, <2>1 DEF CombineRankInv, GridCounts
  <2>3. grid'[r][1] = (call'[r] - 1) * NUM_SMS + Cardinality(Through(r, BeforeExit)')
    BY <1>4, <1>5, <2>1 DEF CombineRankInv, GridCounts
  <2>. QED BY <1>1, <1>2, <2>2, <2>3 DEF CombineRankInv, GridCounts, OtherSms
<1>7. GridOrder(r)'
  BY <1>2 DEF CombineRankInv, GridOrder, OtherSms, PastEntry, BeforeEntry
<1>8. CombineCountInv(r)'
  BY <1>1, <1>2, Places, PassedKept DEF CombineRankInv, CombineCountInv, OtherSms
<1>. QED BY <1>3, <1>6, <1>7, <1>8 DEF CombineRankInv

(* The word reaches the goal only with every SM of the rank through.         *)
LEMMA AllThrough ==
  ASSUME CombineTypes, NEW r \in Rank, NEW s \in SM, CombineRankInv(r),
         \/ Lead(r, s) = "wait" /\ GridPassed(r, s, 0)
         \/ Lead(r, s) = "wait_exit" /\ GridPassed(r, s, 1)
  PROVE  \A t \in SM : Lead(r, t) \notin (IF Lead(r, s) = "wait" THEN BeforeEntry ELSE BeforeExit)
<1>. PICK c \in Int : c = call[r]
  BY DEF CombineTypes
<1>1. /\ c * NUM_SMS \in Int /\ (c - 1) * NUM_SMS \in Int /\ NUM_SMS \in Int
      /\ (c - 1) * NUM_SMS + NUM_SMS = c * NUM_SMS
  BY Multiples, Places
<1>2. goal[r][s] = c * NUM_SMS
  BY DEF CombineRankInv, GridCounts
<1>3. ASSUME NEW b, NEW i \in Site,
             grid[r][i] = (c - 1) * NUM_SMS + Cardinality(Through(r, b)), GridPassed(r, s, i)
      PROVE  \A t \in SM : Lead(r, t) \notin b
  <2>1. (c - 1) * NUM_SMS + Cardinality(Through(r, b)) >= c * NUM_SMS
    BY <1>2, <1>3 DEF GridPassed
  <2>2. Cardinality(Through(r, b)) = NUM_SMS
    BY <1>1, <2>1, ThroughFacts
  <2>3. Through(r, b) = SM
    BY <2>2, ThroughFacts
  <2>. QED BY <2>3 DEF Through
<1>4. 0 \in Site /\ 1 \in Site
  BY DEF Site
<1>. QED BY <1>3, <1>4 DEF CombineRankInv, GridCounts

LEMMA EntryStep ==
  ASSUME CombineTypes, NEW r \in Rank, NEW s \in SM, CombineRankInv(r), EntryDone(r, s)
  PROVE  CombineRankInv(r)'
<1>1. /\ Lead(r, s) = "wait" /\ GridPassed(r, s, 0) /\ Move(r, WarpsOf(s), "send")
      /\ UNCHANGED <<call, grid, goal, counter, spot>>
  BY DEF EntryDone, GridLeave, SiteOf, Lead, barrierVars
<1>2. \A t \in SM : Lead(r, t) \notin BeforeEntry
  BY <1>1, AllThrough
<1>3. OtherSms(r, s) /\ Lead(r, s)' = "send" /\ \A w \in WarpsOf(s) : place'[r][w] = "send"
  BY <1>1, WholeSmMoved
<1>4. WarpsInv(r)'
  <2>1. \A w \in WarpsOf(s) : place'[r][w] \in Beside("send")
    BY <1>3 DEF Beside
  <2>. QED BY <1>1, <1>3, <2>1, WarpsMoved DEF CombineRankInv
<1>5. \A x : x \in {BeforeEntry, BeforeExit} => Through(r, x)' = Through(r, x)
  BY <1>1, <1>3, ThroughMoved DEF BeforeEntry, BeforeExit
<1>6. GridCounts(r)'
  BY <1>1, <1>3, <1>5 DEF CombineRankInv, GridCounts, OtherSms
<1>7. GridOrder(r)'
  BY <1>1, <1>2, <1>3 DEF CombineRankInv, GridOrder, OtherSms, PastEntry, BeforeEntry
<1>8. CombineCountInv(r)'
  BY <1>1, <1>3, Places, PassedKept DEF CombineRankInv, CombineCountInv, OtherSms
<1>. QED BY <1>4, <1>6, <1>7, <1>8 DEF CombineRankInv

LEMMA ExitStep ==
  ASSUME CombineTypes, NEW r \in Rank, NEW s \in SM, CombineRankInv(r), ExitDone(r, s)
  PROVE  CombineRankInv(r)'
<1>. DEFINE n == IF s = 0 THEN "nvlink_exit" ELSE "done"
<1>1. /\ Lead(r, s) = "wait_exit" /\ GridPassed(r, s, 1) /\ Move(r, WarpsOf(s), n)
      /\ UNCHANGED <<call, grid, goal, counter, spot>>
  BY DEF ExitDone, GridLeave, SiteOf, Lead, barrierVars
<1>2. \A t \in SM : Lead(r, t) \in {"wait_exit", "nvlink_exit", "done"}
  <2>1. \A t \in SM : Lead(r, t) \notin BeforeExit /\ Lead(r, t) # "idle"
    BY <1>1, AllThrough DEF CombineRankInv, WarpsInv
  <2>2. \A t \in SM : Lead(r, t) \in CombinePlace
    BY LeadPlace
  <2>. QED BY <2>1, <2>2 DEF CombinePlace, BeforeExit, BeforeEntry
<1>3. OtherSms(r, s) /\ Lead(r, s)' = n /\ \A w \in WarpsOf(s) : place'[r][w] = n
  BY <1>1, WholeSmMoved
<1>4. WarpsInv(r)'
  <2>1. n # "idle" /\ \A w \in WarpsOf(s) : place'[r][w] \in Beside(n)
    BY <1>3 DEF Beside
  <2>2. s # 0 => n \notin {"nvlink", "nvlink_exit"}
    OBVIOUS
  <2>. QED BY <1>1, <1>3, <2>1, <2>2, WarpsMoved DEF CombineRankInv
<1>5. \A x : x \in {BeforeEntry, BeforeExit} => Through(r, x)' = Through(r, x)
  BY <1>1, <1>3, ThroughMoved DEF BeforeEntry, BeforeExit
<1>6. GridCounts(r)'
  BY <1>1, <1>3, <1>5 DEF CombineRankInv, GridCounts, OtherSms
<1>7. GridOrder(r)'
  BY <1>1, <1>2, <1>3 DEF CombineRankInv, GridOrder, OtherSms, PastEntry, BeforeEntry
<1>8. CombineCountInv(r)'
  BY <1>1, <1>3, Places, PassedKept DEF CombineRankInv, CombineCountInv, OtherSms
<1>. QED BY <1>4, <1>6, <1>7, <1>8 DEF CombineRankInv

LEMMA StoreStep ==
  ASSUME CombineTypes, NEW r \in Rank, NEW w \in Warp, CombineRankInv(r), Store(r, w)
  PROVE  CombineRankInv(r)'
<1>. PICK s \in SM : s = w[1] /\ w \in WarpsOf(s)
  BY Places
<1>1. /\ place[r][w] = "send" /\ Move(r, {w}, "grid_exit")
      /\ UNCHANGED <<call, grid, goal, counter, spot>>
  BY DEF Store, barrierVars
<1>2. /\ OtherSms(r, s)
      /\ \A v \in WarpsOf(s) : place'[r][v] = IF v = w THEN "grid_exit" ELSE place[r][v]
      /\ Lead(r, s)' = IF w = <<s, 0>> THEN "grid_exit" ELSE Lead(r, s)
  <2>. DEFINE ws == {w}
  <2>1. ws \in SUBSET WarpsOf(s) /\ Move(r, ws, "grid_exit")
    BY <1>1
  <2>. HIDE DEF ws
  <2>2. /\ OtherSms(r, s)
        /\ \A v \in WarpsOf(s) : place'[r][v] = IF v \in ws THEN "grid_exit" ELSE place[r][v]
        /\ Lead(r, s)' = IF <<s, 0>> \in ws THEN "grid_exit" ELSE Lead(r, s)
    BY <2>1, SmMoved
  <2>. QED BY <2>2 DEF ws
<1>3. Lead(r, s) \in {"send", "grid_exit", "arrive_exit", "wait_exit"}
      /\ (w = <<s, 0>> => Lead(r, s) = "send")
  <2>1. Lead(r, s) \in CombinePlace
    BY LeadPlace
  <2>2. CASE w = <<s, 0>>
    BY <1>1, <2>2 DEF Lead
  <2>3. CASE w # <<s, 0>>
    <3>1. "send" \in Beside(Lead(r, s))
      BY <1>1, <2>3 DEF CombineRankInv, WarpsInv
    <3>. QED BY <2>1, <2>3, <3>1 DEF Beside, CombinePlace
  <2>. QED BY <2>2, <2>3
<1>. PICK n \in {"send", "grid_exit", "arrive_exit", "wait_exit"} :
       n = IF w = <<s, 0>> THEN "grid_exit" ELSE Lead(r, s)
  BY <1>3
<1>4. WarpsInv(r)'
  <2>1. \A v \in WarpsOf(s) : v = <<s, 0>> \/ place[r][v] \in {"send", "grid_exit"}
    BY <1>3 DEF CombineRankInv, WarpsInv, Beside
  <2>2. \A v \in WarpsOf(s) : v = <<s, 0>> \/ place'[r][v] \in Beside(n)
    BY <1>2, <2>1 DEF Beside
  <2>. QED BY <1>2, <1>3, <2>2, WarpsMoved DEF CombineRankInv
<1>5. \A x : x \in {BeforeEntry, BeforeExit} => Through(r, x)' = Through(r, x)
  BY <1>2, <1>3, ThroughMoved DEF BeforeEntry, BeforeExit
<1>6. GridCounts(r)'
  BY <1>1, <1>2, <1>3, <1>5 DEF CombineRankInv, GridCounts, OtherSms
<1>7. GridOrder(r)'
  BY <1>1, <1>2, <1>3 DEF CombineRankInv, GridOrder, OtherSms, PastEntry, BeforeEntry
<1>8. CombineCountInv(r)'
  BY <1>1, <1>2, <1>3, Places, PassedKept DEF CombineRankInv, CombineCountInv, OtherSms
<1>. QED BY <1>4, <1>6, <1>7, <1>8 DEF CombineRankInv

----------------------------------------------------------------------------
StepOf(r) == CombineRank(r) \/ (\E s \in SM : SmStep(r, s)) \/ (\E w \in Warp : Store(r, w))
BarrierStepOf(r) ==
  CombineEnter(r) \/ CombineCount(r) \/ CombinePass(r) \/ \E q \in Rank : CombineTell(r, q)

LEMMA Actions ==
  ASSUME NEW r \in Rank, StepOf(r)
  PROVE  \/ CombineLaunch(r)
         \/ Reduced(r)
         \/ BarrierStepOf(r)
         \/ \E s \in SM : ReadCount(r, s)
         \/ \E s \in SM : Arrive(r, s)
         \/ \E s \in SM : EntryDone(r, s)
         \/ \E s \in SM : ExitDone(r, s)
         \/ \E w \in Warp : Store(r, w)
BY Zenon DEF StepOf, CombineRank, SmStep, BarrierStepOf

(* The combine takes steps of the barrier of the ranks and no others.        *)
LEMMA BarrierSteps ==
  ASSUME NEW r \in Rank, StepOf(r)
  PROVE  RankStep(r) \/ UNCHANGED barrierVars
<1>1. BarrierStepOf(r) => RankStep(r)
  BY Zenon DEF BarrierStepOf, CombineEnter, CombineCount, CombinePass, CombineTell, RankStep
<1>2. CombineLaunch(r) \/ Reduced(r) => UNCHANGED barrierVars
  BY DEF CombineLaunch, Reduced
<1>3. \A s \in SM : ReadCount(r, s) \/ Arrive(r, s) => UNCHANGED barrierVars
  BY DEF ReadCount, Arrive
<1>4. \A s \in SM : EntryDone(r, s) \/ ExitDone(r, s) => UNCHANGED barrierVars
  BY DEF EntryDone, ExitDone, GridLeave
<1>5. \A w \in Warp : Store(r, w) => UNCHANGED barrierVars
  BY DEF Store
<1>. QED BY <1>1, <1>2, <1>3, <1>4, <1>5, Actions, Zenon

(* A step of one rank leaves the others alone, but for their signal words    *)
(* and the slots it stores into.                                            *)
LEMMA OthersFramed ==
  ASSUME CombineTypes, BarrierInv, NEW r \in Rank, StepOf(r), NEW q \in Rank, q # r
  PROVE  /\ place'[q] = place[q] /\ call'[q] = call[q] /\ grid'[q] = grid[q] /\ goal'[q] = goal[q]
         /\ counter'[q] = counter[q] /\ spot'[q] = spot[q]
<1>1. counter'[q] = counter[q] /\ spot'[q] = spot[q]
  <2>1. RankStep(r) \/ UNCHANGED barrierVars
    BY BarrierSteps
  <2>. QED BY <2>1 DEF RankStep, Begin, CountUp, Pass, Tell, barrierVars, BarrierInv, Types
<1>2. ASSUME NEW ws, NEW p, Move(r, ws, p) PROVE place'[q] = place[q]
  BY <1>2 DEF Move, CombineTypes
<1>3. CombineLaunch(r) \/ Reduced(r) => UNCHANGED <<grid, goal>> /\ place'[q] = place[q] /\ call'[q] = call[q]
  BY <1>2 DEF CombineLaunch, Reduced, CombineTypes
<1>4. BarrierStepOf(r) => UNCHANGED <<call, grid, goal>> /\ place'[q] = place[q]
  <2>1. CombinePass(r) => UNCHANGED <<call, grid, goal>> /\ place'[q] = place[q]
    BY <1>2 DEF CombinePass
  <2>. QED BY <2>1 DEF BarrierStepOf, CombineEnter, CombineCount, CombineTell, kernelVars
<1>5. \A s \in SM : ReadCount(r, s) =>
        UNCHANGED <<call, grid>> /\ place'[q] = place[q] /\ goal'[q] = goal[q]
  BY <1>2 DEF ReadCount, CombineTypes
<1>6. \A s \in SM : Arrive(r, s) =>
        UNCHANGED <<call, goal>> /\ place'[q] = place[q] /\ grid'[q] = grid[q]
  BY <1>2 DEF Arrive, CombineTypes
<1>7. \A s \in SM : EntryDone(r, s) \/ ExitDone(r, s) =>
        UNCHANGED <<call, grid, goal>> /\ place'[q] = place[q]
  BY <1>2 DEF EntryDone, ExitDone, GridLeave
<1>8. \A w \in Warp : Store(r, w) => UNCHANGED <<call, grid, goal>> /\ place'[q] = place[q]
  BY <1>2 DEF Store
<1>. QED BY <1>1, <1>3, <1>4, <1>5, <1>6, <1>7, <1>8, Actions

LEMMA RanksKept ==
  ASSUME CombineInv, NEW r \in Rank, StepOf(r)
  PROVE  \A q \in Rank : CombineRankInv(q)'
<1>1. CombineRankInv(r) /\ CombineTypes /\ BarrierInv
  BY DEF CombineInv
<1>2. CombineRankInv(r)'
  BY <1>1, Actions, LaunchStep, ReducedStep, EnterStep, PassStep, ReadStep, ArriveStep,
     EntryStep, ExitStep, StoreStep DEF BarrierStepOf
<1>3. ASSUME NEW q \in Rank, q # r PROVE CombineRankInv(q)'
  <2>1. /\ place'[q] = place[q] /\ call'[q] = call[q] /\ grid'[q] = grid[q] /\ goal'[q] = goal[q]
        /\ counter'[q] = counter[q] /\ spot'[q] = spot[q]
    BY <1>1, <1>3, OthersFramed
  <2>2. CombineRankInv(q) /\ Passed(q)' = Passed(q)
    BY <2>1, PassedKept DEF CombineInv
  <2>. QED BY <2>1, <2>2, RankFramed
<1>. QED BY <1>2, <1>3

----------------------------------------------------------------------------
(* Types, step by step.                                                      *)
LEMMA MoveTyped ==
  ASSUME CombineTypes, NEW r \in Rank, NEW ws, NEW p \in CombinePlace, Move(r, ws, p)
  PROVE  place' \in [Rank -> [Warp -> CombinePlace]]
<1>. DEFINE f == [w \in Warp |-> IF w \in ws THEN p ELSE place[r][w]]
<1>1. f \in [Warp -> CombinePlace]
  BY DEF CombineTypes
<1>2. place' = [place EXCEPT ![r] = f]
  BY DEF Move
<1>. HIDE DEF f
<1>. QED BY <1>1, <1>2 DEF CombineTypes

LEMMA TypesKept ==
  ASSUME CombineTypes, BarrierInv, NEW r \in Rank, StepOf(r)
  PROVE  CombineTypes'
<1>0. \A p \in {"idle", "grid", "arrive", "wait", "send", "grid_exit", "arrive_exit",
               "wait_exit", "nvlink_exit", "done"} : p \in CombinePlace
  BY DEF CombinePlace
<1>1. CASE CombineLaunch(r)
  <2>. DEFINE f == Opening
  <2>1. f \in [Warp -> CombinePlace]
    BY DEF Opening, CombinePlace
  <2>2. place' = [place EXCEPT ![r] = f] /\ call' = [call EXCEPT ![r] = @ + 1]
        /\ UNCHANGED <<grid, goal, slot>>
    BY <1>1 DEF CombineLaunch
  <2>. HIDE DEF f
  <2>3. place' \in [Rank -> [Warp -> CombinePlace]]
    BY <2>1, <2>2 DEF CombineTypes
  <2>4. call' \in [Rank -> Nat]
    BY <2>2 DEF CombineTypes
  <2>. QED BY <2>2, <2>3, <2>4 DEF CombineTypes
<1>2. CASE Reduced(r)
  <2>1. Move(r, Warp, "idle") /\ UNCHANGED <<call, grid, goal, slot>>
    BY <1>2 DEF Reduced
  <2>. QED BY <1>0, <2>1, MoveTyped DEF CombineTypes
<1>3. CASE BarrierStepOf(r)
  <2>1. CASE CombinePass(r)
    <3>1. Move(r, WarpsOf(0), IF place[r][<<0, 0>>] = "nvlink" THEN "grid" ELSE "done")
          /\ UNCHANGED <<call, grid, goal, slot>>
      BY <2>1 DEF CombinePass
    <3>. QED BY <1>0, <3>1, MoveTyped DEF CombineTypes
  <2>2. CASE ~CombinePass(r)
    <3>1. UNCHANGED kernelVars
      BY <1>3, <2>2 DEF BarrierStepOf, CombineEnter, CombineCount, CombineTell
    <3>. QED BY <3>1 DEF kernelVars, CombineTypes
  <2>. QED BY <2>1, <2>2
<1>4. ASSUME NEW s \in SM, ReadCount(r, s) PROVE CombineTypes'
  <2>. DEFINE g == Goal(grid[r][SiteOf(place[r][<<s, 0>>])])
  <2>1. /\ Move(r, {<<s, 0>>}, IF place[r][<<s, 0>>] = "grid" THEN "arrive" ELSE "arrive_exit")
        /\ goal' = [goal EXCEPT ![r][s] = g] /\ UNCHANGED <<call, grid, slot>>
    BY <1>4 DEF ReadCount
  <2>2. g \in Int
    <3>1. SiteOf(place[r][<<s, 0>>]) \in Site
      BY DEF SiteOf, Site
    <3>2. grid[r][SiteOf(place[r][<<s, 0>>])] \in Int
      BY <3>1 DEF CombineTypes
    <3>. QED BY <3>2, Places DEF Goal
  <2>3. place' \in [Rank -> [Warp -> CombinePlace]]
    BY <1>0, <2>1, MoveTyped
  <2>. HIDE DEF g
  <2>. QED BY <2>1, <2>2, <2>3 DEF CombineTypes
<1>5. ASSUME NEW s \in SM, Arrive(r, s) PROVE CombineTypes'
  <2>. DEFINE i == SiteOf(place[r][<<s, 0>>])
  <2>1. /\ Move(r, {<<s, 0>>}, IF place[r][<<s, 0>>] = "arrive" THEN "wait" ELSE "wait_exit")
        /\ grid' = [grid EXCEPT ![r][i] = @ + 1] /\ UNCHANGED <<call, goal, slot>>
    BY <1>5 DEF Arrive
  <2>2. i \in Site
    BY DEF SiteOf, Site
  <2>3. place' \in [Rank -> [Warp -> CombinePlace]]
    BY <1>0, <2>1, MoveTyped
  <2>. HIDE DEF i
  <2>4. grid' \in [Rank -> [Site -> Int]]
    <3>1. grid[r][i] + 1 \in Int
      BY <2>2 DEF CombineTypes
    <3>2. grid' = [grid EXCEPT ![r] = [grid[r] EXCEPT ![i] = grid[r][i] + 1]]
      BY <2>1
    <3>3. [grid[r] EXCEPT ![i] = grid[r][i] + 1] \in [Site -> Int]
      BY <3>1, <2>2 DEF CombineTypes
    <3>. QED BY <3>2, <3>3 DEF CombineTypes
  <2>. QED BY <2>1, <2>3, <2>4 DEF CombineTypes
<1>6. ASSUME NEW s \in SM, EntryDone(r, s) \/ ExitDone(r, s) PROVE CombineTypes'
  <2>1. UNCHANGED <<call, grid, goal, slot>>
    BY <1>6 DEF EntryDone, ExitDone, GridLeave
  <2>2. Move(r, WarpsOf(s), "send") \/ Move(r, WarpsOf(s), IF s = 0 THEN "nvlink_exit" ELSE "done")
    BY <1>6 DEF EntryDone, ExitDone, GridLeave
  <2>3. place' \in [Rank -> [Warp -> CombinePlace]]
    BY <1>0, <2>2, MoveTyped
  <2>. QED BY <2>1, <2>3 DEF CombineTypes
<1>7. ASSUME NEW w \in Warp, Store(r, w) PROVE CombineTypes'
  <2>. DEFINE new == [q \in Rank |-> [slot[q] EXCEPT ![<<r, w>>] = call[r]]]
  <2>1. Move(r, {w}, "grid_exit") /\ slot' = new /\ UNCHANGED <<call, grid, goal>>
    BY <1>7 DEF Store
  <2>2. new \in [Rank -> [Rank \X Warp -> Int]]
    BY DEF CombineTypes
  <2>3. place' \in [Rank -> [Warp -> CombinePlace]]
    BY <1>0, <2>1, MoveTyped
  <2>. HIDE DEF new
  <2>. QED BY <2>1, <2>2, <2>3 DEF CombineTypes
<1>. QED BY <1>1, <1>2, <1>3, <1>4, <1>5, <1>6, <1>7, Actions

----------------------------------------------------------------------------
(* The slots, step by step: only Launch and Store change what one should     *)
(* hold, Launch by a call and Store by what it puts there.                   *)
LEMMA SlotsFramed ==
  ASSUME CombineSlotInv, slot' = slot, call' = call,
         \A q \in Rank : \A w \in Warp : place'[q][w] \in BeforeStore <=> place[q][w] \in BeforeStore
  PROVE  CombineSlotInv'
<1>. SUFFICES ASSUME NEW x \in Rank, NEW q \in Rank, NEW v \in Warp
              PROVE  slot'[x][<<q, v>>] =
                       IF place'[q][v] \in BeforeStore THEN call'[q] - 1 ELSE call'[q]
  BY DEF CombineSlotInv
<1>. slot[x][<<q, v>>] = IF place[q][v] \in BeforeStore THEN call[q] - 1 ELSE call[q]
  BY DEF CombineSlotInv
<1>. QED OBVIOUS

LEMMA SmSlots ==
  ASSUME CombineSlotInv, slot' = slot, call' = call, NEW r \in Rank, NEW s \in SM,
         \A q \in Rank : q # r => place'[q] = place[q], OtherSms(r, s),
         \A w \in WarpsOf(s) : place'[r][w] \in BeforeStore <=> place[r][w] \in BeforeStore
  PROVE  CombineSlotInv'
<1>1. ASSUME NEW q \in Rank, NEW w \in Warp
      PROVE  place'[q][w] \in BeforeStore <=> place[q][w] \in BeforeStore
  <2>1. CASE q # r
    BY <2>1
  <2>2. CASE q = r /\ w \notin WarpsOf(s)
    <3>1. w[1] \in SM /\ w \in WarpsOf(w[1]) /\ w[1] # s
      BY <2>2, Places
    <3>2. place'[r][w] = place[r][w]
      BY <3>1 DEF OtherSms
    <3>. QED BY <2>2, <3>2
  <2>3. CASE q = r /\ w \in WarpsOf(s)
    BY <2>3
  <2>. QED BY <2>1, <2>2, <2>3
<1>. QED BY <1>1, SlotsFramed

LEMMA SlotsKept ==
  ASSUME CombineInv, NEW r \in Rank, StepOf(r)
  PROVE  CombineSlotInv'
<1>0. CombineTypes /\ BarrierInv /\ CombineSlotInv /\ CombineRankInv(r)
  BY DEF CombineInv
<1>1. CASE CombineLaunch(r)
  <2>1. /\ \A w \in Warp : place[r][w] = "idle" /\ place'[r][w] \in BeforeStore
        /\ \A q \in Rank : q # r => place'[q] = place[q] /\ call'[q] = call[q]
        /\ call'[r] = call[r] + 1 /\ slot' = slot /\ call[r] \in Nat
    BY <1>0, <1>1 DEF CombineLaunch, Opening, CombineTypes, BeforeStore
  <2>2. "idle" \notin BeforeStore
    BY DEF BeforeStore
  <2>. SUFFICES ASSUME NEW x \in Rank, NEW q \in Rank, NEW v \in Warp
                PROVE  slot'[x][<<q, v>>] =
                         IF place'[q][v] \in BeforeStore THEN call'[q] - 1 ELSE call'[q]
    BY DEF CombineSlotInv
  <2>. slot[x][<<q, v>>] = IF place[q][v] \in BeforeStore THEN call[q] - 1 ELSE call[q]
    BY <1>0 DEF CombineSlotInv
  <2>. QED BY <2>1, <2>2
<1>2. CASE Reduced(r)
  <2>1. /\ \A w \in Warp : place[r][w] = "done" /\ place'[r][w] = "idle"
        /\ \A q \in Rank : q # r => place'[q] = place[q]
        /\ slot' = slot /\ call' = call
    BY <1>0, <1>2 DEF Reduced, KernelDone, Move, CombineTypes
  <2>2. "idle" \notin BeforeStore /\ "done" \notin BeforeStore
    BY DEF BeforeStore
  <2>3. \A q \in Rank : \A w \in Warp : place'[q][w] \in BeforeStore <=> place[q][w] \in BeforeStore
    BY <2>1, <2>2
  <2>. QED BY <1>0, <2>1, <2>3, SlotsFramed
<1>3. CASE BarrierStepOf(r)
  <2>1. CASE CombinePass(r)
    <3>1. Move(r, WarpsOf(0), IF Lead(r, 0) = "nvlink" THEN "grid" ELSE "done")
          /\ slot' = slot /\ call' = call /\ spot[r] # "out"
      BY <2>1 DEF CombinePass, Pass, Lead
    <3>2. Lead(r, 0) \in {"nvlink", "nvlink_exit"}
      BY <1>0, <3>1 DEF CombineRankInv, CombineCountInv
    <3>3. \A w \in WarpsOf(0) : place[r][w] = Lead(r, 0)
      BY <1>0, <3>2, Places DEF CombineRankInv, WarpsInv, Beside, Lead
    <3>4. /\ \A q \in Rank : q # r => place'[q] = place[q]
          /\ OtherSms(r, 0)
          /\ \A w \in WarpsOf(0) : place'[r][w] = IF Lead(r, 0) = "nvlink" THEN "grid" ELSE "done"
      BY <1>0, <3>1, Places, WholeSmMoved
    <3>5. \A w \in WarpsOf(0) : place'[r][w] \in BeforeStore <=> place[r][w] \in BeforeStore
      BY <3>2, <3>3, <3>4 DEF BeforeStore
    <3>. QED BY <1>0, <3>1, <3>4, <3>5, Places, SmSlots
  <2>2. CASE ~CombinePass(r)
    <3>1. UNCHANGED kernelVars
      BY <1>3, <2>2 DEF BarrierStepOf, CombineEnter, CombineCount, CombineTell
    <3>. QED BY <1>0, <3>1, SlotsFramed DEF kernelVars
  <2>. QED BY <2>1, <2>2
<1>4. ASSUME NEW s \in SM, ReadCount(r, s) \/ Arrive(r, s) PROVE CombineSlotInv'
  <2>. PICK p \in {"grid", "grid_exit", "arrive", "arrive_exit"} : Lead(r, s) = p
    BY <1>4 DEF ReadCount, Arrive, Lead
  <2>. DEFINE n == IF p = "grid" THEN "arrive" ELSE IF p = "grid_exit" THEN "arrive_exit"
                   ELSE IF p = "arrive" THEN "wait" ELSE "wait_exit"
  <2>1. Move(r, {<<s, 0>>}, n) /\ slot' = slot /\ call' = call
    BY <1>4 DEF ReadCount, Arrive, Lead
  <2>2. n \in BeforeStore <=> p \in BeforeStore
    BY DEF BeforeStore
  <2>3. /\ \A q \in Rank : q # r => place'[q] = place[q]
        /\ OtherSms(r, s) /\ Lead(r, s)' = n
        /\ \A w \in WarpsOf(s) : w # <<s, 0>> => place'[r][w] = place[r][w]
    <3>. HIDE DEF n
    <3>. QED BY <1>0, <2>1, LeadMoved
  <2>4. \A w \in WarpsOf(s) : place'[r][w] \in BeforeStore <=> place[r][w] \in BeforeStore
    BY <2>2, <2>3 DEF Lead
  <2>. QED BY <1>0, <2>1, <2>3, <2>4, SmSlots
<1>5. ASSUME NEW s \in SM, EntryDone(r, s) PROVE CombineSlotInv'
  <2>1. /\ Move(r, WarpsOf(s), "send") /\ slot' = slot /\ call' = call
        /\ \A w \in WarpsOf(s) : place[r][w] \in {"grid", "wait"}
    BY <1>5 DEF EntryDone, GridLeave
  <2>2. /\ \A q \in Rank : q # r => place'[q] = place[q]
        /\ OtherSms(r, s) /\ \A w \in WarpsOf(s) : place'[r][w] = "send"
    BY <1>0, <2>1, WholeSmMoved
  <2>3. \A w \in WarpsOf(s) : place'[r][w] \in BeforeStore <=> place[r][w] \in BeforeStore
    BY <2>1, <2>2 DEF BeforeStore
  <2>. QED BY <1>0, <2>1, <2>2, <2>3, SmSlots
<1>6. ASSUME NEW s \in SM, ExitDone(r, s) PROVE CombineSlotInv'
  <2>. DEFINE n == IF s = 0 THEN "nvlink_exit" ELSE "done"
  <2>1. /\ Move(r, WarpsOf(s), n) /\ slot' = slot /\ call' = call
        /\ \A w \in WarpsOf(s) : place[r][w] \in {"grid_exit", "wait_exit"}
    BY <1>6 DEF ExitDone, GridLeave
  <2>2. n \notin BeforeStore
    BY DEF BeforeStore
  <2>. HIDE DEF n
  <2>3. /\ \A q \in Rank : q # r => place'[q] = place[q]
        /\ OtherSms(r, s) /\ \A w \in WarpsOf(s) : place'[r][w] = n
    BY <1>0, <2>1, WholeSmMoved
  <2>4. \A w \in WarpsOf(s) : place'[r][w] \in BeforeStore <=> place[r][w] \in BeforeStore
    BY <2>1, <2>2, <2>3 DEF BeforeStore
  <2>. QED BY <1>0, <2>1, <2>3, <2>4, SmSlots
<1>7. ASSUME NEW w \in Warp, Store(r, w) PROVE CombineSlotInv'
  <2>1. /\ call' = call
        /\ \A x, q \in Rank : \A v \in Warp :
             slot'[x][<<q, v>>] = IF q = r /\ v = w THEN call[r] ELSE slot[x][<<q, v>>]
        /\ \A q \in Rank : \A v \in Warp :
             place'[q][v] = IF q = r /\ v = w THEN "grid_exit" ELSE place[q][v]
    BY <1>0, <1>7 DEF Store, Move, CombineTypes
  <2>2. "grid_exit" \notin BeforeStore
    BY DEF BeforeStore
  <2>. SUFFICES ASSUME NEW x \in Rank, NEW q \in Rank, NEW v \in Warp
                PROVE  slot'[x][<<q, v>>] =
                         IF place'[q][v] \in BeforeStore THEN call'[q] - 1 ELSE call'[q]
    BY DEF CombineSlotInv
  <2>. slot[x][<<q, v>>] = IF place[q][v] \in BeforeStore THEN call[q] - 1 ELSE call[q]
    BY <1>0 DEF CombineSlotInv
  <2>. QED BY <2>1, <2>2
<1>. QED BY <1>1, <1>2, <1>3, <1>4, <1>5, <1>6, <1>7, Actions

----------------------------------------------------------------------------
LEMMA CombineStart == CombineInit => CombineInv
<1>. SUFFICES ASSUME CombineInit PROVE CombineInv
  OBVIOUS
<1>1. BarrierInv
  BY InvStart DEF CombineInit
<1>2. CombineTypes /\ CombineSlotInv
  <2>1. "idle" \in CombinePlace /\ "idle" \notin BeforeStore
    BY DEF CombinePlace, BeforeStore
  <2>. QED BY <2>1 DEF CombineInit, CombineTypes, CombineSlotInv
<1>3. ASSUME NEW r \in Rank PROVE CombineRankInv(r)
  <2>1. /\ \A s \in SM : Lead(r, s) = "idle"
        /\ \A s \in SM : \A w \in WarpsOf(s) : place[r][w] = "idle"
    BY Places DEF CombineInit, Lead
  <2>2. WarpsInv(r) /\ GridOrder(r)
    BY <2>1 DEF WarpsInv, GridOrder, Beside, PastEntry
  <2>3. \A b : b \in {BeforeEntry, BeforeExit} => Through(r, b) = SM
    BY <2>1 DEF Through, BeforeEntry, BeforeExit
  <2>4. grid[r][0] = 0 /\ grid[r][1] = 0 /\ call[r] = 0 /\ (0 - 1) * NUM_SMS + NUM_SMS = 0
    BY Places DEF CombineInit, Site
  <2>5. GridCounts(r)
    BY <2>1, <2>3, <2>4, Places DEF GridCounts
  <2>6. CombineCountInv(r)
    <3>1. Passed(r) = 0 /\ spot[r] = "out"
      BY DEF Passed, CombineInit, BarrierInit
    <3>2. call[r] = 0 /\ Lead(r, 0) = "idle"
      BY <2>1, <2>4, Places
    <3>3. (IF Lead(r, 0) = "nvlink" THEN 2
           ELSE IF Lead(r, 0) \in {"done", "idle"} THEN 0 ELSE 1) = 0
      BY <3>2
    <3>4. 2 * call[r] - 0 = 0
      BY <3>2
    <3>. QED BY <3>1, <3>3, <3>4 DEF CombineCountInv
  <2>. QED BY <2>2, <2>5, <2>6 DEF CombineRankInv
<1>. QED BY <1>1, <1>2, <1>3 DEF CombineInv

LEMMA CombineStutter == CombineInv /\ UNCHANGED combineVars => CombineInv'
<1>. SUFFICES ASSUME CombineInv, UNCHANGED combineVars PROVE CombineInv'
  OBVIOUS
<1>1. UNCHANGED barrierVars /\ UNCHANGED kernelVars
  BY DEF combineVars
<1>2. BarrierInv'
  BY <1>1, InvStep DEF CombineInv
<1>3. CombineTypes' /\ CombineSlotInv'
  BY <1>1, SlotsFramed DEF CombineInv, CombineTypes, kernelVars
<1>4. ASSUME NEW r \in Rank PROVE CombineRankInv(r)'
  <2>1. CombineRankInv(r) /\ Passed(r)' = Passed(r)
    BY <1>1, PassedKept DEF CombineInv, barrierVars
  <2>. QED BY <1>1, <2>1, RankFramed DEF barrierVars, kernelVars
<1>. QED BY <1>2, <1>3, <1>4 DEF CombineInv

LEMMA CombineStep == CombineInv /\ [CombineNext]_combineVars => CombineInv'
<1>. SUFFICES ASSUME CombineInv, [CombineNext]_combineVars PROVE CombineInv'
  OBVIOUS
<1>1. CASE UNCHANGED combineVars
  BY <1>1, CombineStutter
<1>2. ASSUME NEW r \in Rank, StepOf(r) PROVE CombineInv'
  <2>1. RankStep(r) \/ UNCHANGED barrierVars
    BY <1>2, BarrierSteps
  <2>2. BarrierInv'
    BY <2>1, InvStep DEF CombineInv, BarrierNext
  <2>3. CombineTypes'
    BY <1>2, TypesKept DEF CombineInv
  <2>. QED BY <1>2, <2>2, <2>3, RanksKept, SlotsKept DEF CombineInv
<1>. QED BY <1>1, <1>2, Zenon DEF CombineNext, CombineStop, StepOf

LEMMA CombineInvariant == CombineSpec => []CombineInv
BY CombineStart, CombineStep, PTL DEF CombineSpec

(* What the combine does to the barrier of the ranks is what a barrier of    *)
(* its own would do (nvlink_barrier in combine.py).                         *)
LEMMA CombineBarriers == CombineSpec => BarrierSpec
<1>1. CombineInit => BarrierInit
  BY DEF CombineInit
<1>2. [CombineNext]_combineVars => [BarrierNext]_barrierVars
  <2>1. UNCHANGED combineVars => UNCHANGED barrierVars
    BY DEF combineVars
  <2>2. ASSUME NEW r \in Rank, StepOf(r) PROVE [BarrierNext]_barrierVars
    BY <2>2, BarrierSteps DEF BarrierNext
  <2>. QED BY <2>1, <2>2, Zenon DEF CombineNext, CombineStop, StepOf
<1>. QED BY <1>1, <1>2, PTL DEF CombineSpec, BarrierSpec

(* A rank counts at most two barriers for a call, and has two behind it, or  *)
(* is at the second, once one of its warps may store.                       *)
LEMMA SentBound ==
  ASSUME CombineInv, NEW r \in Rank, NEW q \in Rank
  PROVE  Sent(r, q) \in Nat /\ Sent(r, q) <= 2 * call[r]
<1>1. Types /\ Spots /\ CombineCountInv(r) /\ call[r] \in Nat
  BY DEF CombineInv, BarrierInv, CombineRankInv, CombineTypes
<1>2. Sent(r, q) \in Nat /\ Passed(r) \in Nat /\ Sent(r, q) <= Passed(r) + 1
  BY <1>1, SentType
<1>3. spot[r] = "out" => Sent(r, q) = Passed(r)
  BY <1>1 DEF Sent, Passed, Types
<1>. QED BY <1>1, <1>2, <1>3 DEF CombineCountInv

LEMMA StoringCall ==
  ASSUME CombineInv, NEW r \in Rank, NEW w \in Warp, place[r][w] \notin BeforeStore
  PROVE  Passed(r) >= 2 * call[r] - 1
<1>. PICK s \in SM : s = w[1] /\ w \in WarpsOf(s)
  BY Places
<1>1. CombineTypes /\ WarpsInv(r) /\ GridOrder(r) /\ CombineCountInv(r) /\ call[r] \in Nat
  BY DEF CombineInv, CombineRankInv, CombineTypes
<1>2. Lead(r, s) \in PastEntry \cup {"idle"}
  <2>1. Lead(r, s) \in CombinePlace
    BY <1>1, LeadPlace
  <2>2. place[r][w] = Lead(r, s) \/ place[r][w] \in Beside(Lead(r, s))
    BY <1>1 DEF WarpsInv, Lead
  <2>. QED BY <2>1, <2>2 DEF Beside, CombinePlace, BeforeStore, PastEntry
<1>3. Lead(r, 0) # "nvlink"
  BY <1>1, <1>2, Places DEF WarpsInv, GridOrder, BeforeEntry
<1>. QED BY <1>1, <1>3 DEF CombineCountInv

LEMMA CallsApart ==
  ASSUME CombineInv, NEW r \in Rank, NEW q \in Rank
  PROVE  /\ call[r] \in Nat /\ call[q] \in Nat
         /\ call[q] - 1 <= call[r]
         /\ Passed(q) >= 2 * call[q] - 1 => call[q] <= call[r]
<1>1. call[r] \in Nat /\ call[q] \in Nat
  BY DEF CombineInv, CombineTypes
<1>2. Passed(q) \in Int /\ Passed(q) >= 2 * call[q] - 2
  BY <1>1 DEF CombineInv, CombineRankInv, CombineCountInv
<1>3. Sent(r, q) >= Passed(q)
  BY DEF CombineInv, BarrierInv, PassedAfterAll
<1>. QED BY <1>1, <1>2, <1>3, SentBound

(* No store lands in a rank whose reduction of the last call is not over,    *)
(* and once stores of a call begin all those of the calls before have landed,*)
(* for any number of ranks, SMs, warps and calls (combine_impl and its two   *)
(* barriers in combine.py).                                                 *)
THEOREM SlotsApart == CombineSpec => []SlotsOfOneCall
<1>1. ASSUME CombineInv PROVE SlotsOfOneCall
  <2>. SUFFICES ASSUME NEW r \in Rank, NEW q \in Rank, NEW w \in Warp
                PROVE  /\ slot[r][<<q, w>>] <= call[r]
                       /\ Stored(r) # {} => slot[r][<<q, w>>] >= call[r] - 1
    BY DEF SlotsOfOneCall
  <2>1. slot[r][<<q, w>>] = IF place[q][w] \in BeforeStore THEN call[q] - 1 ELSE call[q]
    BY <1>1 DEF CombineInv, CombineSlotInv
  <2>2. /\ call[r] \in Nat /\ call[q] \in Nat /\ call[q] - 1 <= call[r]
        /\ Passed(q) >= 2 * call[q] - 1 => call[q] <= call[r]
        /\ Passed(r) >= 2 * call[r] - 1 => call[r] <= call[q]
    BY <1>1, CallsApart
  <2>3. slot[r][<<q, w>>] <= call[r]
    BY <1>1, <2>1, <2>2, StoringCall
  <2>4. ASSUME Stored(r) # {} PROVE slot[r][<<q, w>>] >= call[r] - 1
    <3>1. PICK v \in Warp : place[r][v] \notin BeforeStore
      BY <2>4 DEF Stored, BeforeStore
    <3>. QED BY <1>1, <2>1, <2>2, <3>1, StoringCall
  <2>. QED BY <2>3, <2>4
<1>. QED BY <1>1, CombineInvariant, PTL

(* No SM leaves a grid barrier that another SM of its rank has not reached,   *)
(* though the words of the barrier are never reset between calls             *)
(* (grid_barrier in combine.py).                                            *)
THEOREM GridBarrierHolds == CombineSpec => []GridHolds
<1>1. CombineInv => GridHolds
  BY DEF CombineInv, CombineRankInv, GridOrder, GridHolds, Lead
<1>. QED BY <1>1, CombineInvariant, PTL

(* Inside the combine the barrier of the ranks is still a barrier: no rank    *)
(* passes it before all have told it, its words keep their types, and it     *)
(* implements the rendezvous of the ranks (nvlink_barrier in combine.py).    *)
THEOREM CombineRanksMeet == CombineSpec => []PassedAfterAll /\ []BarrierTypeOK /\ RanksMeet
BY CombineBarriers, BarrierSafe, BarrierTypes, BarrierImplements, PTL
-----------------------------------------------------------------------------
(***************************************************************************)
(* A receiver of the dispatch reads exactly what was sent to it in this     *)
(* call, for any number of ranks, SMs, tokens and calls. The barriers of the *)
(* ranks (NvlinkBarrier_proofs) keep a rank from being in kernel 1 of a call *)
(* that a peer has not launched, or has left behind (CountInv); so a count   *)
(* word holds the count of a call both ranks are in, or nothing (WordInv),   *)
(* and a region is written only while nobody reads it. Inside kernel 1 every *)
(* token sent has one slot, where it is or where its copy flies to (SlotInv).*)
(***************************************************************************)

Place == {"clear", "gate", "idle", "entry", "body", "exit", "copy"}
BarrierTyped ==
  /\ counter \in [Rank -> Int] /\ signal \in [Rank -> [0 .. 1 -> Int]]
  /\ spot \in [Rank -> {"out", "tell", "wait"}] /\ told \in [Rank -> SUBSET Rank]
SetupTyped ==
  route \in [Rank -> [1 .. CALLS -> Routes]] /\ call \in [Rank -> 0 .. CALLS] /\ at \in [Rank -> Place]
SumTyped ==
  /\ added \in [Rank -> SUBSET SM] /\ reduction \in [Rank -> [sms : Int, count : [Rank -> Int]]]
  /\ total \in [Rank -> [Rank -> Int]]
WordTyped ==
  /\ notify \in [Rank -> {"add", "publish", "collect", "done"}]
  /\ published \in [Rank -> SUBSET Rank]
  /\ inbox \in [Rank -> [Rank -> Int]] /\ psum \in [Rank -> [Rank -> Int]]
CopyTyped ==
  /\ sender \in [Rank -> [Rank -> Int]] /\ sent \in [Rank -> SUBSET Token]
  /\ flying \in [Rank -> SUBSET (Token \X Rank \X Int)]
  /\ region \in [Rank -> [Rank -> [Token -> Int \X Token]]]
DispatchTypes == BarrierTyped /\ SetupTyped /\ SumTyped /\ WordTyped /\ CopyTyped

(* A rank is in a barrier only at the ends of kernel 1, and in kernels of a    *)
(* call it has begun.                                                        *)
Inside ==
  \A r \in Rank : /\ spot[r] # "out" => at[r] \in {"entry", "exit"}
                  /\ at[r] \in {"entry", "body", "exit", "copy"} => call[r] # 0

(* Before the ranks have met, nobody has begun a call.                       *)
Cleared == \A r \in Rank : at[r] # "clear"
Fresh(r) ==
  call[r] = 0 /\ spot[r] = "out" /\ told[r] = {} /\ notify[r] = "done" /\ flying[r] = {}
Zeroed(r) ==
  /\ counter[r] = 0 /\ signal[r] = [p \in 0 .. 1 |-> 0]
  /\ reduction[r] = Nothing /\ inbox[r] = PerRank(0)
SetupInv ==
  \A r \in Rank : /\ at[r] \in {"clear", "gate"} => Fresh(r)
                  /\ ~Cleared => at[r] \in {"clear", "gate"} /\ (at[r] = "gate" => Zeroed(r))

(* A rank by itself: two barriers in a call, and the notify warps.           *)
CountInv(r) ==
  Passed(r) = 2 * call[r] - (IF at[r] = "entry" THEN 2 ELSE IF at[r] \in {"body", "exit"} THEN 1 ELSE 0)
NotifyInv(r) ==
  /\ at[r] = "entry" => notify[r] = "add" /\ added[r] = {} /\ sent[r] = {} /\ sender[r] = PerRank(0)
  /\ at[r] \notin {"entry", "body"} => notify[r] = "done"
  /\ at[r] # "body" => flying[r] = {}
  /\ notify[r] = "add" => published[r] = {}
  /\ notify[r] # "add" => reduction[r] = Nothing /\ (call[r] # 0 => added[r] = SM)
AddedFor(r, q, n) == {t \in Token : q \in route[r][n][t] /\ t % NUM_SMS \in added[r]}
SumInv(r) ==
  \A n \in 1 .. CALLS : call[r] = n =>
    /\ notify[r] = "add" => /\ reduction[r].sms = Cardinality(added[r])
                            /\ \A q \in Rank : reduction[r].count[q] = Cardinality(AddedFor(r, q, n))
    /\ notify[r] = "publish" => \A q \in Rank : total[r][q] = Cardinality(Due(r, q, n))
RankInv(r) == CountInv(r) /\ NotifyInv(r) /\ SumInv(r)

(* A receiver r and a sender q: the count word, then the region.             *)
Told(q, r) == notify[q] \in {"collect", "done"} \/ (notify[q] = "publish" /\ r \in published[q])
Heard(r, q) == notify[r] = "done" \/ (notify[r] = "collect" /\ q \notin published[r])
WordInv(r, q) ==
  /\ ~(call[q] = call[r] /\ Told(q, r) /\ ~Heard(r, q)) => inbox[r][q] = 0
  /\ call[q] = call[r] /\ Heard(r, q) => Told(q, r)
  /\ \A n \in 1 .. CALLS : call[r] = n =>
       /\ call[q] = n /\ Told(q, r) /\ ~Heard(r, q) => inbox[r][q] = Encoded(Cardinality(Due(q, r, n)))
       /\ Heard(r, q) => psum[r][q] = Cardinality(Due(q, r, n))

Gone(q, r, n) == {t \in sent[q] : r \in route[q][n][t]}
InAir(q, r, i) == \E t \in Token : <<t, r, i>> \in flying[q]
SlotInv(r, q, n) ==
  /\ sender[q][r] = Cardinality(Gone(q, r, n))
  /\ \A t \in Token, i \in Int : <<t, r, i>> \in flying[q] => t \in Gone(q, r, n) /\ i \in 0 .. sender[q][r] - 1
  /\ \A t, u \in Token, i \in Int : <<t, r, i>> \in flying[q] /\ <<u, r, i>> \in flying[q] => t = u
  /\ \A i \in 0 .. sender[q][r] - 1 : InAir(q, r, i) \/ \E t \in Gone(q, r, n) : region[r][q][i] = <<n, t>>
  /\ \A t \in Gone(q, r, n) : \E i \in 0 .. sender[q][r] - 1 :
       <<t, r, i>> \in flying[q] \/ (region[r][q][i] = <<n, t>> /\ ~InAir(q, r, i))
Holds(r, q, n) ==
  {region[r][q][i] : i \in 0 .. Cardinality(Due(q, r, n)) - 1} = {<<n, t>> : t \in Due(q, r, n)}
Behind(q) == IF at[q] = "entry" THEN call[q] - 1 ELSE call[q]
RegionInv(r, q) ==
  \A n \in 1 .. CALLS : /\ at[q] = "body" /\ call[q] = n => SlotInv(r, q, n)
                        /\ at[q] # "body" /\ Behind(q) = n => Holds(r, q, n)
PairInv(r, q) == WordInv(r, q) /\ RegionInv(r, q)

RanksInv == \A r \in Rank : RankInv(r)
PairsInv == \A r, q \in Rank : PairInv(r, q)
DispatchInv ==
  /\ DispatchTypes /\ Inside /\ SetupInv
  /\ Cleared => BarrierInv /\ RanksInv /\ PairsInv

LEMMA Sets ==
  /\ IsFiniteSet(Rank) /\ IsFiniteSet(SM) /\ IsFiniteSet(Token)
  /\ Cardinality(SM) = NUM_SMS /\ Cardinality(Token) = NUM_TOKENS
  /\ CALLS \in Nat /\ \A t \in Token : t % NUM_SMS \in SM
<1>1. IsFiniteSet(Rank) /\ CALLS \in Nat
  BY RankAssumption, BarriersAssumption, SMT DEF CALLS
<1>2. NUM_SMS \in Nat /\ NUM_SMS > 0 /\ NUM_TOKENS \in Nat
  BY DispatchAssumption, SMT
<1>3. \A t \in Token : t % NUM_SMS \in SM
  BY <1>2, SMT DEF SM, Token
<1>4. \A n \in Nat : IsFiniteSet(0 .. n - 1) /\ Cardinality(0 .. n - 1) = n
  <2>. TAKE n \in Nat
  <2>1. IsFiniteSet(0 .. n - 1) /\ Cardinality(0 .. n - 1) = IF 0 > n - 1 THEN 0 ELSE n - 1 - 0 + 1
    BY FS_Interval, SMT
  <2>. QED BY <2>1, SMT
<1>. QED BY <1>1, <1>2, <1>3, <1>4 DEF SM, Token

LEMMA CardNat == \A S : IsFiniteSet(S) => Cardinality(S) \in Nat
BY FS_CardinalityType

(* The types, one group of variables after the other.                        *)
LEMMA BarrierTypesStep == BarrierTyped /\ [Next]_vars => BarrierTyped'
<1>. SUFFICES ASSUME BarrierTyped, [Next]_vars PROVE BarrierTyped'
  OBVIOUS
<1>1. ASSUME NEW r \in Rank, Memset(r) PROVE BarrierTyped'
  BY <1>1, SMT DEF Memset, BarrierTyped
<1>2. ASSUME NEW r \in Rank, Begin(r) PROVE BarrierTyped'
  BY <1>2 DEF Begin, BarrierTyped
<1>3. ASSUME NEW r \in Rank, CountUp(r) PROVE BarrierTyped'
  BY <1>3, SMT DEF CountUp, BarrierTyped
<1>4. ASSUME NEW r \in Rank, Pass(r) PROVE BarrierTyped'
  BY <1>4 DEF Pass, BarrierTyped
<1>5. ASSUME NEW r \in Rank, NEW q \in Rank, Tell(r, q) PROVE BarrierTyped'
  <2>1. signal' \in [Rank -> [0 .. 1 -> Int]]
    <3>. DEFINE p == Phase(counter[r])
                d == Delta(counter[r])
    <3>1. d \in Int /\ signal' = [signal EXCEPT ![q][p] = @ + d]
      BY <1>5, SMT DEF Delta, Tell
    <3>0. p \in 0 .. 1
      <4>1. counter[r] \in Int
        BY DEF BarrierTyped
      <4>2. \A n \in Int : Phase(n) \in 0 .. 1
        BY SMT DEF Phase
      <4>. QED BY <4>1, <4>2
    <3>. HIDE DEF p, d
    <3>2. signal[q] \in [0 .. 1 -> Int]
      BY DEF BarrierTyped
    <3>3. [signal[q] EXCEPT ![p] = @ + d] \in [0 .. 1 -> Int]
      BY <3>0, <3>1, <3>2, SMT
    <3>4. signal' = [signal EXCEPT ![q] = [signal[q] EXCEPT ![p] = @ + d]]
      BY <3>1
    <3>. QED BY <3>3, <3>4 DEF BarrierTyped
  <2>2. told' \in [Rank -> SUBSET Rank]
    BY <1>5 DEF Tell, BarrierTyped
  <2>. QED BY <1>5, <2>1, <2>2 DEF Tell, BarrierTyped
<1>6. CASE UNCHANGED barrierVars
  BY <1>6 DEF barrierVars, BarrierTyped
<1>7. \/ UNCHANGED barrierVars
      \/ \E r \in Rank : \/ Memset(r) \/ Begin(r) \/ CountUp(r) \/ Pass(r)
                         \/ \E q \in Rank : Tell(r, q)
  BY DEF Next, Stop, vars, RankNext, Gate, Launch, NvlinkEnter, NvlinkTell, NvlinkCount, NvlinkPass,
         NotifyAdd, NotifyTake, Publish, CollectCount, Send, Land, EndBody, CopyOut
<1>. QED BY <1>1, <1>2, <1>3, <1>4, <1>5, <1>6, <1>7

LEMMA SetupTypesStep == SetupTyped /\ [Next]_vars => SetupTyped'
<1>. SUFFICES ASSUME SetupTyped, [Next]_vars PROVE SetupTyped'
  OBVIOUS
<1>1. ASSUME NEW r \in Rank, Launch(r) PROVE SetupTyped'
  <2>1. call' \in [Rank -> 0 .. CALLS]
    BY <1>1, Sets, SMT DEF Launch, SetupTyped
  <2>2. at' \in [Rank -> Place] /\ route' = route
    BY <1>1 DEF Launch, Goto, SetupTyped, Place
  <2>. QED BY <2>1, <2>2 DEF SetupTyped
<1>2. ASSUME NEW r \in Rank, NEW p \in Place, Goto(r, p), UNCHANGED <<route, call>> PROVE SetupTyped'
  BY <1>2 DEF Goto, SetupTyped
<1>3. CASE UNCHANGED setup
  BY <1>3 DEF setup, SetupTyped
<1>4. \/ UNCHANGED setup
      \/ \E r \in Rank : Launch(r) \/ \E p \in Place : Goto(r, p) /\ UNCHANGED <<route, call>>
  BY DEF Next, Stop, vars, RankNext, Memset, Gate, NvlinkEnter, NvlinkTell, NvlinkCount, NvlinkPass,
         NotifyAdd, NotifyTake, Publish, CollectCount, Send, Land, EndBody, CopyOut, Place
<1>. QED BY <1>1, <1>2, <1>3, <1>4

LEMMA SumTypesStep == SumTyped /\ [Next]_vars => SumTyped'
<1>. SUFFICES ASSUME SumTyped, [Next]_vars PROVE SumTyped'
  OBVIOUS
<1>0. Nothing \in [sms : Int, count : [Rank -> Int]]
  BY SMT DEF Nothing, PerRank
<1>1. ASSUME NEW r \in Rank, Memset(r) PROVE SumTyped'
  BY <1>0, <1>1 DEF Memset, SumTyped
<1>2. ASSUME NEW r \in Rank, Launch(r) PROVE SumTyped'
  BY <1>2 DEF Launch, SumTyped
<1>3. ASSUME NEW r \in Rank, NEW s \in SM, NotifyAdd(r, s) PROVE SumTyped'
  <2>1. \A q \in Rank : Cardinality(OfSm(r, q, s)) \in Int
    <3>. TAKE q \in Rank
    <3>1. OfSm(r, q, s) \in SUBSET Token
      BY DEF OfSm, For
    <3>. QED BY <3>1, Sets, CardNat, FS_Subset, SMT
  <2>. DEFINE c == [q \in Rank |-> reduction[r].count[q] + Cardinality(OfSm(r, q, s))]
              d == [sms |-> reduction[r].sms + 1, count |-> c]
  <2>2. reduction[r].sms \in Int /\ reduction[r].count \in [Rank -> Int]
    BY DEF SumTyped
  <2>3. c \in [Rank -> Int]
    BY <2>1, <2>2, SMT
  <2>4. d \in [sms : Int, count : [Rank -> Int]]
    BY <2>2, <2>3, SMT
  <2>5. reduction' = [reduction EXCEPT ![r] = d]
    BY <1>3 DEF NotifyAdd
  <2>6. added' \in [Rank -> SUBSET SM]
    BY <1>3 DEF NotifyAdd, SumTyped
  <2>7. total' = total
    BY <1>3 DEF NotifyAdd
  <2>. QED BY <2>4, <2>5, <2>6, <2>7 DEF SumTyped
<1>4. ASSUME NEW r \in Rank, NotifyTake(r) PROVE SumTyped'
  <2>1. reduction[r].count \in [Rank -> Int]
    BY DEF SumTyped
  <2>. QED BY <1>0, <1>4, <2>1 DEF NotifyTake, SumTyped
<1>5. CASE UNCHANGED <<added, reduction, total>>
  BY <1>5 DEF SumTyped
<1>6. \/ UNCHANGED <<added, reduction, total>>
      \/ \E r \in Rank : Memset(r) \/ Launch(r) \/ NotifyTake(r) \/ \E s \in SM : NotifyAdd(r, s)
  BY DEF Next, Stop, vars, counts, RankNext, Gate, NvlinkEnter, NvlinkTell, NvlinkCount, NvlinkPass,
         Publish, CollectCount, Send, Land, EndBody, CopyOut
<1>. QED BY <1>1, <1>2, <1>3, <1>4, <1>5, <1>6

LEMMA WordTypesStep == SumTyped /\ WordTyped /\ [Next]_vars => WordTyped'
<1>. SUFFICES ASSUME SumTyped, WordTyped, [Next]_vars PROVE WordTyped'
  OBVIOUS
<1>1. ASSUME NEW r \in Rank, Memset(r) PROVE WordTyped'
  <2>1. PerRank(0) \in [Rank -> Int]
    BY SMT DEF PerRank
  <2>. QED BY <1>1, <2>1 DEF Memset, WordTyped
<1>2. ASSUME NEW r \in Rank, Launch(r) PROVE WordTyped'
  BY <1>2 DEF Launch, WordTyped
<1>3. ASSUME NEW r \in Rank, NotifyTake(r) PROVE WordTyped'
  BY <1>3 DEF NotifyTake, WordTyped
<1>4. ASSUME NEW m \in [Rank -> [Rank -> Int]], NEW a \in Rank, NEW b \in Rank, NEW v \in Int
      PROVE  [m EXCEPT ![a][b] = v] \in [Rank -> [Rank -> Int]]
  <2>1. [m[a] EXCEPT ![b] = v] \in [Rank -> Int]
    OBVIOUS
  <2>. QED BY <2>1
<1>5. ASSUME NEW r \in Rank, NEW q \in Rank, Publish(r, q) PROVE WordTyped'
  <2>1. inbox' = [inbox EXCEPT ![q][r] = Encoded(total[r][q])]
    BY <1>5 DEF Publish
  <2>2. Encoded(total[r][q]) \in Int
    BY SMT DEF Encoded, SumTyped
  <2>3. inbox' \in [Rank -> [Rank -> Int]]
    BY <1>4, <2>1, <2>2 DEF WordTyped
  <2>4. notify' \in [Rank -> {"add", "publish", "collect", "done"}] /\ published' \in [Rank -> SUBSET Rank]
    BY <1>5 DEF Publish, WordTyped
  <2>. QED BY <1>5, <2>3, <2>4 DEF Publish, WordTyped
<1>6. ASSUME NEW r \in Rank, NEW q \in Rank, CollectCount(r, q) PROVE WordTyped'
  <2>1. Decoded(inbox[r][q]) \in Int
    BY SMT DEF Decoded, WordTyped
  <2>2. inbox' \in [Rank -> [Rank -> Int]]
    BY <1>4, <1>6 DEF WordTyped, CollectCount
  <2>3. psum' \in [Rank -> [Rank -> Int]]
    BY <1>4, <1>6, <2>1 DEF WordTyped, CollectCount
  <2>4. notify' \in [Rank -> {"add", "publish", "collect", "done"}] /\ published' \in [Rank -> SUBSET Rank]
    BY <1>6 DEF CollectCount, WordTyped
  <2>. QED BY <2>2, <2>3, <2>4 DEF WordTyped
<1>7. CASE UNCHANGED <<notify, published, inbox, psum>>
  BY <1>7 DEF WordTyped
<1>8. \/ UNCHANGED <<notify, published, inbox, psum>>
      \/ \E r \in Rank : Memset(r) \/ Launch(r) \/ NotifyTake(r)
                         \/ \E q \in Rank : Publish(r, q) \/ CollectCount(r, q)
  BY DEF Next, Stop, vars, counts, RankNext, Gate, NvlinkEnter, NvlinkTell, NvlinkCount, NvlinkPass,
         NotifyAdd, Send, Land, EndBody, CopyOut
<1>. QED BY <1>1, <1>2, <1>3, <1>5, <1>6, <1>7, <1>8

LEMMA CopyTypesStep ==
  ASSUME CopyTyped, SetupTyped, Inside, [Next]_vars
  PROVE  CopyTyped'
<1>1. ASSUME NEW r \in Rank, Launch(r) PROVE CopyTyped'
  <2>1. PerRank(0) \in [Rank -> Int]
    BY SMT DEF PerRank
  <2>. QED BY <1>1, <2>1 DEF Launch, ResetSenders, CopyTyped
<1>2. ASSUME NEW r \in Rank, NEW t \in Token, Send(r, t) PROVE CopyTyped'
  <2>. DEFINE to == route[r][call[r]][t]
              new == {<<t, q, sender[r][q]>> : q \in to}
              s == [q \in Rank |-> sender[r][q] + IF q \in to THEN 1 ELSE 0]
  <2>1. call[r] \in 1 .. CALLS
    BY <1>2, Sets, SMT DEF SetupTyped, Inside, Send
  <2>2. to \subseteq Rank
    <3>1. route[r][call[r]] \in Routes
      BY <2>1 DEF SetupTyped
    <3>2. route[r][call[r]] \in [Token -> SUBSET Rank]
      BY <3>1, DispatchAssumption
    <3>. QED BY <3>2
  <2>3. sender[r] \in [Rank -> Int]
    BY DEF CopyTyped
  <2>4. new \in SUBSET (Token \X Rank \X Int)
    BY <2>2, <2>3
  <2>5. s \in [Rank -> Int]
    BY <2>3, SMT
  <2>6. /\ sender' = [sender EXCEPT ![r] = s] /\ region' = region
        /\ flying' = [flying EXCEPT ![r] = @ \cup new]
        /\ sent' = [sent EXCEPT ![r] = @ \cup {t}]
    BY <1>2 DEF Send
  <2>. HIDE DEF new, s
  <2>. QED BY <2>4, <2>5, <2>6 DEF CopyTyped
<1>3. ASSUME NEW r \in Rank, Land(r) PROVE CopyTyped'
  <2>1. PICK c \in flying[r] : /\ flying' = [flying EXCEPT ![r] = @ \ {c}]
                               /\ region' = [region EXCEPT ![c[2]][r][c[3]] = <<call[r], c[1]>>]
    BY <1>3 DEF Land
  <2>2. c \in Token \X Rank \X Int /\ call[r] \in Int
    BY Sets, SMT DEF CopyTyped, SetupTyped
  <2>3. PICK q \in Rank, i \in Int, v \in Int \X Token : region' = [region EXCEPT ![q][r][i] = v]
    BY <2>1, <2>2
  <2>4. [region[q][r] EXCEPT ![i] = v] \in [Token -> Int \X Token]
    <3>1. region[q][r] \in [Token -> Int \X Token]
      BY <2>3 DEF CopyTyped
    <3>. QED BY <2>3, <3>1
  <2>5. [region[q] EXCEPT ![r] = [region[q][r] EXCEPT ![i] = v]] \in [Rank -> [Token -> Int \X Token]]
    BY <2>4 DEF CopyTyped
  <2>6. region' = [region EXCEPT ![q] = [region[q] EXCEPT ![r] = [region[q][r] EXCEPT ![i] = v]]]
    BY <2>3
  <2>7. region' \in [Rank -> [Rank -> [Token -> Int \X Token]]]
    BY <2>5, <2>6 DEF CopyTyped
  <2>. QED BY <1>3, <2>1, <2>7 DEF Land, CopyTyped
<1>4. CASE UNCHANGED copies
  BY <1>4 DEF copies, CopyTyped
<1>5. \/ UNCHANGED copies
      \/ \E r \in Rank : Launch(r) \/ Land(r) \/ \E t \in Token : Send(r, t)
  BY DEF Next, Stop, vars, RankNext, Memset, Gate, NvlinkEnter, NvlinkTell, NvlinkCount, NvlinkPass,
         NotifyAdd, NotifyTake, Publish, CollectCount, EndBody, CopyOut
<1>. QED BY <1>1, <1>2, <1>3, <1>4, <1>5

LEMMA InsideStep ==
  ASSUME BarrierTyped, SetupTyped, Inside, [Next]_vars
  PROVE  Inside'
<1>1. ASSUME NEW r \in Rank, NEW p \in Place, Goto(r, p), UNCHANGED <<call, spot>>,
             spot[r] = "out", call[r] # 0 \/ p \in {"gate", "idle"}
      PROVE  Inside'
  BY <1>1 DEF Goto, SetupTyped, Inside
<1>2. ASSUME NEW r \in Rank, Launch(r) PROVE Inside'
  <2>1. call'[r] # 0
    BY <1>2, Sets, SMT DEF Launch, SetupTyped
  <2>. QED BY <1>2, <2>1 DEF Launch, Goto, SetupTyped, Inside, barrierVars
<1>3. ASSUME NEW r \in Rank, NvlinkEnter(r) PROVE Inside'
  BY <1>3 DEF NvlinkEnter, Begin, setup, BarrierTyped, Inside
<1>4. ASSUME NEW r \in Rank, NvlinkCount(r) PROVE Inside'
  BY <1>4 DEF NvlinkCount, CountUp, setup, BarrierTyped, Inside
<1>5. ASSUME NEW r \in Rank, NvlinkPass(r) PROVE Inside'
  BY <1>5 DEF NvlinkPass, Pass, Goto, BarrierTyped, SetupTyped, Inside
<1>6. CASE UNCHANGED <<spot, setup>>
  BY <1>6 DEF setup, Inside
<1>7. ASSUME NEW r \in Rank, Memset(r) \/ Gate(r) \/ EndBody(r) \/ CopyOut(r) PROVE Inside'
  <2>1. PICK p \in Place : Goto(r, p) /\ (call[r] # 0 \/ p \in {"gate", "idle"})
    BY <1>7 DEF Memset, Gate, EndBody, CopyOut, Place, Inside
  <2>2. spot[r] = "out" /\ UNCHANGED <<call, spot>>
    BY <1>7 DEF Memset, Gate, EndBody, CopyOut, Inside, barrierVars
  <2>. QED BY <1>1, <2>1, <2>2
<1>8. \/ UNCHANGED <<spot, setup>>
      \/ \E r \in Rank : \/ Launch(r) \/ NvlinkEnter(r) \/ NvlinkCount(r) \/ NvlinkPass(r)
                         \/ Memset(r) \/ Gate(r) \/ EndBody(r) \/ CopyOut(r)
  BY DEF Next, Stop, vars, barrierVars, RankNext, NvlinkTell, Tell,
         NotifyAdd, NotifyTake, Publish, CollectCount, Send, Land
<1>. QED BY <1>2, <1>3, <1>4, <1>5, <1>6, <1>7, <1>8

LEMMA TypesStep == DispatchTypes /\ Inside /\ [Next]_vars => DispatchTypes' /\ Inside'
BY BarrierTypesStep, SetupTypesStep, SumTypesStep, WordTypesStep, CopyTypesStep, InsideStep
   DEF DispatchTypes

(* A step of rank p leaves what belongs to the other ranks.                  *)
LEMMA OthersKept ==
  ASSUME DispatchTypes, NEW p \in Rank, RankNext(p), NEW r \in Rank, r # p
  PROVE  /\ route' = route /\ call'[r] = call[r] /\ at'[r] = at[r]
         /\ spot'[r] = spot[r] /\ told'[r] = told[r] /\ counter'[r] = counter[r]
         /\ added'[r] = added[r] /\ reduction'[r] = reduction[r] /\ total'[r] = total[r]
         /\ notify'[r] = notify[r] /\ published'[r] = published[r] /\ psum'[r] = psum[r]
         /\ sender'[r] = sender[r] /\ sent'[r] = sent[r] /\ flying'[r] = flying[r]
<1>1. route' = route /\ call'[r] = call[r] /\ at'[r] = at[r]
  <2>1. CASE UNCHANGED setup
    BY <2>1 DEF setup
  <2>2. CASE \E x : Goto(p, x) /\ UNCHANGED <<route, call>>
    BY <2>2 DEF Goto, DispatchTypes, SetupTyped
  <2>3. CASE Launch(p)
    BY <2>3 DEF Launch, Goto, DispatchTypes, SetupTyped
  <2>4. UNCHANGED setup \/ Launch(p) \/ \E x : Goto(p, x) /\ UNCHANGED <<route, call>>
    BY DEF RankNext, Memset, Gate, NvlinkEnter, NvlinkTell, NvlinkCount, NvlinkPass,
           NotifyAdd, NotifyTake, Publish, CollectCount, Send, Land, EndBody, CopyOut
  <2>. QED BY <2>1, <2>2, <2>3, <2>4
<1>2. spot'[r] = spot[r] /\ told'[r] = told[r] /\ counter'[r] = counter[r]
  <2>1. CASE UNCHANGED barrierVars
    BY <2>1 DEF barrierVars
  <2>2. CASE Memset(p)
    BY <2>2 DEF Memset, DispatchTypes, BarrierTyped
  <2>3. CASE RankStep(p)
    BY <2>3 DEF RankStep, Begin, CountUp, Pass, Tell, DispatchTypes, BarrierTyped
  <2>4. UNCHANGED barrierVars \/ Memset(p) \/ RankStep(p)
    BY DEF RankNext, Gate, Launch, NvlinkEnter, NvlinkTell, NvlinkCount, NvlinkPass, RankStep,
           NotifyAdd, NotifyTake, Publish, CollectCount, Send, Land, EndBody, CopyOut
  <2>. QED BY <2>1, <2>2, <2>3, <2>4
<1>3. added'[r] = added[r] /\ reduction'[r] = reduction[r] /\ total'[r] = total[r]
  <2>1. CASE UNCHANGED <<added, reduction, total>>
    BY <2>1
  <2>2. CASE \/ (\E x : reduction' = [reduction EXCEPT ![p] = x]) /\ UNCHANGED <<added, total>>
             \/ (\E x : added' = [added EXCEPT ![p] = x]) /\ UNCHANGED <<reduction, total>>
    BY <2>2 DEF DispatchTypes, SumTyped
  <2>3. CASE \E s \in SM : NotifyAdd(p, s)
    BY <2>3 DEF NotifyAdd, DispatchTypes, SumTyped
  <2>4. CASE NotifyTake(p)
    BY <2>4 DEF NotifyTake, DispatchTypes, SumTyped
  <2>5. CASE Memset(p) \/ Launch(p)
    BY <2>2, <2>5 DEF Memset, Launch
  <2>6. \/ UNCHANGED <<added, reduction, total>> \/ NotifyTake(p) \/ (\E s \in SM : NotifyAdd(p, s))
        \/ Memset(p) \/ Launch(p)
    BY DEF RankNext, Gate, NvlinkEnter, NvlinkTell, NvlinkCount, NvlinkPass, counts,
           Publish, CollectCount, Send, Land, EndBody, CopyOut
  <2>. QED BY <2>1, <2>3, <2>4, <2>5, <2>6
<1>4. notify'[r] = notify[r] /\ published'[r] = published[r] /\ psum'[r] = psum[r]
  <2>1. CASE UNCHANGED <<notify, published, psum>>
    BY <2>1
  <2>2. CASE Launch(p)
    BY <2>2 DEF Launch, DispatchTypes, WordTyped
  <2>3. CASE NotifyTake(p)
    BY <2>3 DEF NotifyTake, DispatchTypes, WordTyped
  <2>4. CASE \E q \in Rank : Publish(p, q)
    BY <2>4 DEF Publish, DispatchTypes, WordTyped
  <2>5. CASE \E q \in Rank : CollectCount(p, q)
    BY <2>5 DEF CollectCount, DispatchTypes, WordTyped
  <2>6. \/ UNCHANGED <<notify, published, psum>> \/ NotifyTake(p) \/ Launch(p)
        \/ \E q \in Rank : Publish(p, q) \/ CollectCount(p, q)
    BY DEF RankNext, Memset, Gate, NvlinkEnter, NvlinkTell, NvlinkCount, NvlinkPass, counts,
           NotifyAdd, Send, Land, EndBody, CopyOut
  <2>. QED BY <2>1, <2>2, <2>3, <2>4, <2>5, <2>6
<1>5. sender'[r] = sender[r] /\ sent'[r] = sent[r] /\ flying'[r] = flying[r]
  <2>1. CASE UNCHANGED copies
    BY <2>1 DEF copies
  <2>2. CASE Launch(p)
    BY <2>2 DEF Launch, ResetSenders, DispatchTypes, CopyTyped
  <2>3. CASE \E t \in Token : Send(p, t)
    BY <2>3 DEF Send, DispatchTypes, CopyTyped
  <2>4. CASE Land(p)
    BY <2>4 DEF Land, DispatchTypes, CopyTyped
  <2>5. UNCHANGED copies \/ Launch(p) \/ Land(p) \/ \E t \in Token : Send(p, t)
    BY DEF RankNext, Memset, Gate, NvlinkEnter, NvlinkTell, NvlinkCount, NvlinkPass,
           NotifyAdd, NotifyTake, Publish, CollectCount, EndBody, CopyOut
  <2>. QED BY <2>1, <2>2, <2>3, <2>4, <2>5
<1>. QED BY <1>1, <1>2, <1>3, <1>4, <1>5

(* A rank that has not met the others can only go on to do so.               *)
LEMMA SetupOnly ==
  ASSUME Inside, SetupInv, NEW p \in Rank, RankNext(p), at[p] \in {"clear", "gate"}
  PROVE  Memset(p) \/ Gate(p)
<1>1. spot[p] = "out" /\ notify[p] = "done" /\ flying[p] = {}
  BY DEF SetupInv, Fresh
<1>. QED BY <1>1 DEF RankNext, Launch, NvlinkEnter, NvlinkTell, NvlinkCount, NvlinkPass, Begin, Tell, CountUp,
                     Pass, NotifyAdd, NotifyTake, Publish, CollectCount, Send, Land, EndBody, CopyOut

LEMMA MemsetZeroes ==
  ASSUME DispatchTypes, SetupInv, ~Cleared, NEW p \in Rank, Memset(p), NEW r \in Rank
  PROVE  at'[r] \in {"clear", "gate"} /\ (at'[r] = "gate" => Zeroed(r)')
<1>1. at[r] \in {"clear", "gate"} /\ (at[r] = "gate" => Zeroed(r))
  BY DEF SetupInv
<1>2. CASE r = p
  BY <1>2 DEF Memset, Goto, Zeroed, DispatchTypes, SetupTyped, BarrierTyped, SumTyped, WordTyped,
              Nothing, PerRank
<1>3. CASE r # p
  <2>1. at'[r] = at[r] /\ counter'[r] = counter[r] /\ reduction'[r] = reduction[r]
    BY <1>3, OthersKept DEF RankNext
  <2>2. signal'[r] = signal[r] /\ inbox'[r] = inbox[r]
    BY <1>3 DEF Memset, DispatchTypes, BarrierTyped, WordTyped
  <2>. QED BY <1>1, <2>1, <2>2 DEF Zeroed, Nothing, PerRank
<1>. QED BY <1>2, <1>3

LEMMA SetupStep ==
  ASSUME DispatchTypes, Inside, SetupInv, [Next]_vars
  PROVE  SetupInv'
<1>1. CASE Stop \/ UNCHANGED vars
  BY <1>1 DEF Stop, vars, barrierVars, setup, counts, copies, SetupInv, Fresh, Zeroed, Cleared
<1>2. ASSUME NEW p \in Rank, RankNext(p) PROVE SetupInv'
  <2>1. ASSUME NEW r \in Rank, at'[r] \in {"clear", "gate"} PROVE Fresh(r)'
    <3>1. CASE r # p
      BY <1>2, <2>1, <3>1, OthersKept DEF SetupInv, Fresh
    <3>2. CASE r = p /\ (Memset(p) \/ Gate(p))
      BY <2>1, <3>2 DEF Memset, Gate, Goto, SetupInv, Fresh, barrierVars, counts, copies, DispatchTypes, SetupTyped
    <3>3. CASE r = p /\ ~(Memset(p) \/ Gate(p))
      <4>1. at[p] \notin {"clear", "gate"}
        BY <1>2, <3>3, SetupOnly
      <4>2. at'[p] \notin {"clear", "gate"}
        BY <1>2, <3>3, <4>1 DEF RankNext, Launch, NvlinkEnter, NvlinkTell, NvlinkCount, NvlinkPass, Goto, setup,
             NotifyAdd, NotifyTake, Publish, CollectCount, Send, Land, EndBody, CopyOut, DispatchTypes, SetupTyped
      <4>. QED BY <2>1, <3>3, <4>2
    <3>. QED BY <3>1, <3>2, <3>3
  <2>2. ASSUME ~Cleared' PROVE ~Cleared
    BY <1>2, <2>2, OthersKept DEF Cleared, RankNext, Memset, Gate, Launch, NvlinkEnter, NvlinkTell, NvlinkCount,
         NvlinkPass, Goto, setup,
         NotifyAdd, NotifyTake, Publish, CollectCount, Send, Land, EndBody, CopyOut, DispatchTypes, SetupTyped
  <2>3. ASSUME NEW r \in Rank, ~Cleared'
        PROVE  at'[r] \in {"clear", "gate"} /\ (at'[r] = "gate" => Zeroed(r)')
    <3>1. \A x \in Rank : at[x] \in {"clear", "gate"} /\ (at[x] = "gate" => Zeroed(x))
      BY <2>2, <2>3 DEF SetupInv
    <3>2. Memset(p)
      BY <1>2, <2>2, <2>3, <3>1, SetupOnly DEF Gate, AllCleared, Cleared
    <3>. QED BY <2>2, <2>3, <3>2, MemsetZeroes
  <2>. QED BY <2>1, <2>3 DEF SetupInv
<1>. QED BY <1>1, <1>2 DEF Next

(* The last rank to clear its workspace starts the invariant of the rest.    *)
AtGates == \A r \in Rank : at[r] = "gate" /\ Fresh(r) /\ Zeroed(r)
LEMMA StartInv == DispatchTypes /\ AtGates => BarrierInit /\ RanksInv /\ PairsInv
<1>. SUFFICES ASSUME DispatchTypes, AtGates PROVE BarrierInit /\ RanksInv /\ PairsInv
  OBVIOUS
<1>0. ASSUME NEW r \in Rank
      PROVE  /\ at[r] = "gate" /\ call[r] = 0 /\ spot[r] = "out" /\ told[r] = {} /\ notify[r] = "done"
             /\ flying[r] = {} /\ counter[r] = 0 /\ signal[r] = [p \in 0 .. 1 |-> 0]
             /\ reduction[r] = Nothing /\ inbox[r] = PerRank(0)
  BY DEF AtGates, Fresh, Zeroed
<1>1. BarrierInit
  BY <1>0 DEF BarrierInit, DispatchTypes, BarrierTyped
<1>2. ASSUME NEW r \in Rank PROVE RankInv(r)
  <2>1. CountInv(r)
    BY <1>0, SMT DEF CountInv, Passed
  <2>2. NotifyInv(r)
    BY <1>0 DEF NotifyInv
  <2>3. SumInv(r)
    BY <1>0, SMT DEF SumInv
  <2>. QED BY <2>1, <2>2, <2>3 DEF RankInv
<1>3. ASSUME NEW r \in Rank, NEW q \in Rank PROVE PairInv(r, q)
  <2>1. \A n \in 1 .. CALLS : n # 0
    BY SMT
  <2>2. Told(q, r) /\ inbox[r][q] = 0 /\ call[r] = 0 /\ Behind(q) = 0 /\ at[q] # "body"
    BY <1>0 DEF Told, PerRank, Behind
  <2>3. WordInv(r, q)
    BY <2>1, <2>2 DEF WordInv
  <2>4. RegionInv(r, q)
    BY <2>1, <2>2 DEF RegionInv
  <2>. QED BY <2>3, <2>4 DEF PairInv
<1>. QED BY <1>1, <1>2, <1>3 DEF RanksInv, PairsInv

LEMMA StartStep ==
  ASSUME DispatchTypes, Inside, SetupInv, ~Cleared, [Next]_vars, Cleared'
  PROVE  BarrierInv' /\ RanksInv' /\ PairsInv'
<1>1. PICK p \in Rank : Memset(p)
  <2>1. \A x \in Rank : at[x] \in {"clear", "gate"}
    BY DEF SetupInv
  <2>2. ~UNCHANGED vars /\ ~Stop
    BY DEF Stop, vars, setup, Cleared
  <2>3. PICK p \in Rank : RankNext(p)
    BY <2>2 DEF Next
  <2>. QED BY <2>1, <2>3, SetupOnly DEF Gate, AllCleared, Cleared
<1>2. DispatchTypes' /\ SetupInv'
  BY TypesStep, SetupStep
<1>3. AtGates'
  <2>. SUFFICES ASSUME NEW r \in Rank PROVE at'[r] = "gate" /\ Fresh(r)' /\ Zeroed(r)'
    BY DEF AtGates
  <2>1. at'[r] \in {"clear", "gate"} /\ (at'[r] = "gate" => Zeroed(r)')
    BY <1>1, MemsetZeroes
  <2>2. at'[r] = "gate"
    BY <2>1 DEF Cleared
  <2>. QED BY <1>2, <2>1, <2>2 DEF SetupInv
<1>4. DispatchTypes' /\ AtGates' => BarrierInit' /\ RanksInv' /\ PairsInv'
  BY StartInv, PTL
<1>5. BarrierInit' => BarrierInv'
  BY InvStart, PTL
<1>. QED BY <1>2, <1>3, <1>4, <1>5

LEMMA BarrierStep ==
  ASSUME Cleared, BarrierInv, [Next]_vars
  PROVE  BarrierInv'
<1>1. \A p \in Rank : ~Memset(p)
  BY DEF Memset, Cleared
<1>2. [BarrierNext]_barrierVars
  BY <1>1 DEF Next, Stop, vars, RankNext, Gate, Launch, NvlinkEnter, NvlinkTell, NvlinkCount, NvlinkPass,
     BarrierNext, RankStep, NotifyAdd, NotifyTake, Publish, CollectCount, Send, Land, EndBody, CopyOut
<1>. QED BY <1>2, InvStep

(* How far two ranks can be from each other.                                 *)
Kernel1(r) == at[r] \in {"entry", "body"}
LEMMA Apart ==
  ASSUME DispatchTypes, Inside, BarrierInv, RanksInv, NEW q \in Rank, NEW r \in Rank
  PROVE  /\ call[q] \in Nat /\ call[r] \in Nat
         /\ at[q] # "entry" => call[r] >= call[q]
         /\ at[q] = "entry" => call[r] >= call[q] - 1
         /\ at[q] = "entry" /\ Kernel1(r) => call[r] >= call[q]
         /\ at[q] \notin {"entry", "body", "exit"} /\ Kernel1(r) => call[r] > call[q]
<1>1. call[q] \in Nat /\ call[r] \in Nat
  BY Sets, SMT DEF DispatchTypes, SetupTyped
<1>2. Sent(r, q) >= Passed(q)
  BY DEF BarrierInv, PassedAfterAll
<1>3. CountInv(q) /\ CountInv(r)
  BY DEF RanksInv, RankInv
<1>4. at[q] \in Place /\ at[r] \in Place
  BY DEF DispatchTypes, SetupTyped
<1>5. Sent(r, q) <= Passed(r) + (IF spot[r] = "out" THEN 0 ELSE 1)
  BY SMT DEF BarrierInv, Types, Sent, Passed
<1>6. spot[r] # "out" => at[r] \in {"entry", "exit"}
  BY DEF Inside
<1>7. Passed(q) \in Nat /\ Passed(r) \in Nat /\ Sent(r, q) \in Nat
  BY SentType DEF BarrierInv
<1>. QED BY <1>1, <1>2, <1>3, <1>4, <1>5, <1>6, <1>7, SMT DEF CountInv, Kernel1, Place

(* A step of rank p, and what p keeps of its own invariant.                   *)
LEMMA CountStep ==
  ASSUME DispatchTypes, Inside, Cleared, NEW p \in Rank, RankNext(p), CountInv(p)
  PROVE  CountInv(p)'
<1>0. call[p] \in Nat /\ counter[p] \in Int /\ at[p] \in Place /\ ~Memset(p)
  BY Sets, SMT DEF DispatchTypes, SetupTyped, BarrierTyped, Memset, Cleared
<1>1. CASE Gate(p) \/ EndBody(p) \/ CopyOut(p)
  <2>1. spot'[p] = spot[p] /\ counter'[p] = counter[p] /\ call'[p] = call[p]
    BY <1>1 DEF Gate, EndBody, CopyOut, barrierVars
  <2>2. \/ at[p] = "gate" /\ at'[p] = "idle"
        \/ at[p] = "body" /\ at'[p] = "exit"
        \/ at[p] = "copy" /\ at'[p] = "idle"
    BY <1>1 DEF Gate, EndBody, CopyOut, Goto, DispatchTypes, SetupTyped
  <2>. QED BY <2>1, <2>2 DEF CountInv, Passed
<1>2. CASE Launch(p)
  <2>1. /\ spot'[p] = spot[p] /\ counter'[p] = counter[p] /\ call'[p] = call[p] + 1
        /\ at[p] = "idle" /\ at'[p] = "entry"
    BY <1>2 DEF Launch, barrierVars, Goto, DispatchTypes, SetupTyped
  <2>. QED BY <1>0, <2>1, SMT DEF CountInv, Passed
<1>3. CASE NvlinkEnter(p) \/ NvlinkCount(p) \/ \E q \in Rank : NvlinkTell(p, q)
  <2>1. at' = at /\ call' = call
    BY <1>3 DEF NvlinkEnter, NvlinkCount, NvlinkTell, setup
  <2>2. \/ counter'[p] = counter[p] /\ spot[p] # "wait" /\ spot'[p] # "wait"
        \/ counter'[p] = counter[p] + 1 /\ spot[p] # "wait" /\ spot'[p] = "wait"
    BY <1>3 DEF NvlinkEnter, NvlinkCount, NvlinkTell, Begin, CountUp, Tell, DispatchTypes, BarrierTyped
  <2>. QED BY <1>0, <2>1, <2>2, SMT DEF CountInv, Passed
<1>4. CASE NvlinkPass(p)
  <2>1. counter'[p] = counter[p] /\ spot[p] = "wait" /\ spot'[p] = "out" /\ call'[p] = call[p]
    BY <1>4 DEF NvlinkPass, Pass, DispatchTypes, BarrierTyped
  <2>2. at[p] \in {"entry", "exit"} /\ at'[p] = IF at[p] = "entry" THEN "body" ELSE "copy"
    BY <1>4, <2>1 DEF NvlinkPass, Goto, DispatchTypes, SetupTyped, Inside
  <2>. QED BY <1>0, <2>1, <2>2, SMT DEF CountInv, Passed
<1>5. CASE UNCHANGED <<barrierVars, setup>>
  BY <1>5 DEF barrierVars, setup, CountInv, Passed
<1>. QED BY <1>0, <1>1, <1>2, <1>3, <1>4, <1>5
         DEF RankNext, NotifyAdd, NotifyTake, Publish, CollectCount, Send, Land

LEMMA NotifyStep ==
  ASSUME DispatchTypes, Inside, Cleared, NEW p \in Rank, RankNext(p), NotifyInv(p), SumInv(p)
  PROVE  NotifyInv(p)'
<1>0. at[p] \in Place /\ ~Memset(p) /\ call[p] \in Nat
  BY Sets, SMT DEF DispatchTypes, SetupTyped, Memset, Cleared
<1>1. CASE Gate(p) \/ EndBody(p) \/ CopyOut(p)
  <2>1. UNCHANGED <<added, sent, sender, flying, published, reduction, notify, call>>
    BY <1>1 DEF Gate, EndBody, CopyOut, counts, copies
  <2>2. \/ at[p] = "gate" /\ at'[p] = "idle"
        \/ at[p] = "body" /\ at'[p] = "exit" /\ notify[p] = "done" /\ flying[p] = {}
        \/ at[p] = "copy" /\ at'[p] = "idle"
    BY <1>1 DEF Gate, EndBody, CopyOut, GridDone, Goto, DispatchTypes, SetupTyped
  <2>. QED BY <2>1, <2>2 DEF NotifyInv, PerRank
<1>2. CASE Launch(p)
  <2>1. /\ added'[p] = {} /\ notify'[p] = "add" /\ published'[p] = {} /\ sent'[p] = {}
        /\ sender'[p] = PerRank(0) /\ at[p] = "idle" /\ at'[p] = "entry" /\ flying' = flying
    BY <1>2 DEF Launch, ResetSenders, Goto, DispatchTypes, SetupTyped, SumTyped, WordTyped, CopyTyped
  <2>. QED BY <2>1 DEF NotifyInv, PerRank
<1>3. CASE NvlinkPass(p)
  <2>1. UNCHANGED <<added, sent, sender, flying, published, reduction, notify, call>>
    BY <1>3 DEF NvlinkPass, counts, copies
  <2>2. \/ at[p] = "entry" /\ at'[p] = "body"
        \/ at[p] = "exit" /\ at'[p] = "copy"
    BY <1>3 DEF NvlinkPass, Pass, Goto, DispatchTypes, SetupTyped, Inside
  <2>. QED BY <2>1, <2>2 DEF NotifyInv, PerRank
<1>4. ASSUME NEW s \in SM, NotifyAdd(p, s) PROVE NotifyInv(p)'
  <2>1. /\ at[p] = "body" /\ s \notin added[p] /\ added'[p] = added[p] \cup {s}
        /\ UNCHANGED <<at, call, notify, published, sent, sender, flying>>
    BY <1>4 DEF NotifyAdd, setup, copies, DispatchTypes, SumTyped
  <2>2. call[p] # 0
    BY <2>1 DEF Inside
  <2>3. notify[p] = "add"
    BY <2>1, <2>2 DEF NotifyInv
  <2>. QED BY <2>1, <2>3 DEF NotifyInv
<1>5. CASE NotifyTake(p)
  <2>1. /\ at[p] = "body" /\ notify[p] = "add" /\ notify'[p] = "publish" /\ reduction'[p] = Nothing
        /\ reduction[p].sms = NUM_SMS
        /\ UNCHANGED <<at, call, added, published, sent, sender, flying>>
    BY <1>5 DEF NotifyTake, AllAdded, setup, copies, DispatchTypes, SumTyped, WordTyped
  <2>2. call[p] \in 1 .. CALLS
    BY <2>1, Sets, SMT DEF Inside, DispatchTypes, SetupTyped
  <2>3. Cardinality(added[p]) = Cardinality(SM)
    BY <2>1, <2>2, Sets DEF SumInv
  <2>4. added[p] = SM
    BY <2>3, Sets, FS_Subset DEF DispatchTypes, SumTyped
  <2>. QED BY <2>1, <2>4 DEF NotifyInv, Nothing, PerRank
<1>6. ASSUME NEW q \in Rank, Publish(p, q) \/ CollectCount(p, q) PROVE NotifyInv(p)'
  <2>1. /\ notify[p] \in {"publish", "collect"} /\ notify'[p] \in {"publish", "collect", "done"}
        /\ UNCHANGED <<at, call, added, reduction, sent, sender, flying>>
    BY <1>6 DEF Publish, CollectCount, setup, copies, DispatchTypes, WordTyped
  <2>. QED BY <2>1 DEF NotifyInv, Nothing, PerRank
<1>7. CASE Land(p) \/ \E t \in Token : Send(p, t)
  <2>1. at[p] = "body" /\ UNCHANGED <<at, call, added, reduction, notify, published>>
    BY <1>7 DEF Land, Send, setup, counts, NotifyInv
  <2>. QED BY <2>1 DEF NotifyInv, Nothing, PerRank
<1>8. CASE UNCHANGED <<at, call, added, reduction, notify, published, sent, sender, flying>>
  BY <1>8 DEF NotifyInv, Nothing, PerRank
<1>. QED BY <1>0, <1>1, <1>2, <1>3, <1>4, <1>5, <1>6, <1>7, <1>8
         DEF RankNext, NvlinkEnter, NvlinkTell, NvlinkCount, setup, counts, copies

(* The counts of one more SM: its tokens are none of those added before.      *)
LEMMA AddedMore ==
  ASSUME DispatchTypes, NEW p \in Rank, NEW q \in Rank, NEW s \in SM, NotifyAdd(p, s), s \notin added[p]
  PROVE  Cardinality(AddedFor(p, q, call[p])') = Cardinality(AddedFor(p, q, call[p])) + Cardinality(OfSm(p, q, s))
<1>1. added'[p] = added[p] \cup {s} /\ UNCHANGED <<route, call>>
  BY DEF NotifyAdd, setup, DispatchTypes, SumTyped
<1>2. AddedFor(p, q, call[p])' = AddedFor(p, q, call[p]) \cup OfSm(p, q, s)
  BY <1>1 DEF AddedFor, OfSm, For
<1>3. AddedFor(p, q, call[p]) \cap OfSm(p, q, s) = {}
  BY DEF AddedFor, OfSm
<1>4. IsFiniteSet(AddedFor(p, q, call[p])) /\ IsFiniteSet(OfSm(p, q, s))
  <2>1. AddedFor(p, q, call[p]) \in SUBSET Token /\ OfSm(p, q, s) \in SUBSET Token
    BY DEF AddedFor, OfSm, For
  <2>. QED BY <2>1, Sets, FS_Subset
<1>. DEFINE A == AddedFor(p, q, call[p])
            B == OfSm(p, q, s)
<1>5. Cardinality(A) \in Nat /\ Cardinality(B) \in Nat
  BY <1>4, CardNat
<1>. HIDE DEF A, B
<1>6. Cardinality(A \cup B) = Cardinality(A) + Cardinality(B)
  <2>1. Cardinality(A \cup B) = Cardinality(A) + Cardinality(B) - Cardinality(A \cap B)
    BY <1>4, FS_Union DEF A, B
  <2>2. Cardinality(A \cap B) = 0
    BY <1>3, FS_EmptySet DEF A, B
  <2>. QED BY <1>5, <2>1, <2>2, SMT
<1>. QED BY <1>2, <1>6 DEF A, B

LEMMA SumStep ==
  ASSUME DispatchTypes, Inside, Cleared, NEW p \in Rank, RankNext(p), NotifyInv(p), SumInv(p)
  PROVE  SumInv(p)'
<1>0. ~Memset(p) /\ route' = route
  <2>1. ~Memset(p)
    BY DEF Memset, Cleared
  <2>2. route' = route
    BY <2>1 DEF RankNext, Gate, Launch, NvlinkEnter, NvlinkTell, NvlinkCount, NvlinkPass, setup,
                NotifyAdd, NotifyTake, Publish, CollectCount, Send, Land, EndBody, CopyOut
  <2>. QED BY <2>1, <2>2
<1>1. CASE Launch(p)
  <2>1. /\ added'[p] = {} /\ notify'[p] = "add" /\ reduction' = reduction /\ reduction[p] = Nothing
    BY <1>1 DEF Launch, NotifyInv, DispatchTypes, SumTyped, WordTyped
  <2>2. \A q \in Rank : \A n : AddedFor(p, q, n)' = {}
    BY <2>1 DEF AddedFor
  <2>3. Nothing.sms = 0 /\ \A q \in Rank : Nothing.count[q] = 0
    BY DEF Nothing, PerRank
  <2>. QED BY <2>1, <2>2, <2>3, FS_EmptySet DEF SumInv
<1>2. ASSUME NEW s \in SM, NotifyAdd(p, s) PROVE SumInv(p)'
  <2>1. /\ at[p] = "body" /\ s \notin added[p] /\ added'[p] = added[p] \cup {s}
        /\ UNCHANGED <<call, notify>>
        /\ reduction'[p].sms = reduction[p].sms + 1
        /\ \A q \in Rank : reduction'[p].count[q] = reduction[p].count[q] + Cardinality(OfSm(p, q, s))
    BY <1>2 DEF NotifyAdd, setup, DispatchTypes, SumTyped
  <2>2. notify[p] = "add" /\ call[p] \in 1 .. CALLS
    <3>1. call[p] # 0
      BY <2>1 DEF Inside
    <3>2. call[p] \in 1 .. CALLS
      BY <3>1, Sets, SMT DEF DispatchTypes, SetupTyped
    <3>. QED BY <2>1, <3>1, <3>2 DEF NotifyInv
  <2>3. /\ reduction[p].sms = Cardinality(added[p])
        /\ \A q \in Rank : reduction[p].count[q] = Cardinality(AddedFor(p, q, call[p]))
    BY <2>2 DEF SumInv
  <2>4. Cardinality(added[p] \cup {s}) = Cardinality(added[p]) + 1
    <3>1. IsFiniteSet(added[p])
      BY Sets, FS_Subset DEF DispatchTypes, SumTyped
    <3>. QED BY <2>1, <3>1, FS_AddElement
  <2>5. ASSUME NEW q \in Rank
        PROVE  reduction'[p].count[q] = Cardinality(AddedFor(p, q, call[p])')
    <3>1. Cardinality(AddedFor(p, q, call[p])') = Cardinality(AddedFor(p, q, call[p])) + Cardinality(OfSm(p, q, s))
      BY <1>2, <2>1, AddedMore
    <3>. QED BY <2>1, <2>3, <3>1
  <2>. SUFFICES ASSUME NEW n \in 1 .. CALLS, call'[p] = n
                PROVE  /\ notify'[p] = "add" => /\ reduction'[p].sms = Cardinality(added'[p])
                                                /\ \A q \in Rank : reduction'[p].count[q] = Cardinality(AddedFor(p, q, n)')
                       /\ notify'[p] = "publish" => \A q \in Rank : total'[p][q] = Cardinality(Due(p, q, n)')
    BY DEF SumInv
  <2>6. n = call[p] /\ notify'[p] = "add"
    BY <2>1, <2>2
  <2>7. \A q \in Rank : AddedFor(p, q, n)' = AddedFor(p, q, call[p])'
    BY <2>1, <2>6 DEF AddedFor
  <2>. QED BY <2>1, <2>3, <2>4, <2>5, <2>6, <2>7
<1>3. CASE NotifyTake(p)
  <2>1. /\ at[p] = "body" /\ notify[p] = "add" /\ notify'[p] = "publish"
        /\ reduction[p].sms = NUM_SMS /\ total'[p] = reduction[p].count
        /\ UNCHANGED <<call, added>>
    BY <1>3 DEF NotifyTake, AllAdded, setup, DispatchTypes, SumTyped, WordTyped
  <2>. SUFFICES ASSUME NEW n \in 1 .. CALLS, call[p] = n
                PROVE  \A q \in Rank : total'[p][q] = Cardinality(Due(p, q, n)')
    BY <2>1 DEF SumInv
  <2>2. Cardinality(added[p]) = Cardinality(SM)
        /\ \A q \in Rank : reduction[p].count[q] = Cardinality(AddedFor(p, q, n))
    BY <2>1, Sets DEF SumInv
  <2>3. added[p] = SM
    BY <2>2, Sets, FS_Subset DEF DispatchTypes, SumTyped
  <2>4. \A q \in Rank : AddedFor(p, q, n) = Due(p, q, n)' 
    BY <1>0, <2>3, Sets DEF AddedFor, Due
  <2>. QED BY <2>1, <2>2, <2>4
<1>4. ASSUME NEW q \in Rank, Publish(p, q) \/ CollectCount(p, q) PROVE SumInv(p)'
  <2>1. /\ notify'[p] # "add"
        /\ notify'[p] = "publish" => notify[p] = "publish"
        /\ UNCHANGED <<call, added, reduction, total>>
    BY <1>4 DEF Publish, CollectCount, setup, DispatchTypes, WordTyped
  <2>. QED BY <1>0, <2>1 DEF SumInv, AddedFor, Due
<1>5. CASE UNCHANGED <<call, added, reduction, total, notify>>
  BY <1>0, <1>5 DEF SumInv, AddedFor, Due
<1>. QED BY <1>0, <1>1, <1>2, <1>3, <1>4, <1>5
         DEF RankNext, Gate, NvlinkEnter, NvlinkTell, NvlinkCount, NvlinkPass, Land, Send, EndBody, CopyOut,
             setup, counts

LEMMA RanksStep ==
  ASSUME DispatchTypes, Inside, SetupInv, Cleared, RanksInv, [Next]_vars
  PROVE  RanksInv'
<1>1. CASE Stop \/ UNCHANGED vars
  BY <1>1 DEF Stop, vars, barrierVars, setup, counts, copies, RanksInv, RankInv, CountInv, Passed, NotifyInv,
              SumInv, AddedFor, Due, Nothing, PerRank
<1>2. ASSUME NEW p \in Rank, RankNext(p), NEW r \in Rank PROVE RankInv(r)'
  <2>1. CASE r = p
    BY <1>2, <2>1, CountStep, NotifyStep, SumStep DEF RanksInv, RankInv
  <2>2. CASE r # p
    <3>1. RankInv(r)
      BY DEF RanksInv
    <3>2. CountInv(r)'
      BY <1>2, <2>2, <3>1, OthersKept DEF RankInv, CountInv, Passed
    <3>3. NotifyInv(r)'
      BY <1>2, <2>2, <3>1, OthersKept DEF RankInv, NotifyInv, Nothing, PerRank
    <3>4. SumInv(r)'
      BY <1>2, <2>2, <3>1, OthersKept DEF RankInv, SumInv, AddedFor, Due
    <3>. QED BY <3>2, <3>3, <3>4 DEF RankInv
  <2>. QED BY <2>1, <2>2
<1>. QED BY <1>1, <1>2 DEF Next, RanksInv

(* The word of sender q at receiver r.                                       *)
LEMMA WordFramed ==
  ASSUME NEW r \in Rank, NEW q \in Rank, WordInv(r, q), route' = route, call'[r] = call[r], call'[q] = call[q],
         Told(q, r)' = Told(q, r), Heard(r, q)' = Heard(r, q),
         inbox'[r][q] = inbox[r][q], psum'[r][q] = psum[r][q]
  PROVE  WordInv(r, q)'
<1>1. \A n : Due(q, r, n)' = Due(q, r, n)
  BY DEF Due
<1>. QED BY <1>1 DEF WordInv

(* A rank between two calls has heard all its peers, and is ahead of none.    *)
LEMMA LaunchWord ==
  ASSUME DispatchTypes, Inside, BarrierInv, RanksInv, NEW p \in Rank, Launch(p),
         NEW r \in Rank, NEW q \in Rank, p \in {q, r}, WordInv(r, q)
  PROVE  WordInv(r, q)'
<1>1. /\ at[p] = "idle" /\ call'[p] = call[p] + 1 /\ notify'[p] = "add" /\ notify[p] = "done"
      /\ UNCHANGED <<route, inbox, psum>>
      /\ \A x \in Rank : x # p => call'[x] = call[x] /\ notify'[x] = notify[x] /\ published'[x] = published[x]
  BY DEF Launch, DispatchTypes, SetupTyped, WordTyped, RanksInv, RankInv, NotifyInv
<1>2. /\ call[q] \in Nat /\ call[r] \in Nat /\ call[q] >= call[p] /\ call[r] >= call[p]
      /\ Kernel1(q) => q # p /\ call[q] > call[p]
      /\ Kernel1(r) => r # p /\ call[r] > call[p]
  <2>1. ~Kernel1(p)
    BY <1>1 DEF Kernel1
  <2>. QED BY <1>1, <2>1, Apart
<1>3. notify[q] # "done" => Kernel1(q)
  BY DEF RanksInv, RankInv, NotifyInv, Kernel1
<1>4. notify[r] # "done" => Kernel1(r)
  BY DEF RanksInv, RankInv, NotifyInv, Kernel1
<1>5. inbox[r][q] = 0
  <2>. SUFFICES ASSUME call[q] = call[r] PROVE Heard(r, q) \/ ~Told(q, r)
    BY DEF WordInv
  <2>1. CASE p = r
    BY <1>1, <2>1 DEF Heard
  <2>2. CASE p = q
    <3>1. ~Kernel1(r)
      BY <1>2, <2>2, SMT
    <3>. QED BY <1>4, <3>1 DEF Heard
  <2>. QED BY <2>1, <2>2
<1>6. \A n : Due(q, r, n)' = Due(q, r, n)
  BY <1>1 DEF Due
<1>7. CASE p = r
  <2>1. ~Heard(r, q)'
    BY <1>1, <1>7 DEF Heard
  <2>2. ~(call'[q] = call'[r] /\ Told(q, r)')
    <3>1. CASE q = r
      BY <1>1, <1>7, <3>1 DEF Told
    <3>2. CASE q # r /\ call[q] = call[r] + 1
      <4>1. at[q] = "entry"
        <5>1. at[q] # "entry" => call[r] >= call[q]
          BY Apart
        <5>. QED BY <1>2, <3>2, <5>1, SMT
      <4>2. notify[q] = "add"
        BY <4>1 DEF RanksInv, RankInv, NotifyInv
      <4>. QED BY <1>1, <1>7, <3>2, <4>2 DEF Told
    <3>. QED BY <1>1, <1>7, <3>1, <3>2
  <2>. QED BY <1>1, <1>5, <2>1, <2>2 DEF WordInv
<1>8. CASE p = q /\ q # r
  <2>1. ~Told(q, r)'
    BY <1>1, <1>8 DEF Told
  <2>2. Heard(r, q)' = Heard(r, q) /\ call'[r] = call[r]
    BY <1>1, <1>8 DEF Heard
  <2>3. ~(call'[q] = call[r] /\ Heard(r, q))
    <3>. SUFFICES ASSUME call[r] = call[q] + 1 PROVE ~Heard(r, q)
      BY <1>1, <1>8
    <3>1. at[r] = "entry"
      <4>1. at[r] # "entry" => call[q] >= call[r]
        BY Apart
      <4>. QED BY <1>2, <4>1, SMT
    <3>2. notify[r] = "add"
      BY <3>1 DEF RanksInv, RankInv, NotifyInv
    <3>. QED BY <3>2 DEF Heard
  <2>. QED BY <1>1, <1>5, <1>6, <2>1, <2>2, <2>3 DEF WordInv
<1>. QED BY <1>7, <1>8

LEMMA PublishWord ==
  ASSUME DispatchTypes, Inside, BarrierInv, RanksInv, NEW r \in Rank, NEW q \in Rank, Publish(q, r), WordInv(r, q)
  PROVE  WordInv(r, q)'
<1>1. /\ notify[q] = "publish" /\ r \notin published[q]
      /\ inbox'[r][q] = Encoded(total[q][r]) /\ published'[q] = published[q] \cup {r}
      /\ notify'[q] = (IF published'[q] = Rank THEN "collect" ELSE "publish")
      /\ UNCHANGED <<route, call, psum>>
      /\ q # r => notify'[r] = notify[r] /\ published'[r] = published[r]
  BY DEF Publish, setup, DispatchTypes, WordTyped
<1>2. at[q] = "body"
  BY <1>1 DEF RanksInv, RankInv, NotifyInv
<1>3. ~Told(q, r) /\ Told(q, r)'
  BY <1>1 DEF Told
<1>4. call[q] = call[r] /\ call[q] \in 1 .. CALLS
  <2>1. call[r] >= call[q] /\ call[q] \in Nat /\ call[r] \in Nat
    BY <1>2, Apart
  <2>2. call[q] >= call[r]
    <3>1. Kernel1(q)
      BY <1>2 DEF Kernel1
    <3>2. at[r] # "entry" => call[q] >= call[r]
      BY Apart
    <3>3. at[r] = "entry" /\ Kernel1(q) => call[q] >= call[r]
      BY Apart
    <3>. QED BY <3>1, <3>2, <3>3
  <2>3. call[q] # 0
    BY <1>2 DEF Inside
  <2>. QED BY <2>1, <2>2, <2>3, Sets, SMT DEF DispatchTypes, SetupTyped
<1>5. ~Heard(r, q)
  BY <1>3, <1>4 DEF WordInv
<1>6. ~Heard(r, q)'
  <2>1. CASE q # r
    BY <1>1, <1>5, <2>1 DEF Heard
  <2>2. CASE q = r
    BY <1>1, <2>2 DEF Heard
  <2>. QED BY <2>1, <2>2
<1>7. total[q][r] = Cardinality(Due(q, r, call[q]))
  BY <1>1, <1>4 DEF RanksInv, RankInv, SumInv
<1>8. \A n : Due(q, r, n)' = Due(q, r, n)
  BY <1>1 DEF Due
<1>. QED BY <1>1, <1>3, <1>4, <1>6, <1>7, <1>8 DEF WordInv

LEMMA CollectWord ==
  ASSUME DispatchTypes, Inside, RanksInv, NEW r \in Rank, NEW q \in Rank, CollectCount(r, q), WordInv(r, q)
  PROVE  WordInv(r, q)'
<1>1. /\ notify[r] = "collect" /\ q \in published[r]
      /\ Decoded(inbox[r][q]) >= 0 /\ psum'[r][q] = Decoded(inbox[r][q]) /\ inbox'[r][q] = 0
      /\ published'[r] = published[r] \ {q} 
      /\ notify'[r] = (IF published'[r] = {} THEN "done" ELSE "collect")
      /\ UNCHANGED <<route, call>>
      /\ q # r => notify'[q] = notify[q] /\ published'[q] = published[q]
  BY DEF CollectCount, setup, DispatchTypes, WordTyped
<1>2. ~Heard(r, q) /\ Heard(r, q)'
  BY <1>1 DEF Heard
<1>3. inbox[r][q] # 0
  BY <1>1, SMT DEF Decoded
<1>4. call[q] = call[r] /\ Told(q, r)
  BY <1>3 DEF WordInv
<1>5. Told(q, r)'
  <2>1. CASE q # r
    BY <1>1, <1>4, <2>1 DEF Told
  <2>2. CASE q = r
    BY <1>1, <2>2 DEF Told
  <2>. QED BY <2>1, <2>2
<1>6. \A n : Due(q, r, n)' = Due(q, r, n)
  BY <1>1 DEF Due
<1>7. ASSUME NEW n \in 1 .. CALLS, call[r] = n PROVE psum'[r][q] = Cardinality(Due(q, r, n))
  <2>1. inbox[r][q] = Encoded(Cardinality(Due(q, r, n)))
    BY <1>2, <1>4, <1>7 DEF WordInv
  <2>2. Cardinality(Due(q, r, n)) \in Nat
    <3>1. Due(q, r, n) \in SUBSET Token
      BY DEF Due
    <3>. QED BY <3>1, Sets, CardNat, FS_Subset
  <2>. QED BY <1>1, <2>1, <2>2, SMT DEF Encoded, Decoded
<1>. QED BY <1>1, <1>2, <1>4, <1>5, <1>6, <1>7 DEF WordInv

LEMMA WordStep ==
  ASSUME DispatchTypes, Inside, Cleared, BarrierInv, RanksInv, NEW p \in Rank, RankNext(p),
         NEW r \in Rank, NEW q \in Rank, WordInv(r, q)
  PROVE  WordInv(r, q)'
<1>0. ~Memset(p)
  BY DEF Memset, Cleared
<1>1. CASE Launch(p)
  <2>1. CASE p \in {q, r}
    BY <1>1, <2>1, LaunchWord
  <2>2. CASE p \notin {q, r}
    <3>1. inbox' = inbox /\ psum' = psum /\ route' = route
      BY <1>1 DEF Launch
    <3>2. Told(q, r)' = Told(q, r) /\ Heard(r, q)' = Heard(r, q) /\ call'[q] = call[q] /\ call'[r] = call[r]
      BY <2>2, OthersKept DEF Told, Heard
    <3>. QED BY <3>1, <3>2, WordFramed
  <2>. QED BY <2>1, <2>2
<1>2. CASE NotifyTake(p)
  <2>1. /\ notify[p] = "add" /\ published[p] = {} /\ UNCHANGED <<route, call, published, inbox, psum>>
        /\ notify' = [notify EXCEPT ![p] = "publish"]
    BY <1>2 DEF NotifyTake, setup, RanksInv, RankInv, NotifyInv
  <2>2. Told(q, r)' = Told(q, r) /\ Heard(r, q)' = Heard(r, q)
    BY <2>1 DEF Told, Heard, DispatchTypes, WordTyped
  <2>. QED BY <2>1, <2>2, WordFramed
<1>3. ASSUME NEW x \in Rank, Publish(p, x) PROVE WordInv(r, q)'
  <2>1. CASE p = q /\ x = r
    BY <1>3, <2>1, PublishWord
  <2>2. CASE ~(p = q /\ x = r)
    <3>1. /\ notify[p] = "publish" /\ x \notin published[p]
          /\ published'[p] = published[p] \cup {x}
          /\ notify'[p] = (IF published'[p] = Rank THEN "collect" ELSE "publish")
          /\ inbox'[r][q] = inbox[r][q]
          /\ UNCHANGED <<route, call, psum>>
          /\ \A y \in Rank : y # p => notify'[y] = notify[y] /\ published'[y] = published[y]
      BY <1>3, <2>2 DEF Publish, setup, DispatchTypes, WordTyped
    <3>2. Told(q, r)' = Told(q, r)
      <4>1. CASE p = q
        BY <2>2, <3>1, <4>1 DEF Told
      <4>2. CASE p # q
        BY <3>1, <4>2 DEF Told
      <4>. QED BY <4>1, <4>2
    <3>3. Heard(r, q)' = Heard(r, q)
      BY <3>1 DEF Heard
    <3>. QED BY <3>1, <3>2, <3>3, WordFramed
  <2>. QED BY <2>1, <2>2
<1>4. ASSUME NEW x \in Rank, CollectCount(p, x) PROVE WordInv(r, q)'
  <2>1. CASE p = r /\ x = q
    BY <1>4, <2>1, CollectWord
  <2>2. CASE ~(p = r /\ x = q)
    <3>1. /\ notify[p] = "collect" /\ x \in published[p]
          /\ published'[p] = published[p] \ {x}
          /\ notify'[p] = (IF published'[p] = {} THEN "done" ELSE "collect")
          /\ inbox'[r][q] = inbox[r][q] /\ psum'[r][q] = psum[r][q]
          /\ UNCHANGED <<route, call>>
          /\ \A y \in Rank : y # p => notify'[y] = notify[y] /\ published'[y] = published[y]
      BY <1>4, <2>2 DEF CollectCount, setup, DispatchTypes, WordTyped
    <3>2. Told(q, r)' = Told(q, r)
      BY <3>1 DEF Told
    <3>3. Heard(r, q)' = Heard(r, q)
      <4>1. CASE p = r
        BY <2>2, <3>1, <4>1 DEF Heard
      <4>2. CASE p # r
        BY <3>1, <4>2 DEF Heard
      <4>. QED BY <4>1, <4>2
    <3>. QED BY <3>1, <3>2, <3>3, WordFramed
  <2>. QED BY <2>1, <2>2
<1>5. CASE UNCHANGED <<route, call, notify, published, inbox, psum>>
  <2>1. Told(q, r)' = Told(q, r) /\ Heard(r, q)' = Heard(r, q)
    BY <1>5 DEF Told, Heard
  <2>. QED BY <1>5, <2>1, WordFramed
<1>. QED BY <1>0, <1>1, <1>2, <1>3, <1>4, <1>5
         DEF RankNext, Gate, NvlinkEnter, NvlinkTell, NvlinkCount, NvlinkPass, NotifyAdd, Land, Send, EndBody,
             CopyOut, setup, counts

(* The region that receiver r keeps for sender q.                            *)
LEMMA RegionFramed ==
  ASSUME NEW r \in Rank, NEW q \in Rank, RegionInv(r, q), route' = route, at'[q] = at[q], call'[q] = call[q],
         sender'[q] = sender[q], sent'[q] = sent[q], flying'[q] = flying[q], region'[r][q] = region[r][q]
  PROVE  RegionInv(r, q)'
<1>1. \A n : Gone(q, r, n)' = Gone(q, r, n) /\ Due(q, r, n)' = Due(q, r, n)
  BY DEF Gone, Due
<1>2. \A i : InAir(q, r, i)' = InAir(q, r, i)
  BY DEF InAir
<1>3. \A n : SlotInv(r, q, n)' = SlotInv(r, q, n)
  BY <1>1, <1>2 DEF SlotInv
<1>4. \A n : Holds(r, q, n)' = Holds(r, q, n)
  BY <1>1 DEF Holds
<1>. QED BY <1>3, <1>4 DEF RegionInv, Behind

LEMMA GoneFacts ==
  ASSUME DispatchTypes, NEW q \in Rank, NEW r \in Rank, NEW n
  PROVE  /\ IsFiniteSet(Gone(q, r, n)) /\ Gone(q, r, n) \subseteq Token
         /\ Cardinality(Gone(q, r, n)) \in Nat /\ Cardinality(Gone(q, r, n)) <= NUM_TOKENS
<1>. DEFINE G == Gone(q, r, n)
<1>1. G \subseteq Token
  BY DEF Gone, DispatchTypes, CopyTyped
<1>. HIDE DEF G
<1>2. IsFiniteSet(G) /\ Cardinality(G) <= NUM_TOKENS
  BY <1>1, Sets, FS_Subset
<1>. QED BY <1>1, <1>2, CardNat DEF G

LEMMA SendSlot ==
  ASSUME DispatchTypes, NEW r \in Rank, NEW q \in Rank, NEW t \in Token, Send(q, t), SlotInv(r, q, call[q])
  PROVE  SlotInv(r, q, call[q])'
<1>. DEFINE n == call[q]
            to == route[q][n][t]
            k == sender[q][r]
<1>1. /\ t \notin sent[q] /\ sent'[q] = sent[q] \cup {t}
      /\ sender'[q][r] = k + (IF r \in to THEN 1 ELSE 0)
      /\ flying'[q] = flying[q] \cup {<<t, x, sender[q][x]>> : x \in to}
      /\ UNCHANGED <<route, call, region>>
  BY DEF Send, setup, DispatchTypes, CopyTyped
<1>2. \A u \in Token, i \in Int : <<u, r, i>> \in flying'[q] <=>
        <<u, r, i>> \in flying[q] \/ (u = t /\ r \in to /\ i = k)
  BY <1>1
<1>3. n' = n /\ region'[r][q] = region[r][q]
  BY <1>1
<1>4. k = Cardinality(Gone(q, r, n)) /\ k \in Nat
  BY GoneFacts DEF SlotInv
<1>5. Gone(q, r, n)' = IF r \in to THEN Gone(q, r, n) \cup {t} ELSE Gone(q, r, n)
  BY <1>1 DEF Gone
<1>. HIDE DEF to, k
<1>6. sender'[q][r] = Cardinality(Gone(q, r, n)')
  <2>1. CASE r \in to
    <3>. DEFINE old == Gone(q, r, n)
    <3>1. t \notin old
      BY <1>1 DEF Gone
    <3>2. IsFiniteSet(old)
      BY GoneFacts
    <3>3. Gone(q, r, n)' = old \cup {t} /\ k = Cardinality(old) /\ sender'[q][r] = k + 1
      BY <1>1, <1>4, <1>5, <2>1
    <3>. HIDE DEF old
    <3>4. Cardinality(old \cup {t}) = Cardinality(old) + 1
      BY <3>1, <3>2, FS_AddElement
    <3>. QED BY <3>3, <3>4
  <2>2. CASE r \notin to
    BY <1>1, <1>4, <1>5, <2>2, SMT
  <2>. QED BY <2>1, <2>2
<1>7. \A i \in Int : InAir(q, r, i)' <=> InAir(q, r, i) \/ (r \in to /\ i = k)
  BY <1>2 DEF InAir
<1>8. /\ \A u \in Token, i \in Int : <<u, r, i>> \in flying[q] => u \in Gone(q, r, n) /\ i \in 0 .. k - 1
      /\ \A u, v \in Token, i \in Int : <<u, r, i>> \in flying[q] /\ <<v, r, i>> \in flying[q] => u = v
      /\ \A i \in 0 .. k - 1 : InAir(q, r, i) \/ \E u \in Gone(q, r, n) : region[r][q][i] = <<n, u>>
      /\ \A u \in Gone(q, r, n) : \E i \in 0 .. k - 1 :
           <<u, r, i>> \in flying[q] \/ (region[r][q][i] = <<n, u>> /\ ~InAir(q, r, i))
  BY DEF SlotInv, k
<1>. DEFINE m == sender'[q][r]
            G == Gone(q, r, n)'
<1>9. /\ m = k + (IF r \in to THEN 1 ELSE 0)
      /\ G = IF r \in to THEN Gone(q, r, n) \cup {t} ELSE Gone(q, r, n)
  BY <1>1, <1>5
<1>. HIDE DEF m, G, n
<1>10. \A u \in Token, i \in Int : <<u, r, i>> \in flying'[q] => u \in G /\ i \in 0 .. m - 1
  BY <1>2, <1>4, <1>8, <1>9, SMT
<1>11. \A u, v \in Token, i \in Int : <<u, r, i>> \in flying'[q] /\ <<v, r, i>> \in flying'[q] => u = v
  BY <1>2, <1>4, <1>8, SMT
<1>12. \A i \in 0 .. m - 1 : InAir(q, r, i)' \/ \E u \in G : region[r][q][i] = <<n, u>>
  BY <1>4, <1>7, <1>8, <1>9, SMT
<1>13. ASSUME NEW u \in G
       PROVE  \E i \in 0 .. m - 1 : <<u, r, i>> \in flying'[q] \/ (region[r][q][i] = <<n, u>> /\ ~InAir(q, r, i)')
  <2>1. CASE r \in to /\ u = t
    <3>1. k \in 0 .. m - 1 /\ <<u, r, k>> \in flying'[q]
      BY <1>2, <1>4, <1>9, <2>1, SMT
    <3>. QED BY <3>1
  <2>2. CASE ~(r \in to /\ u = t)
    <3>1. PICK i \in 0 .. k - 1 : <<u, r, i>> \in flying[q] \/ (region[r][q][i] = <<n, u>> /\ ~InAir(q, r, i))
      BY <1>8, <1>9, <2>2
    <3>2. i \in 0 .. m - 1 /\ i \in Int /\ i # k
      BY <1>4, <1>9, SMT
    <3>3. u \in Token
      BY <1>9, <2>2, GoneFacts
    <3>. QED BY <1>2, <1>7, <3>1, <3>2, <3>3
  <2>. QED BY <2>1, <2>2
<1>. QED BY <1>3, <1>6, <1>10, <1>11, <1>12, <1>13 DEF SlotInv, m, G, n

LEMMA LandSlot ==
  ASSUME DispatchTypes, NEW r \in Rank, NEW q \in Rank, Land(q), SlotInv(r, q, call[q])
  PROVE  SlotInv(r, q, call[q])'
<1>. DEFINE n == call[q]
            k == sender[q][r]
<1>1. PICK c \in flying[q] : /\ flying' = [flying EXCEPT ![q] = @ \ {c}]
                             /\ region' = [region EXCEPT ![c[2]][q][c[3]] = <<call[q], c[1]>>]
  BY DEF Land
<1>2. PICK a \in Token, x \in Rank, b \in Int : c = <<a, x, b>>
  BY DEF DispatchTypes, CopyTyped
<1>3. /\ UNCHANGED <<route, call, sender, sent>>
      /\ flying'[q] = flying[q] \ {<<a, x, b>>}
      /\ region' = [region EXCEPT ![x][q][b] = <<n, a>>]
  BY <1>1, <1>2 DEF Land, setup, DispatchTypes, CopyTyped
<1>4. Gone(q, r, n)' = Gone(q, r, n) /\ Gone(q, r, n) \subseteq Token /\ k \in Nat /\ k <= NUM_TOKENS
  <2>1. Gone(q, r, n)' = Gone(q, r, n)
    BY <1>3 DEF Gone
  <2>2. k = Cardinality(Gone(q, r, n))
    BY DEF SlotInv
  <2>. QED BY <2>1, <2>2, GoneFacts
<1>5. /\ k = Cardinality(Gone(q, r, n))
      /\ \A u \in Token, i \in Int : <<u, r, i>> \in flying[q] => u \in Gone(q, r, n) /\ i \in 0 .. k - 1
      /\ \A u, v \in Token, i \in Int : <<u, r, i>> \in flying[q] /\ <<v, r, i>> \in flying[q] => u = v
      /\ \A i \in 0 .. k - 1 : InAir(q, r, i) \/ \E u \in Gone(q, r, n) : region[r][q][i] = <<n, u>>
      /\ \A u \in Gone(q, r, n) : \E i \in 0 .. k - 1 :
           <<u, r, i>> \in flying[q] \/ (region[r][q][i] = <<n, u>> /\ ~InAir(q, r, i))
  BY DEF SlotInv
<1>8. n' = n /\ sender'[q][r] = k
  BY <1>3
<1>9. k = Cardinality(Gone(q, r, n))
  BY <1>5
<1>. HIDE DEF k, n
<1>6. CASE x # r
  <2>1. region'[r][q] = region[r][q]
    BY <1>3, <1>6 DEF DispatchTypes, CopyTyped
  <2>2. \A u, i : <<u, r, i>> \in flying'[q] <=> <<u, r, i>> \in flying[q]
    BY <1>3, <1>6
  <2>3. \A i : InAir(q, r, i)' <=> InAir(q, r, i)
    BY <2>2 DEF InAir
  <2>4. /\ \A u \in Token, i \in Int : <<u, r, i>> \in flying'[q] => u \in Gone(q, r, n) /\ i \in 0 .. k - 1
        /\ \A u, v \in Token, i \in Int : <<u, r, i>> \in flying'[q] /\ <<v, r, i>> \in flying'[q] => u = v
    BY <1>5, <2>2
  <2>5. \A i \in 0 .. k - 1 : InAir(q, r, i)' \/ \E u \in Gone(q, r, n) : region'[r][q][i] = <<n, u>>
    BY <1>5, <2>1, <2>3
  <2>6. \A u \in Gone(q, r, n) : \E i \in 0 .. k - 1 :
           <<u, r, i>> \in flying'[q] \/ (region'[r][q][i] = <<n, u>> /\ ~InAir(q, r, i)')
    BY <1>5, <2>1, <2>2, <2>3
  <2>. QED BY <1>4, <1>8, <1>9, <2>4, <2>5, <2>6 DEF SlotInv, n
<1>7. CASE x = r
  <2>1. <<a, r, b>> \in flying[q] /\ b \in 0 .. k - 1 /\ a \in Gone(q, r, n)
    BY <1>1, <1>2, <1>5, <1>7
  <2>2. 0 .. k - 1 \subseteq Token
    BY <1>4, DispatchAssumption, SMT DEF Token
  <2>3. \A i \in 0 .. k - 1 : region'[r][q][i] = IF i = b THEN <<n, a>> ELSE region[r][q][i]
    BY <1>3, <1>7, <2>1, <2>2 DEF DispatchTypes, CopyTyped
  <2>4. \A u, i : <<u, r, i>> \in flying'[q] <=> <<u, r, i>> \in flying[q] /\ ~(u = a /\ i = b)
    BY <1>3, <1>7
  <2>5. \A i \in 0 .. k - 1 : InAir(q, r, i)' <=> InAir(q, r, i) /\ i # b
    BY <1>5, <2>1, <2>4 DEF InAir
  <2>6. \A i \in 0 .. k - 1 : InAir(q, r, i)' \/ \E u \in Gone(q, r, n) : region'[r][q][i] = <<n, u>>
    BY <1>5, <2>1, <2>3, <2>5
  <2>7. ASSUME NEW u \in Gone(q, r, n)
        PROVE  \E i \in 0 .. k - 1 : <<u, r, i>> \in flying'[q] \/ (region'[r][q][i] = <<n, u>> /\ ~InAir(q, r, i)')
    <3>1. PICK i \in 0 .. k - 1 : <<u, r, i>> \in flying[q] \/ (region[r][q][i] = <<n, u>> /\ ~InAir(q, r, i))
      BY <1>5
    <3>2. InAir(q, r, b)
      BY <2>1 DEF InAir
    <3>. QED BY <2>3, <2>4, <2>5, <3>1, <3>2
  <2>8. /\ \A u \in Token, i \in Int : <<u, r, i>> \in flying'[q] => u \in Gone(q, r, n) /\ i \in 0 .. k - 1
        /\ \A u, v \in Token, i \in Int : <<u, r, i>> \in flying'[q] /\ <<v, r, i>> \in flying'[q] => u = v
    BY <1>5, <2>4
  <2>. QED BY <1>4, <1>8, <1>9, <2>6, <2>7, <2>8 DEF SlotInv, n
<1>. QED BY <1>6, <1>7

(* All sent and landed: the slots hold the tokens, each of them.             *)
LEMMA SlotsHold ==
  ASSUME NEW r \in Rank, NEW q \in Rank, NEW n, SlotInv(r, q, n), sent[q] = Token, flying[q] = {}
  PROVE  Holds(r, q, n)
<1>1. Gone(q, r, n) = Due(q, r, n) /\ \A i : ~InAir(q, r, i)
  BY DEF Gone, Due, InAir
<1>2. sender[q][r] = Cardinality(Due(q, r, n))
  BY <1>1 DEF SlotInv
<1>3. \A i \in 0 .. sender[q][r] - 1 : \E t \in Due(q, r, n) : region[r][q][i] = <<n, t>>
  BY <1>1 DEF SlotInv
<1>4. \A t \in Due(q, r, n) : \E i \in 0 .. sender[q][r] - 1 : region[r][q][i] = <<n, t>>
  BY <1>1 DEF SlotInv
<1>. QED BY <1>2, <1>3, <1>4 DEF Holds

LEMMA RegionStep ==
  ASSUME DispatchTypes, Inside, Cleared, RanksInv, NEW p \in Rank, RankNext(p),
         NEW r \in Rank, NEW q \in Rank, RegionInv(r, q)
  PROVE  RegionInv(r, q)'
<1>0. ~Memset(p) /\ call[q] \in Nat /\ route' = route
  <2>1. ~Memset(p)
    BY DEF Memset, Cleared
  <2>2. call[q] \in Nat
    BY Sets, SMT DEF DispatchTypes, SetupTyped
  <2>3. route' = route
    BY <2>1 DEF RankNext, Gate, Launch, NvlinkEnter, NvlinkTell, NvlinkCount, NvlinkPass, NotifyAdd, NotifyTake,
                Publish, CollectCount, Send, Land, EndBody, CopyOut, setup
  <2>. QED BY <2>1, <2>2, <2>3
<1>1. CASE p # q
  <2>1. region'[r][q] = region[r][q]
    <3>1. CASE Land(p)
      <4>1. PICK c : region' = [region EXCEPT ![c[2]][p][c[3]] = <<call[p], c[1]>>]
        BY <3>1 DEF Land
      <4>. QED BY <1>1, <4>1 DEF DispatchTypes, CopyTyped
    <3>2. CASE region' = region
      BY <3>2
    <3>. QED BY <1>0, <3>1, <3>2
             DEF RankNext, Gate, Launch, NvlinkEnter, NvlinkTell, NvlinkCount, NvlinkPass, NotifyAdd, NotifyTake,
                 Publish, CollectCount, Send, EndBody, CopyOut, copies
  <2>. QED BY <1>1, <2>1, OthersKept, RegionFramed
<1>2. CASE p = q /\ (Gate(q) \/ Launch(q) \/ CopyOut(q) \/ (NvlinkPass(q) /\ at[q] # "entry"))
  <2>1. region' = region /\ at[q] # "body" /\ at'[q] # "body"
    BY <1>2 DEF Gate, Launch, CopyOut, NvlinkPass, Pass, Goto, copies, DispatchTypes, SetupTyped, Inside
  <2>2. Behind(q)' = Behind(q)
    <3>1. CASE Launch(q)
      <4>1. at[q] = "idle" /\ at'[q] = "entry" /\ call'[q] = call[q] + 1
        BY <3>1 DEF Launch, Goto, DispatchTypes, SetupTyped
      <4>. QED BY <1>0, <4>1, SMT DEF Behind
    <3>2. CASE Gate(q) \/ CopyOut(q) \/ (NvlinkPass(q) /\ at[q] # "entry")
      <4>1. at[q] # "entry" /\ at'[q] # "entry" /\ call'[q] = call[q]
        BY <3>2 DEF Gate, CopyOut, NvlinkPass, Goto, DispatchTypes, SetupTyped
      <4>. QED BY <4>1 DEF Behind
    <3>. QED BY <1>2, <3>1, <3>2
  <2>3. \A n : Holds(r, q, n)' = Holds(r, q, n)
    BY <1>0, <2>1 DEF Holds, Due
  <2>. QED BY <2>1, <2>2, <2>3 DEF RegionInv
<1>3. CASE p = q /\ NvlinkPass(q) /\ at[q] = "entry"
  <2>1. /\ at'[q] = "body" /\ call' = call /\ UNCHANGED copies
        /\ sent[q] = {} /\ sender[q][r] = 0 /\ flying[q] = {}
    BY <1>3 DEF NvlinkPass, Goto, DispatchTypes, SetupTyped, RanksInv, RankInv, NotifyInv, PerRank
  <2>2. sent'[q] = {} /\ sender'[q][r] = 0 /\ flying'[q] = {}
    BY <2>1 DEF copies
  <2>3. \A n : Gone(q, r, n)' = {}
    BY <2>2 DEF Gone
  <2>4. 0 .. 0 - 1 = {}
    BY SMT
  <2>5. \A n \in 1 .. CALLS : SlotInv(r, q, n)'
    BY <2>2, <2>3, <2>4, FS_EmptySet DEF SlotInv
  <2>. QED BY <2>1, <2>5 DEF RegionInv
<1>4. CASE p = q /\ (Land(q) \/ \E t \in Token : Send(q, t))
  <2>1. at[q] = "body" /\ UNCHANGED setup
    BY <1>4 DEF Land, Send, RanksInv, RankInv, NotifyInv
  <2>2. call[q] \in 1 .. CALLS
    BY <2>1, Sets, SMT DEF Inside, DispatchTypes, SetupTyped
  <2>3. SlotInv(r, q, call[q])
    BY <2>1, <2>2 DEF RegionInv
  <2>4. SlotInv(r, q, call[q])'
    BY <1>4, <2>3, SendSlot, LandSlot
  <2>5. \A n \in 1 .. CALLS : call'[q] = n => SlotInv(r, q, n)'
    BY <2>4
  <2>. QED BY <2>1, <2>5 DEF RegionInv, setup
<1>5. CASE p = q /\ EndBody(q)
  <2>1. /\ at[q] = "body" /\ at'[q] = "exit" /\ sent[q] = Token /\ flying[q] = {}
        /\ UNCHANGED <<route, call, copies>>
    BY <1>5 DEF EndBody, GridDone, Goto, DispatchTypes, SetupTyped
  <2>2. call[q] \in 1 .. CALLS
    BY <2>1, Sets, SMT DEF Inside, DispatchTypes, SetupTyped
  <2>3. Holds(r, q, call[q])
    BY <2>1, <2>2, SlotsHold DEF RegionInv
  <2>4. Holds(r, q, call[q])' /\ Behind(q)' = call[q]
    BY <2>1, <2>3 DEF Holds, Due, Behind, copies
  <2>5. \A n \in 1 .. CALLS : Behind(q)' = n => Holds(r, q, n)'
    BY <2>1, <2>4 DEF Holds, Due
  <2>. QED BY <2>1, <2>5 DEF RegionInv
<1>6. CASE UNCHANGED <<route, call, at, copies>>
  BY <1>6, RegionFramed DEF copies
<1>. QED BY <1>0, <1>1, <1>2, <1>3, <1>4, <1>5, <1>6
         DEF RankNext, NvlinkEnter, NvlinkTell, NvlinkCount, NotifyAdd, NotifyTake, Publish, CollectCount, setup

LEMMA PairsStep ==
  ASSUME DispatchTypes, Inside, Cleared, BarrierInv, RanksInv, PairsInv, [Next]_vars
  PROVE  PairsInv'
<1>1. CASE Stop \/ UNCHANGED vars
  <2>. SUFFICES ASSUME NEW r \in Rank, NEW q \in Rank PROVE WordInv(r, q)' /\ RegionInv(r, q)'
    BY DEF PairsInv, PairInv
  <2>1. UNCHANGED vars /\ WordInv(r, q) /\ RegionInv(r, q)
    BY <1>1 DEF Stop, PairsInv, PairInv
  <2>2. WordInv(r, q)'
    BY <2>1, WordFramed DEF vars, setup, counts, Told, Heard
  <2>3. RegionInv(r, q)'
    BY <2>1, RegionFramed DEF vars, setup, copies
  <2>. QED BY <2>2, <2>3
<1>2. ASSUME NEW p \in Rank, RankNext(p), NEW r \in Rank, NEW q \in Rank PROVE PairInv(r, q)'
  <2>1. WordInv(r, q) /\ RegionInv(r, q)
    BY DEF PairsInv, PairInv
  <2>. QED BY <1>2, <2>1, WordStep, RegionStep DEF PairInv
<1>. QED BY <1>1, <1>2 DEF Next, PairsInv

LEMMA DispatchStart == Init => DispatchInv
<1>. SUFFICES ASSUME Init PROVE DispatchInv
  OBVIOUS
<1>1. DispatchTypes
  <2>1. BarrierTyped
    BY SMT DEF Init, BarrierTyped, PerRank, Junk
  <2>2. SetupTyped
    BY Sets, SMT DEF Init, SetupTyped, PerRank, Place
  <2>3. SumTyped
    BY SMT DEF Init, SumTyped, PerRank, Junk
  <2>4. WordTyped
    BY SMT DEF Init, WordTyped, PerRank, Junk
  <2>5. CopyTyped
    BY SMT DEF Init, CopyTyped, PerRank, Junk
  <2>. QED BY <2>1, <2>2, <2>3, <2>4, <2>5 DEF DispatchTypes
<1>2. Inside
  BY DEF Init, PerRank, Inside
<1>3. \A r \in Rank : Fresh(r) /\ at[r] = "clear"
  BY DEF Init, PerRank, Fresh
<1>4. SetupInv
  BY <1>3 DEF SetupInv
<1>5. Cleared => Rank = {}
  BY <1>3 DEF Cleared
<1>6. ASSUME Rank = {} PROVE BarrierInv /\ RanksInv /\ PairsInv
  BY <1>1, <1>6 DEF BarrierInv, Types, Spots, Counted, PassedAfterAll, RanksInv, PairsInv, DispatchTypes, BarrierTyped
<1>. QED BY <1>1, <1>2, <1>4, <1>5, <1>6 DEF DispatchInv

LEMMA DispatchStep == DispatchInv /\ [Next]_vars => DispatchInv'
<1>. SUFFICES ASSUME DispatchInv, [Next]_vars PROVE DispatchInv'
  OBVIOUS
<1>1. DispatchTypes' /\ Inside' /\ SetupInv'
  BY TypesStep, SetupStep DEF DispatchInv
<1>2. CASE Cleared
  BY <1>2, BarrierStep, RanksStep, PairsStep, <1>1 DEF DispatchInv
<1>3. CASE ~Cleared
  BY <1>3, StartStep, <1>1 DEF DispatchInv
<1>. QED BY <1>2, <1>3

LEMMA DispatchInvariant == Spec => []DispatchInv
BY DispatchStart, DispatchStep, PTL DEF Spec

(* A rank that is past its set-up has met the others there.                  *)
LEMMA Met ==
  ASSUME DispatchInv, NEW r \in Rank, at[r] \in {"idle", "copy"}
  PROVE  BarrierInv /\ RanksInv /\ PairsInv /\ DispatchTypes /\ Inside
BY DEF DispatchInv, SetupInv

(* While kernel 2 of a rank reads, its counts and the slots counted are those *)
(* of its call, every token sent to it once, for any number of ranks, SMs,   *)
(* tokens and calls (dispatch_copy_epilogue and the notify warps of           *)
(* dispatch.py).                                                             *)
THEOREM DispatchReceives == Spec => []ReceivedExactly
<1>1. DispatchInv => ReceivedExactly
  <2>. SUFFICES ASSUME DispatchInv, NEW r \in Rank, NEW q \in Rank, at[r] = "copy"
                PROVE  /\ psum[r][q] = Cardinality(Due(q, r, call[r]))
                       /\ {region[r][q][i] : i \in 0 .. psum[r][q] - 1} = {<<call[r], t>> : t \in Due(q, r, call[r])}
    BY DEF ReceivedExactly
  <2>1. BarrierInv /\ RanksInv /\ PairInv(r, q) /\ DispatchTypes /\ Inside
    BY Met DEF PairsInv
  <2>2. call[r] \in 1 .. CALLS /\ notify[r] = "done"
    BY <2>1, Sets, SMT DEF Inside, DispatchTypes, SetupTyped, RanksInv, RankInv, NotifyInv
  <2>3. psum[r][q] = Cardinality(Due(q, r, call[r]))
    BY <2>1, <2>2 DEF PairInv, WordInv, Heard
  <2>4. at[q] # "body" /\ Behind(q) = call[r]
    <3>1. call[q] >= call[r] /\ call[q] \in Nat /\ call[r] \in Nat
          /\ (Kernel1(q) => call[q] > call[r])
      BY <2>1, Apart
    <3>2. /\ at[q] # "entry" => call[r] >= call[q]
          /\ at[q] = "entry" => call[r] >= call[q] - 1
      BY <2>1, Apart
    <3>. QED BY <3>1, <3>2, SMT DEF Kernel1, Behind
  <2>5. Holds(r, q, call[r])
    BY <2>1, <2>2, <2>4 DEF PairInv, RegionInv
  <2>. QED BY <2>3, <2>5 DEF Holds
<1>. QED BY <1>1, DispatchInvariant, PTL

(* Between the kernels of a rank, its reduction, its count words and its      *)
(* copies are at rest: a peer that has begun the next call waits in the       *)
(* barrier that opens it (nvlink_barrier of dispatch.py).                     *)
THEOREM DispatchAtRest == Spec => []AtRest
<1>1. DispatchInv => AtRest
  <2>. SUFFICES ASSUME DispatchInv, NEW r \in Rank, at[r] \in {"idle", "copy"}
                PROVE  reduction[r] = Nothing /\ inbox[r] = PerRank(0) /\ flying[r] = {}
    BY DEF AtRest
  <2>1. RanksInv /\ PairsInv /\ DispatchTypes
    BY Met
  <2>2. notify[r] = "done" /\ reduction[r] = Nothing /\ flying[r] = {}
    BY <2>1 DEF RanksInv, RankInv, NotifyInv
  <2>3. \A q \in Rank : inbox[r][q] = 0
    BY <2>1, <2>2 DEF PairsInv, PairInv, WordInv, Heard
  <2>4. inbox[r] = PerRank(0)
    BY <2>1, <2>3 DEF DispatchTypes, WordTyped, PerRank
  <2>. QED BY <2>2, <2>4
<1>. QED BY <1>1, DispatchInvariant, PTL
=============================================================================
