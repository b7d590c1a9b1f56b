------------------------ MODULE GemmPipeline_proofs ------------------------
(***************************************************************************)
(* The hand-overs inside a cluster, for a ring of any depth, tasks of any    *)
(* number of whole laps, and any number of tasks. The packets come first,    *)
(* and need nothing else: nobody is more than one packet ahead of anybody    *)
(* (PacketInv). For the ring, whatever the turns of a thread in a task, its  *)
(* laps say how often it has been at each stage (Fill); copies announced,    *)
(* landed, read and freed are then counted per stage, and are never more     *)
(* than one apart (RingInv), as are the uses of an accumulator (TmemInv).    *)
(* What the tensor core has still to do are the last operations of one task, *)
(* on stages that differ (QueueInv). With the n tasks so far and the packets *)
(* pk that brought them (JobInv), that fixes the block each copy, stage and  *)
(* accumulator holds (BlocksInv, SumInv).                                   *)
(***************************************************************************)
EXTENDS GemmPipeline, FiniteSetTheorems, SequenceTheorems, TLAPS

(* Tasks fill their laps, as all the shapes the kernel is listed with do.    *)
WholeLaps == K_BLOCKS % PIPELINE_DEPTH = 0

Bar(t, p, x, n) == [turn |-> t, pending |-> p, tx |-> x, count |-> n]
Place == {"publish", "idle", "run", "expect", "acquire", "wait", "read", "left"}
AgentRecord == [place : Place, pos : Nat, laps : Nat, uses : Nat, packets : Nat]
Op == [op : {"mma"}, stage : Stage, first : BOOLEAN] \cup [op : {"free"}, stage : Stage] \cup [op : {"done"}]
PipelineTypes ==
  /\ shape \in Shapes /\ agent \in [Agent -> AgentRecord] /\ bar = [b \in Barrier |-> bar[b]]
  /\ packet \in [type : {"none", "GEMM", "RS", "exit"}, idx : Nat]
  /\ loading \in SUBSET (CTA \X Stage \X (Nat \X Nat))
  /\ smem = [c \in CTA |-> [s \in Stage |-> smem[c][s]]]
  /\ queue \in [Acc -> Seq(Op)] /\ acc = [i \in Acc |-> acc[i]]

tma(c) == <<"tma", c>>
mma(i) == <<"mma", i>>
con(c, i) == <<"con", c, i>>
Ring == {tma(c) : c \in CTA} \cup {mma(i) : i \in Acc}
At(a) == agent[a].place
Pos(a) == agent[a].pos
StageAt(p) == p % PIPELINE_DEPTH
St(a) == StageAt(Pos(a))
Laps(a) == agent[a].laps
Uses(a) == agent[a].uses
Got(a) == agent[a].packets

(* Packets: who has received the current one.                                *)
PlacesOf(a) ==
  CASE a = tma(0) -> {"publish", "idle", "run", "expect", "left"}
    [] a = tma(1) -> {"idle", "run", "left"}
    [] a[1] = "mma" -> {"idle", "acquire", "run", "left"}
    [] a[1] = "con" -> {"idle", "wait", "read", "left"}
    [] OTHER -> {"idle", "left"}
Receivers == {a \in Agent : Got(a) = packet.idx}
All == Cardinality(Agent)
PacketInv ==
  /\ \A a \in Agent : Got(a) \in {packet.idx - 1, packet.idx} /\ At(a) \in PlacesOf(a)
  /\ \A c \in CTA : bar[P2C(c)] = Bar(packet.idx, 1, 0, 1)
  /\ bar[C2P] = IF Receivers = Agent THEN Bar(packet.idx, All, 0, All)
                ELSE Bar(packet.idx - 1, All - Cardinality(Receivers), 0, All)
  /\ At(tma(0)) # "idle" => Got(tma(0)) = packet.idx

(* Positions in a task, and for an MMA warp the laps its tasks have taken.   *)
Looping(a) == At(a) \in {"expect", "run"}
PosInv == \A a \in Ring : IF Looping(a) THEN Pos(a) < K_BLOCKS ELSE Pos(a) = 0
LapsInv ==
  \A i \in Acc : IF At(mma(i)) = "run"
    THEN Pos(mma(i)) = (Laps(mma(i)) - Uses(mma(i)) * LAPS) * PIPELINE_DEPTH + St(mma(i))
    ELSE Laps(mma(i)) = Uses(mma(i)) * LAPS

(* What the tensor core has executed of the task its queue is about, and the *)
(* K positions whose stage it has not freed: Low .. High - 1.               *)
Task(i) == Uses(mma(i)) + (IF At(mma(i)) = "run" THEN 1 ELSE 0)
Start(i) == (Task(i) - 1) * LAPS
High(i) == IF At(mma(i)) = "run" THEN Pos(mma(i)) ELSE K_BLOCKS
Executed(i) == (IF At(mma(i)) = "run" THEN 2 * Pos(mma(i)) ELSE 2 * K_BLOCKS + 1) - Len(queue[i])
Low(i) == Executed(i) \div 2
OpAt(x) ==
  IF x = 2 * K_BLOCKS THEN [op |-> "done"]
  ELSE IF x % 2 = 0 THEN [op |-> "mma", stage |-> StageAt(x \div 2), first |-> x \div 2 = 0]
       ELSE [op |-> "free", stage |-> StageAt(x \div 2)]

(* How often an agent has been at a stage; what is in flight or not freed.   *)
Fill(a, s) == Laps(a) + (IF s < St(a) THEN 1 ELSE 0)
Flying(c, s) == \E x \in loading : x[1] = c /\ x[2] = s
Unfreed(i, s) == \E p \in Low(i) .. High(i) - 1 : StageAt(p) = s
Announced(s) == Fill(tma(0), s)
Sent(c, s) == Fill(tma(c), s) + (IF At(tma(c)) = "expect" /\ St(tma(c)) = s THEN 1 ELSE 0)
Landings(c, s) == Sent(c, s) - (IF Flying(c, s) THEN 1 ELSE 0)
Freeings(i, s) == Fill(mma(i), s) - (IF Unfreed(i, s) THEN 1 ELSE 0)
Turn(s) == bar[FULL(s)].turn
Free(s) == bar[EMPTY(0, s)].turn
FullInv(s) ==
  /\ bar[FULL(s)] = Bar(Turn(s), 1 - (Announced(s) - Turn(s)),
                        2 * Announced(s) - Landings(0, s) - Landings(1, s), 1)
  /\ Turn(s) \in Nat /\ Announced(s) \in {Turn(s), Turn(s) + 1}
  /\ ~(Announced(s) = Turn(s) + 1 /\ Landings(0, s) = Turn(s) + 1 /\ Landings(1, s) = Turn(s) + 1)
  /\ \A c \in CTA : /\ Landings(c, s) \in {Turn(s), Turn(s) + 1} /\ Sent(c, s) \in {Turn(s), Turn(s) + 1}
                    /\ Sent(c, s) <= Free(s) + 1
  /\ \A i \in Acc : Fill(mma(i), s) \in {Turn(s) - 1, Turn(s)}
EmptyInv(s) ==
  /\ Free(s) \in Nat /\ \A i \in Acc : Freeings(i, s) \in {Free(s), Free(s) + 1}
  /\ Freeings(0, s) = Free(s) \/ Freeings(1, s) = Free(s)
  /\ \A c \in CTA : bar[EMPTY(c, s)] = Bar(Free(s), IF Freeings(0, s) = Freeings(1, s) THEN 2 ELSE 1, 0, 2)
CopiesInv == \A x, y \in loading : x[1] = y[1] /\ x[2] = y[2] => x = y
RingInv == CopiesInv /\ \A s \in Stage : FullInv(s) /\ EmptyInv(s)
QueueInv ==
  \A i \in Acc :
    /\ Executed(i) \in Nat /\ (Task(i) = 0 => queue[i] = <<>>)
    /\ \A k \in 1 .. Len(queue[i]) : queue[i][k] = OpAt(Executed(i) + k - 1)
    /\ \A p \in Low(i) .. High(i) - 1 :
         p = (Fill(mma(i), StageAt(p)) - 1 - Start(i)) * PIPELINE_DEPTH + StageAt(p)

(* Accumulators: uses the consumers have given back, and the tensor core has *)
(* completed.                                                               *)
Back(c, i) == Uses(con(c, i)) - (IF At(con(c, i)) = "read" THEN 1 ELSE 0)
Least(m, n) == IF m < n THEN m ELSE n
Returned(i) == Least(Back(0, i), Back(1, i))
Complete(i) == Uses(mma(i)) - (IF At(mma(i)) # "run" /\ queue[i] # <<>> THEN 1 ELSE 0)
TmemInv ==
  \A i \in Acc :
    /\ bar[TEMPTY(i)] = Bar(Returned(i), IF Back(0, i) = Back(1, i) THEN 2 ELSE 1, 0, 2)
    /\ Uses(mma(i)) <= Returned(i) + 1 /\ (At(mma(i)) = "run" => Uses(mma(i)) <= Returned(i))
    /\ \A c \in CTA : /\ bar[TFULL(c, i)] = Bar(Complete(i), 1, 0, 1)
                      /\ Uses(con(c, i)) <= Complete(i) /\ Back(c, i) \in Nat

(* Tasks: which one an agent is at, and where it is in the laps of that.     *)
Job(a, n) == n - (IF packet.type = "GEMM" /\ Got(a) # packet.idx THEN 1 ELSE 0)
Working(a) == At(a) \in {"expect", "run", "acquire", "wait", "read"}
First(a, n) == (IF At(a) \in {"expect", "run", "acquire"} THEN Job(a, n) - 1 ELSE Job(a, n)) * LAPS
LapInv(a, n) ==
  /\ Pos(a) = (Laps(a) - First(a, n)) * PIPELINE_DEPTH + St(a)
  /\ IF Looping(a) THEN First(a, n) <= Laps(a) /\ Laps(a) < First(a, n) + LAPS
                   ELSE Laps(a) = First(a, n) /\ Pos(a) = 0
JobInv(n, pk) ==
  /\ packet.type = "GEMM" => n >= 1 /\ pk[n] = packet.idx
  /\ \A a \in Agent : Working(a) => Job(a, n) >= 1 /\ Got(a) = pk[Job(a, n)]
  /\ \A a \in Ring : LapInv(a, n)
  /\ \A i \in Acc : Uses(mma(i)) = Job(mma(i), n) - (IF At(mma(i)) \in {"acquire", "run"} THEN 1 ELSE 0)
  /\ \A c \in CTA, i \in Acc : Uses(con(c, i)) = Job(con(c, i), n) - (IF At(con(c, i)) = "wait" THEN 1 ELSE 0)

(* Blocks: the one that fills stage s in lap m of all, and where it is.      *)
BlockOf(pk, m, s) == <<pk[m \div LAPS + 1], (m % LAPS) * PIPELINE_DEPTH + s>>
BlocksInv(pk) ==
  /\ \A x \in loading : x[3] = BlockOf(pk, Sent(x[1], x[2]) - 1, x[2])
  /\ \A c \in CTA, s \in Stage : Landings(c, s) >= 1 => smem[c][s] = BlockOf(pk, Landings(c, s) - 1, s)
Summed(i) == Least(K_BLOCKS, (Executed(i) + 1) \div 2)
SumInv(pk) ==
  \A i \in Acc : Task(i) >= 1 /\ Executed(i) >= 1 =>
    acc[i] = [k \in 1 .. Summed(i) |-> <<<<pk[Task(i)], k - 1>>, <<pk[Task(i)], k - 1>>>>]

ControlInv == PipelineTypes /\ PacketInv /\ WholeLaps /\ PosInv /\ LapsInv /\ RingInv /\ QueueInv /\ TmemInv
TaskInv == \E n \in Nat, pk \in [Nat -> Nat] : JobInv(n, pk) /\ BlocksInv(pk) /\ SumInv(pk)
PipelineInv == ControlInv /\ TaskInv

----------------------------------------------------------------------------
(* Arithmetic of the ring.                                                   *)
LEMMA DivNat ==
  ASSUME NEW d \in Nat \ {0}, NEW x \in Nat
  PROVE  /\ x % d \in 0 .. d - 1 /\ x \div d \in Nat /\ x = (x \div d) * d + (x % d)
<1>1. x % d \in 0 .. d - 1 /\ x \div d \in Int /\ d * (x \div d) <= x /\ x < d * (x \div d) + d
  OBVIOUS
<1>2. x % d = x - d * (x \div d)
  OBVIOUS
<1>. DEFINE q == x \div d
            r == x % d
<1>a. r \in 0 .. d - 1 /\ q \in Int /\ d * q <= x /\ x < d * q + d /\ r = x - d * q
  BY <1>1, <1>2
<1>. HIDE DEF q, r
<1>3. q \in Nat
  <2>1. q \in Int /\ x < d * q + d
    BY <1>a
  <2>2. CASE q < 0
    <3>1. PICK k \in Nat : q = -1 - k
      <4>1. -1 - q \in Nat /\ q = -1 - (-1 - q)
        BY <2>1, <2>2
      <4>. QED BY <4>1
    <3>2. d * q + d = -(d * k) /\ d * k \in Nat
      BY <3>1
    <3>. QED BY <2>1, <3>2
  <2>. QED BY <2>1, <2>2
<1>4. d * q \in Nat /\ d * q = q * d
  BY <1>3
<1>5. x = q * d + r
  BY <1>a, <1>4
<1>6. r \in 0 .. d - 1 /\ q \in Nat /\ x = q * d + r
  BY <1>a, <1>3, <1>5
<1>. QED BY <1>6 DEF q, r

LEMMA DivUnique ==
  ASSUME NEW d \in Nat \ {0}, NEW q \in Int, NEW r \in 0 .. d - 1,
         NEW p \in Int, NEW s \in 0 .. d - 1, q * d + r = p * d + s
  PROVE  q = p /\ r = s
<1>1. CASE q < p
  <2>1. PICK k \in Nat : p = (q + 1) + k
    <3>1. p - (q + 1) \in Nat /\ p = (q + 1) + (p - (q + 1))
      BY <1>1
    <3>. QED BY <3>1
  <2>2. p * d = q * d + d + k * d /\ k * d \in Nat
    BY <2>1
  <2>. QED BY <2>2
<1>2. CASE p < q
  <2>1. PICK k \in Nat : q = (p + 1) + k
    <3>1. q - (p + 1) \in Nat /\ q = (p + 1) + (q - (p + 1))
      BY <1>2
    <3>. QED BY <3>1
  <2>2. q * d = p * d + d + k * d /\ k * d \in Nat
    BY <2>1
  <2>. QED BY <2>2
<1>. QED BY <1>1, <1>2

LEMMA DivOf ==
  ASSUME NEW d \in Nat \ {0}, NEW q \in Nat, NEW r \in 0 .. d - 1
  PROVE  (q * d + r) \div d = q /\ (q * d + r) % d = r
<1>. DEFINE x == q * d + r
            p == x \div d
            s == x % d
<1>1. x \in Nat
  <2>1. q * d \in Nat
    OBVIOUS
  <2>. QED BY <2>1
<1>. HIDE DEF x
<1>2. s \in 0 .. d - 1 /\ p \in Nat /\ x = p * d + s
  BY <1>1, DivNat
<1>. HIDE DEF p, s
<1>3. q * d + r = p * d + s /\ q \in Int /\ p \in Int
  BY <1>2 DEF x
<1>4. q = p /\ r = s
  BY <1>2, <1>3, DivUnique
<1>. QED BY <1>4 DEF x, p, s

LEMMA Shaped ==
  ASSUME shape \in Shapes
  PROVE  PIPELINE_DEPTH \in Nat \ {0} /\ K_BLOCKS \in Nat \ {0} /\ TASKS \in Nat
BY ShapesAssumption DEF PIPELINE_DEPTH, K_BLOCKS, TASKS

LEMMA Whole ==
  ASSUME shape \in Shapes, WholeLaps
  PROVE  LAPS \in Nat \ {0} /\ LAPS * PIPELINE_DEPTH = K_BLOCKS
<1>. DEFINE d == PIPELINE_DEPTH
            k == K_BLOCKS
            q == k \div d
<1>1. d \in Nat \ {0} /\ k \in Nat \ {0} /\ k % d = 0
  BY Shaped DEF WholeLaps
<1>2. LAPS = (k + d - 1) \div d
  BY DEF LAPS
<1>. HIDE DEF d, k
<1>3. q \in Nat /\ k = q * d + (k % d)
  BY <1>1, DivNat
<1>. HIDE DEF q
<1>4. k = q * d /\ q # 0
  BY <1>1, <1>3
<1>5. k + d - 1 = q * d + (d - 1) /\ d - 1 \in 0 .. d - 1
  <2>1. q * d \in Nat
    BY <1>1, <1>3
  <2>. QED BY <1>1, <1>4, <2>1
<1>6. (q * d + (d - 1)) \div d = q
  BY <1>1, <1>3, <1>5, DivOf
<1>7. LAPS = q
  BY <1>2, <1>5, <1>6
<1>. QED BY <1>3, <1>4, <1>7 DEF d, k

LEMMA NextStage ==
  ASSUME shape \in Shapes, NEW p \in Nat
  PROVE  /\ StageAt(p) \in Stage /\ StageAt(0) = 0
         /\ StageAt(p + 1) = IF StageAt(p) = PIPELINE_DEPTH - 1 THEN 0 ELSE StageAt(p) + 1
<1>. DEFINE d == PIPELINE_DEPTH
            q == p \div d
            r == p % d
<1>1. d \in Nat \ {0}
  BY Shaped
<1>. HIDE DEF d
<1>2. r \in 0 .. d - 1 /\ q \in Nat /\ p = q * d + r
  BY <1>1, DivNat
<1>. HIDE DEF q, r
<1>3. (p + 1) % d = IF r = d - 1 THEN 0 ELSE r + 1
  <2>1. CASE r = d - 1
    <3>1. p + 1 = (q + 1) * d + 0 /\ q + 1 \in Nat /\ 0 \in 0 .. d - 1
      BY <1>1, <1>2, <2>1
    <3>2. ((q + 1) * d + 0) % d = 0
      BY <1>1, <3>1, DivOf
    <3>. QED BY <2>1, <3>1, <3>2
  <2>2. CASE r # d - 1
    <3>1. p + 1 = q * d + (r + 1) /\ r + 1 \in 0 .. d - 1
      <4>1. q * d \in Nat
        BY <1>1, <1>2
      <4>. QED BY <1>1, <1>2, <2>2, <4>1
    <3>2. (q * d + (r + 1)) % d = r + 1
      BY <1>1, <1>2, <3>1, DivOf
    <3>. QED BY <2>2, <3>1, <3>2
  <2>. QED BY <2>1, <2>2
<1>4. 0 % d = 0
  <2>1. 0 \in Nat /\ 0 \in 0 .. d - 1 /\ 0 * d + 0 = 0
    BY <1>1
  <2>2. (0 * d + 0) % d = 0
    BY <1>1, <2>1, DivOf
  <2>. QED BY <2>1, <2>2
<1>. QED BY <1>2, <1>3, <1>4 DEF StageAt, Stage, r, d

(* The shape is fixed, and with it everything that depends on it alone.      *)
LEMMA Fixed ==
  ASSUME shape' = shape
  PROVE  /\ PIPELINE_DEPTH' = PIPELINE_DEPTH /\ K_BLOCKS' = K_BLOCKS /\ TASKS' = TASKS /\ LAPS' = LAPS
         /\ Stage' = Stage /\ Barrier' = Barrier /\ Op' = Op /\ (WholeLaps' <=> WholeLaps)
         /\ \A p : StageAt(p)' = StageAt(p) /\ OpAt(p)' = OpAt(p)
         /\ \A pk, m, s : BlockOf(pk, m, s)' = BlockOf(pk, m, s)
<1>1. PIPELINE_DEPTH' = PIPELINE_DEPTH /\ K_BLOCKS' = K_BLOCKS /\ TASKS' = TASKS
  BY DEF PIPELINE_DEPTH, K_BLOCKS, TASKS
<1>2. LAPS' = LAPS /\ Stage' = Stage /\ (WholeLaps' <=> WholeLaps)
  BY <1>1 DEF LAPS, Stage, WholeLaps
<1>3. Barrier' = Barrier
  BY <1>2 DEF Barrier, FULL, EMPTY, TFULL, TEMPTY, P2C, C2P
<1>4. Op' = Op
  BY <1>2 DEF Op
<1>5. \A p : StageAt(p)' = StageAt(p)
  BY <1>1 DEF StageAt
<1>6. \A p : OpAt(p)' = OpAt(p)
  BY <1>1, <1>5 DEF OpAt
<1>7. \A pk, m, s : BlockOf(pk, m, s)' = BlockOf(pk, m, s)
  BY <1>1, <1>2 DEF BlockOf
<1>. QED BY <1>1, <1>2, <1>3, <1>4, <1>5, <1>6, <1>7

----------------------------------------------------------------------------
(* Agents and barriers go by their names.                                    *)
LEMMA AgentNames ==
  /\ CTA = {0, 1} /\ Acc = {0, 1}
  /\ \A a \in Agent : \/ \E c \in CTA : a = tma(c)
                      \/ \E i \in Acc : a = mma(i)
                      \/ \E c \in CTA, i \in Acc : a = con(c, i)
                      \/ a = <<"rest", 1>>
  /\ \A c \in CTA : tma(c) \in Agent
  /\ \A i \in Acc : mma(i) \in Agent
  /\ \A c \in CTA, i \in Acc : con(c, i) \in Agent
  /\ <<"rest", 1>> \in Agent
<1>1. CTA = {0, 1} /\ Acc = {0, 1}
  BY DEF CTA, Acc
<1>. QED BY <1>1 DEF Agent, tma, mma, con

LEMMA Kinds ==
  /\ \A c : tma(c)[1] = "tma" /\ tma(c)[2] = c
  /\ \A i : mma(i)[1] = "mma" /\ mma(i)[2] = i
  /\ \A c, i : con(c, i)[1] = "con" /\ con(c, i)[2] = c /\ con(c, i)[3] = i
  /\ <<"rest", 1>>[1] = "rest" /\ <<"rest", 1>>[2] = 1
BY DEF tma, mma, con

LEMMA Apart ==
  /\ \A c, d, i, j : tma(c) # mma(i) /\ tma(c) # con(d, j) /\ mma(i) # con(d, j)
  /\ \A c, i, j : tma(c) # <<"rest", 1>> /\ mma(i) # <<"rest", 1>> /\ con(c, j) # <<"rest", 1>>
  /\ \A c, d : (tma(c) = tma(d) => c = d) /\ (mma(c) = mma(d) => c = d)
  /\ \A c, d, i, j : con(c, i) = con(d, j) => c = d /\ i = j
<1>1. \A c, d : (tma(c) = tma(d) => c = d) /\ (mma(c) = mma(d) => c = d)
  BY Kinds
<1>2. \A c, d, i, j : con(c, i) = con(d, j) => c = d /\ i = j
  BY Kinds
<1>3. \A c, d, i, j : tma(c) # mma(i) /\ tma(c) # con(d, j) /\ mma(i) # con(d, j)
  BY Kinds
<1>4. \A c, i, j : tma(c) # <<"rest", 1>> /\ mma(i) # <<"rest", 1>> /\ con(c, j) # <<"rest", 1>>
  BY Kinds
<1>. QED BY <1>1, <1>2, <1>3, <1>4

LEMMA KindOf ==
  ASSUME NEW a \in Agent
  PROVE  /\ a[1] = "tma" => \E c \in CTA : a = tma(c)
         /\ a[1] = "mma" => \E i \in Acc : a = mma(i)
         /\ a[1] = "con" => \E c \in CTA, i \in Acc : a = con(c, i)
BY AgentNames, Kinds

LEMMA Ctas ==
  /\ \A a \in Agent : CtaOf(a) \in CTA
  /\ \A c : CtaOf(tma(c)) = c
  /\ \A i : CtaOf(mma(i)) = 0
  /\ \A c, i : CtaOf(con(c, i)) = c
<1>1. \A c : CtaOf(tma(c)) = c
  BY Kinds DEF CtaOf
<1>2. \A i : CtaOf(mma(i)) = 0
  BY Kinds DEF CtaOf
<1>3. \A c, i : CtaOf(con(c, i)) = c
  BY Kinds DEF CtaOf
<1>4. CtaOf(<<"rest", 1>>) = 1
  BY Kinds DEF CtaOf
<1>. QED BY <1>1, <1>2, <1>3, <1>4, AgentNames

LEMMA AgentCount == IsFiniteSet(Agent) /\ All \in Nat /\ All >= 1
<1>1. IsFiniteSet(CTA) /\ IsFiniteSet(Acc)
  <2>1. 0 \in Int /\ 1 \in Int
    OBVIOUS
  <2>. QED BY <2>1, FS_Interval DEF CTA, Acc
<1>2. IsFiniteSet({"tma"}) /\ IsFiniteSet({"mma"}) /\ IsFiniteSet({"con"}) /\ IsFiniteSet({<<"rest", 1>>})
  BY FS_Singleton
<1>3. IsFiniteSet({"tma"} \X CTA) /\ IsFiniteSet({"mma"} \X Acc)
  BY <1>1, <1>2, FS_Product
<1>4. IsFiniteSet({"con"} \X CTA \X Acc)
  <2>. DEFINE f == [x \in ({"con"} \X CTA) \X Acc |-> <<x[1][1], x[1][2], x[2]>>]
              S == ({"con"} \X CTA) \X Acc
              T == {"con"} \X CTA \X Acc
  <2>1. IsFiniteSet(S)
    <3>1. IsFiniteSet({"con"} \X CTA)
      BY <1>1, <1>2, FS_Product
    <3>. QED BY <1>1, <3>1, FS_Product
  <2>2. f \in Surjection(S, T)
    <3>1. f \in [S -> T]
      OBVIOUS
    <3>2. \A t \in T : \E x \in S : f[x] = t
      <4>. TAKE t \in T
      <4>1. PICK c \in CTA, i \in Acc : t = <<"con", c, i>>
        OBVIOUS
      <4>2. <<<<"con", c>>, i>> \in S /\ f[<<<<"con", c>>, i>>] = <<"con", c, i>>
        OBVIOUS
      <4>. QED BY <4>1, <4>2
    <3>. QED BY <3>1, <3>2 DEF Surjection
  <2>. QED BY <2>1, <2>2, FS_Surjection
<1>5. IsFiniteSet(Agent)
  BY <1>2, <1>3, <1>4, FS_Union DEF Agent
<1>6. Agent # {}
  BY AgentNames
<1>. QED BY <1>5, <1>6, FS_CardinalityType, FS_EmptySet DEF All

LEMMA BarNames ==
  /\ \A s \in Stage : FULL(s) \in Barrier /\ \A c \in CTA : EMPTY(c, s) \in Barrier
  /\ \A i \in Acc : TEMPTY(i) \in Barrier /\ \A c \in CTA : TFULL(c, i) \in Barrier
  /\ \A c \in CTA : P2C(c) \in Barrier
  /\ C2P \in Barrier
  /\ \A b \in Barrier : \/ \E s \in Stage : b = FULL(s) \/ \E c \in CTA : b = EMPTY(c, s)
                        \/ \E i \in Acc : b = TEMPTY(i) \/ \E c \in CTA : b = TFULL(c, i)
                        \/ \E c \in CTA : b = P2C(c)
                        \/ b = C2P
BY DEF Barrier

LEMMA BarKinds ==
  /\ \A s : FULL(s)[1] = "full" /\ FULL(s)[2] = s
  /\ \A c, s : EMPTY(c, s)[1] = "empty" /\ EMPTY(c, s)[2] = c /\ EMPTY(c, s)[3] = s
  /\ \A i : TEMPTY(i)[1] = "tempty" /\ TEMPTY(i)[2] = i
  /\ \A c, i : TFULL(c, i)[1] = "tfull" /\ TFULL(c, i)[2] = c /\ TFULL(c, i)[3] = i
  /\ \A c : P2C(c)[1] = "p2c" /\ P2C(c)[2] = c
  /\ C2P[1] = "c2p"
BY DEF FULL, EMPTY, TEMPTY, TFULL, P2C, C2P

LEMMA BarApart ==
  /\ \A s, t, c : FULL(s) # EMPTY(c, t) /\ FULL(s) # TEMPTY(t) /\ FULL(s) # TFULL(c, t) /\ FULL(s) # P2C(t)
  /\ \A c, d, s, t : EMPTY(c, s) # TEMPTY(t) /\ EMPTY(c, s) # TFULL(d, t) /\ EMPTY(c, s) # P2C(t)
  /\ \A c, s, t : TEMPTY(s) # TFULL(c, t) /\ TEMPTY(s) # P2C(t) /\ TFULL(c, s) # P2C(t)
  /\ \A c, s : FULL(s) # C2P /\ EMPTY(c, s) # C2P /\ TEMPTY(s) # C2P /\ TFULL(c, s) # C2P /\ P2C(c) # C2P
  /\ \A s, t : (FULL(s) = FULL(t) => s = t) /\ (TEMPTY(s) = TEMPTY(t) => s = t) /\ (P2C(s) = P2C(t) => s = t)
  /\ \A c, d, s, t : (EMPTY(c, s) = EMPTY(d, t) => c = d /\ s = t) /\ (TFULL(c, s) = TFULL(d, t) => c = d /\ s = t)
<1>1. \A s, t, c : FULL(s) # EMPTY(c, t) /\ FULL(s) # TEMPTY(t) /\ FULL(s) # TFULL(c, t) /\ FULL(s) # P2C(t)
  BY BarKinds
<1>2. \A c, d, s, t : EMPTY(c, s) # TEMPTY(t) /\ EMPTY(c, s) # TFULL(d, t) /\ EMPTY(c, s) # P2C(t)
  BY BarKinds
<1>3. \A c, s, t : TEMPTY(s) # TFULL(c, t) /\ TEMPTY(s) # P2C(t) /\ TFULL(c, s) # P2C(t)
  BY BarKinds
<1>4. \A c, s : FULL(s) # C2P /\ EMPTY(c, s) # C2P /\ TEMPTY(s) # C2P /\ TFULL(c, s) # C2P /\ P2C(c) # C2P
  BY BarKinds
<1>5. \A s, t : (FULL(s) = FULL(t) => s = t) /\ (TEMPTY(s) = TEMPTY(t) => s = t) /\ (P2C(s) = P2C(t) => s = t)
  BY BarKinds
<1>6. \A c, d, s, t : (EMPTY(c, s) = EMPTY(d, t) => c = d /\ s = t) /\ (TFULL(c, s) = TFULL(d, t) => c = d /\ s = t)
  BY BarKinds
<1>. QED BY <1>1, <1>2, <1>3, <1>4, <1>5, <1>6

(* The barrier operations.                                                   *)
LEMMA BarSteps ==
  ASSUME NEW t \in Int, NEW p \in Int, NEW x \in Int, NEW n \in Int
  PROVE  /\ Arrive(Bar(t, p, x, n)) = IF p = 1 /\ x = 0 THEN Bar(t + 1, n, 0, n) ELSE Bar(t, p - 1, x, n)
         /\ Landed(Bar(t, p, x, n)) = IF p = 0 /\ x = 1 THEN Bar(t + 1, n, 0, n) ELSE Bar(t, p, x - 1, n)
         /\ ArriveExpect(Bar(t, p, x, n), 2) =
              IF p = 1 /\ x = -2 THEN Bar(t + 1, n, 0, n) ELSE Bar(t, p - 1, x + 2, n)
         /\ \A m : Passed(Bar(t, p, x, n), m) <=> t % 2 # m % 2
         /\ Bar(t, p, x, n).turn = t
<1>1. \A p1, x1 \in Int : Settled(Bar(t, p1, x1, n)) =
         IF p1 = 0 /\ x1 = 0 THEN Bar(t + 1, n, 0, n) ELSE Bar(t, p1, x1, n)
  <2>. TAKE p1, x1 \in Int
  <2>1. CASE p1 = 0 /\ x1 = 0
    <3>1. Settled(Bar(t, p1, x1, n)) =
            [Bar(t, p1, x1, n) EXCEPT !.turn = Bar(t, p1, x1, n).turn + 1, !.pending = n]
      BY <2>1 DEF Settled, Bar
    <3>. QED BY <2>1, <3>1 DEF Bar
  <2>2. CASE ~(p1 = 0 /\ x1 = 0)
    BY <2>2 DEF Settled, Bar
  <2>. QED BY <2>1, <2>2
<1>2. \A d \in Int : /\ [Bar(t, p, x, n) EXCEPT !.pending = d] = Bar(t, d, x, n)
                    /\ [Bar(t, p, x, n) EXCEPT !.tx = d] = Bar(t, p, d, n)
  BY DEF Bar
<1>4. Bar(t, p, x, n).pending = p /\ Bar(t, p, x, n).turn = t /\ Bar(t, p, x, n).tx = x
  BY DEF Bar
<1>5. Arrive(Bar(t, p, x, n)) = Settled(Bar(t, p - 1, x, n))
  BY <1>2, <1>4 DEF Arrive
<1>6. Landed(Bar(t, p, x, n)) = Settled(Bar(t, p, x - 1, n))
  BY <1>2, <1>4 DEF Landed
<1>7. ArriveExpect(Bar(t, p, x, n), 2) = Settled(Bar(t, p - 1, x + 2, n))
  <2>1. ArriveExpect(Bar(t, p, x, n), 2) = Arrive(Bar(t, p, x + 2, n))
    BY <1>2, <1>4 DEF ArriveExpect
  <2>2. /\ [Bar(t, p, x + 2, n) EXCEPT !.pending = p - 1] = Bar(t, p - 1, x + 2, n)
        /\ Bar(t, p, x + 2, n).pending = p
    BY DEF Bar
  <2>. QED BY <2>1, <2>2 DEF Arrive
<1>8. \A m : Passed(Bar(t, p, x, n), m) <=> t % 2 # m % 2
  BY <1>4 DEF Passed
<1>. QED BY <1>1, <1>4, <1>5, <1>6, <1>7, <1>8

(* An arrival on a barrier that counts no copies.                            *)
LEMMA BarArrives ==
  /\ \A t, n \in Int : Arrive(Bar(t, 1, 0, n)) = Bar(t + 1, n, 0, n)
  /\ \A t, p, n \in Int : p # 1 => Arrive(Bar(t, p, 0, n)) = Bar(t, p - 1, 0, n)
<1>1. ASSUME NEW t \in Int, NEW p \in Int, NEW n \in Int
      PROVE  Arrive(Bar(t, p, 0, n)) = IF p = 1 /\ 0 = 0 THEN Bar(t + 1, n, 0, n) ELSE Bar(t, p - 1, 0, n)
  <2>1. 0 \in Int
    OBVIOUS
  <2>. QED BY <1>1, <2>1, BarSteps
<1>2. 1 \in Int
  OBVIOUS
<1>. QED BY <1>1, <1>2

(* A wait for phase n cannot be mistaken while the phase is n or n + 1.      *)
LEMMA Parity ==
  ASSUME NEW t \in Int, NEW n \in Int, t \in {n, n + 1}
  PROVE  t % 2 # n % 2 <=> t = n + 1
<1>1. \A m \in Int : (m + 1) % 2 # m % 2
  OBVIOUS
<1>. QED BY <1>1

LEMMA Waited ==
  ASSUME NEW b, NEW n \in Int, b.turn \in {n, n + 1}
  PROVE  Passed(b, n) <=> b.turn = n + 1
<1>1. b.turn \in Int
  OBVIOUS
<1>. QED BY <1>1, Parity DEF Passed

(* An operation on one barrier leaves the others alone.                      *)
LEMMA OneBar ==
  ASSUME PipelineTypes, NEW b \in Barrier, NEW v, bar' = [bar EXCEPT ![b] = v]
  PROVE  /\ bar'[b] = v /\ \A d \in Barrier \ {b} : bar'[d] = bar[d]
         /\ bar' = [d \in Barrier |-> bar'[d]]
<1>1. bar = [d \in Barrier |-> bar[d]]
  BY DEF PipelineTypes
<1>. QED BY <1>1

----------------------------------------------------------------------------
(* What the steps do to the agent that takes them.                           *)
Has(r, p, k, l, u, n) ==
  /\ r \in AgentRecord
  /\ r.place = p /\ r.pos = k /\ r.laps = l /\ r.uses = u /\ r.packets = n
Becomes(a, p, k, l, u, n) ==
  /\ agent' \in [Agent -> AgentRecord] /\ \A x \in Agent \ {a} : agent'[x] = agent[x]
  /\ At(a)' = p /\ Pos(a)' = k /\ Laps(a)' = l /\ Uses(a)' = u /\ Got(a)' = n
FetchPlace(a) == IF a = tma(0) THEN "publish" ELSE "idle"
RolePlace(a) == IF a[1] = "tma" THEN "run" ELSE IF a[1] = "mma" THEN "acquire" ELSE "wait"
Starts(a) == packet.type = "GEMM" /\ a[1] \in {"tma", "mma", "con"}
NextPlace(a) ==
  IF packet.type = "exit" THEN "left" ELSE IF Starts(a) THEN RolePlace(a) ELSE FetchPlace(a)
LastTurn(a) == Pos(a) + 1 = LAPS * PIPELINE_DEPTH
LapsOn(a) == IF St(a) = PIPELINE_DEPTH - 1 THEN Laps(a) + 1 ELSE Laps(a)
Turns(a) ==
  Becomes(a, IF LastTurn(a) THEN FetchPlace(a) ELSE "run", IF LastTurn(a) THEN 0 ELSE Pos(a) + 1, LapsOn(a),
          IF LastTurn(a) /\ a[1] = "mma" THEN Uses(a) + 1 ELSE Uses(a), Got(a))
Moves(a, p) == Becomes(a, p, Pos(a), Laps(a), Uses(a), Got(a))

(* One field of an agent's record is changed.                                *)
LEMMA Fields ==
  ASSUME NEW r, NEW p, NEW k, NEW l, NEW u, NEW n, Has(r, p, k, l, u, n)
  PROVE  /\ \A v \in Place : Has([r EXCEPT !.place = v], v, k, l, u, n)
         /\ \A v \in Nat : Has([r EXCEPT !.pos = v], p, v, l, u, n)
         /\ \A v \in Nat : Has([r EXCEPT !.laps = v], p, k, v, u, n)
         /\ \A v \in Nat : Has([r EXCEPT !.uses = v], p, k, l, v, n)
         /\ \A v \in Nat : Has([r EXCEPT !.packets = v], p, k, l, u, v)
         /\ p \in Place /\ k \in Nat /\ l \in Nat /\ u \in Nat /\ n \in Nat
<1>1. p \in Place /\ k \in Nat /\ l \in Nat /\ u \in Nat /\ n \in Nat
  BY DEF Has, AgentRecord
<1>2. \A v \in Place : Has([r EXCEPT !.place = v], v, k, l, u, n)
  BY DEF Has, AgentRecord
<1>3. \A v \in Nat : Has([r EXCEPT !.pos = v], p, v, l, u, n)
  BY DEF Has, AgentRecord
<1>4. \A v \in Nat : Has([r EXCEPT !.laps = v], p, k, v, u, n)
  BY DEF Has, AgentRecord
<1>5. \A v \in Nat : Has([r EXCEPT !.uses = v], p, k, l, v, n)
  BY DEF Has, AgentRecord
<1>6. \A v \in Nat : Has([r EXCEPT !.packets = v], p, k, l, u, v)
  BY DEF Has, AgentRecord
<1>. QED BY <1>1, <1>2, <1>3, <1>4, <1>5, <1>6

LEMMA AgentTyped ==
  ASSUME PipelineTypes
  PROVE  \A a \in Agent : /\ Has(agent[a], At(a), Pos(a), Laps(a), Uses(a), Got(a)) /\ At(a) \in Place
                          /\ Pos(a) \in Nat /\ Laps(a) \in Nat /\ Uses(a) \in Nat /\ Got(a) \in Nat
                          /\ St(a) = StageOf(agent[a]) /\ St(a) \in Stage
<1>. TAKE a \in Agent
<1>1. agent[a] \in AgentRecord /\ shape \in Shapes
  BY DEF PipelineTypes
<1>2. Has(agent[a], At(a), Pos(a), Laps(a), Uses(a), Got(a))
  BY <1>1 DEF Has, At, Pos, Laps, Uses, Got
<1>3. At(a) \in Place /\ Pos(a) \in Nat /\ Laps(a) \in Nat /\ Uses(a) \in Nat /\ Got(a) \in Nat
  BY <1>2, Fields
<1>4. St(a) = StageOf(agent[a]) /\ St(a) \in Stage
  BY <1>1, <1>3, NextStage DEF St, StageAt, StageOf, Pos
<1>. QED BY <1>2, <1>3, <1>4

LEMMA Change ==
  ASSUME PipelineTypes, NEW a \in Agent, NEW r, NEW p, NEW k, NEW l, NEW u, NEW n,
         Has(r, p, k, l, u, n), agent' = [agent EXCEPT ![a] = r]
  PROVE  Becomes(a, p, k, l, u, n)
<1>1. r \in AgentRecord /\ r.place = p /\ r.pos = k /\ r.laps = l /\ r.uses = u /\ r.packets = n
  BY DEF Has
<1>2. agent \in [Agent -> AgentRecord]
  BY DEF PipelineTypes
<1>3. agent' \in [Agent -> AgentRecord] /\ agent'[a] = r /\ \A x \in Agent \ {a} : agent'[x] = agent[x]
  BY <1>1, <1>2
<1>. QED BY <1>1, <1>3 DEF Becomes, At, Pos, Laps, Uses, Got

LEMMA Moved ==
  ASSUME PipelineTypes, NEW a \in Agent, NEW p \in Place, agent' = [agent EXCEPT ![a].place = p]
  PROVE  Moves(a, p)
<1>1. Has(agent[a], At(a), Pos(a), Laps(a), Uses(a), Got(a))
  BY AgentTyped
<1>2. Has([agent[a] EXCEPT !.place = p], p, Pos(a), Laps(a), Uses(a), Got(a))
  BY <1>1, Fields
<1>3. agent' = [agent EXCEPT ![a] = [agent[a] EXCEPT !.place = p]]
  OBVIOUS
<1>. QED BY <1>2, <1>3, Change DEF Moves

LEMMA FetchingRec ==
  ASSUME NEW a, NEW r, NEW p, NEW k, NEW l, NEW u, NEW n, Has(r, p, k, l, u, n)
  PROVE  Has(Fetching(a, r), FetchPlace(a), 0, l, u, n)
<1>. DEFINE r1 == [r EXCEPT !.place = FetchPlace(a)]
            r2 == [r1 EXCEPT !.pos = 0]
<1>1. FetchPlace(a) \in Place /\ 0 \in Nat
  BY DEF FetchPlace, Place
<1>2. Fetching(a, r) = r2
  BY DEF Fetching, FetchPlace, tma
<1>3. Has(r1, FetchPlace(a), k, l, u, n)
  BY <1>1, Fields
<1>. HIDE DEF r1
<1>4. Has(r2, FetchPlace(a), 0, l, u, n)
  BY <1>1, <1>3, Fields
<1>. HIDE DEF r2
<1>. QED BY <1>2, <1>4

LEMMA ReceiveAgent ==
  ASSUME PipelineTypes, NEW a \in Agent, Receive(a)
  PROVE  /\ At(a) = "idle" /\ Passed(bar[P2C(CtaOf(a))], Got(a))
         /\ \E k \in {0, Pos(a)} : Becomes(a, NextPlace(a), k, Laps(a), Uses(a), Got(a) + 1)
<1>. DEFINE r == [agent[a] EXCEPT !.packets = Got(a) + 1]
<1>1. Has(r, At(a), Pos(a), Laps(a), Uses(a), Got(a) + 1)
  <2>1. Has(agent[a], At(a), Pos(a), Laps(a), Uses(a), Got(a)) /\ Got(a) + 1 \in Nat
    BY AgentTyped
  <2>. QED BY <2>1, Fields
<1>2. At(a) = "idle" /\ Passed(bar[P2C(CtaOf(a))], Got(a)) /\ agent' = [agent EXCEPT ![a] = Started(a, r)]
  BY DEF Receive, At, Got
<1>. HIDE DEF r
<1>3. \E k \in {0, Pos(a)} : Has(Started(a, r), NextPlace(a), k, Laps(a), Uses(a), Got(a) + 1)
  <2>1. \A p \in Place : Has([r EXCEPT !.place = p], p, Pos(a), Laps(a), Uses(a), Got(a) + 1)
    BY <1>1, Fields
  <2>2. Has(Fetching(a, r), FetchPlace(a), 0, Laps(a), Uses(a), Got(a) + 1)
    BY <1>1, FetchingRec
  <2>3. CASE packet.type = "exit"
    <3>1. Started(a, r) = [r EXCEPT !.place = "left"] /\ NextPlace(a) = "left"
      BY <2>3 DEF Started, NextPlace
    <3>. QED BY <2>1, <3>1 DEF Place
  <2>4. CASE packet.type = "GEMM" /\ a[1] = "tma"
    <3>1. Started(a, r) = [r EXCEPT !.place = "run"] /\ NextPlace(a) = "run"
      BY <2>4 DEF Started, NextPlace, Starts, RolePlace
    <3>. QED BY <2>1, <3>1 DEF Place
  <2>5. CASE packet.type = "GEMM" /\ a[1] = "mma"
    <3>1. Started(a, r) = [r EXCEPT !.place = "acquire"] /\ NextPlace(a) = "acquire"
      BY <2>5 DEF Started, NextPlace, Starts, RolePlace
    <3>. QED BY <2>1, <3>1 DEF Place
  <2>6. CASE packet.type = "GEMM" /\ a[1] = "con"
    <3>1. Started(a, r) = [r EXCEPT !.place = "wait"] /\ NextPlace(a) = "wait"
      BY <2>6 DEF Started, NextPlace, Starts, RolePlace
    <3>. QED BY <2>1, <3>1 DEF Place
  <2>7. CASE packet.type # "exit" /\ ~Starts(a)
    <3>1. Started(a, r) = Fetching(a, r) /\ NextPlace(a) = FetchPlace(a)
      BY <2>7 DEF Started, NextPlace, Starts
    <3>. QED BY <2>2, <3>1
  <2>. QED BY <2>3, <2>4, <2>5, <2>6, <2>7 DEF Starts
<1>4. PICK k \in {0, Pos(a)} : Has(Started(a, r), NextPlace(a), k, Laps(a), Uses(a), Got(a) + 1)
  BY <1>3
<1>5. Becomes(a, NextPlace(a), k, Laps(a), Uses(a), Got(a) + 1)
  BY <1>2, <1>4, Change
<1>. QED BY <1>2, <1>4, <1>5

(* A turn of the ring: on to the next stage, or out of the task.             *)
LEMMA Advanced ==
  ASSUME PipelineTypes, NEW a \in Agent
  PROVE  /\ Has(Advance(agent[a]), At(a), Pos(a) + 1, LapsOn(a), Uses(a), Got(a))
         /\ (Finished(Advance(agent[a])) <=> LastTurn(a))
<1>. DEFINE r1 == [agent[a] EXCEPT !.pos = Pos(a) + 1]
            r2 == [r1 EXCEPT !.laps = LapsOn(a)]
<1>1. /\ Has(agent[a], At(a), Pos(a), Laps(a), Uses(a), Got(a)) /\ St(a) = StageOf(agent[a])
      /\ Pos(a) + 1 \in Nat /\ LapsOn(a) \in Nat
  BY AgentTyped DEF LapsOn
<1>2. Advance(agent[a]) = r2
  BY <1>1 DEF Advance, LapsOn, Pos, Laps
<1>3. Has(r1, At(a), Pos(a) + 1, Laps(a), Uses(a), Got(a))
  BY <1>1, Fields
<1>. HIDE DEF r1
<1>4. Has(r2, At(a), Pos(a) + 1, LapsOn(a), Uses(a), Got(a))
  BY <1>1, <1>3, Fields
<1>. HIDE DEF r2
<1>5. Finished(Advance(agent[a])) <=> LastTurn(a)
  BY <1>2, <1>4 DEF Finished, LastTurn, Has
<1>. QED BY <1>2, <1>4, <1>5

LEMMA TmaTurns ==
  ASSUME PipelineTypes, NEW c \in CTA, TmaRest(c, Advance(agent[tma(c)]))
  PROVE  Turns(tma(c))
<1>. DEFINE a == tma(c)
            n == Advance(agent[a])
            m == IF Finished(n) THEN Fetching(a, n) ELSE [n EXCEPT !.place = "run"]
            p == IF LastTurn(a) THEN FetchPlace(a) ELSE "run"
            k == IF LastTurn(a) THEN 0 ELSE Pos(a) + 1
<1>1. a \in Agent /\ a[1] = "tma"
  BY AgentNames, Kinds
<1>2. agent' = [agent EXCEPT ![a] = m]
  BY DEF TmaRest, tma
<1>. HIDE DEF a
<1>3. Has(n, At(a), Pos(a) + 1, LapsOn(a), Uses(a), Got(a)) /\ (Finished(n) <=> LastTurn(a))
  BY <1>1, Advanced
<1>. HIDE DEF n
<1>4. Has(Fetching(a, n), FetchPlace(a), 0, LapsOn(a), Uses(a), Got(a))
  BY <1>3, FetchingRec
<1>5. Has([n EXCEPT !.place = "run"], "run", Pos(a) + 1, LapsOn(a), Uses(a), Got(a))
  <2>1. "run" \in Place
    BY DEF Place
  <2>. QED BY <1>3, <2>1, Fields
<1>6. Has(m, p, k, LapsOn(a), Uses(a), Got(a))
  <2>1. CASE LastTurn(a)
    BY <1>3, <1>4, <2>1
  <2>2. CASE ~LastTurn(a)
    BY <1>3, <1>5, <2>2
  <2>. QED BY <2>1, <2>2
<1>. HIDE DEF m, p, k
<1>7. Becomes(a, p, k, LapsOn(a), Uses(a), Got(a))
  BY <1>1, <1>2, <1>6, Change
<1>8. (IF LastTurn(a) /\ a[1] = "mma" THEN Uses(a) + 1 ELSE Uses(a)) = Uses(a)
  BY <1>1
<1>. QED BY <1>7, <1>8 DEF Turns, p, k, a

LEMMA MmaTurns ==
  ASSUME PipelineTypes, NEW i \in Acc, MmaStage(i)
  PROVE  /\ Turns(mma(i)) /\ At(mma(i)) = "run" /\ Passed(bar[FULL(St(mma(i)))], Laps(mma(i)))
         /\ queue' = [queue EXCEPT ![i] = @ \o Issued(agent[mma(i)])]
<1>. DEFINE a == mma(i)
            n == Advance(agent[a])
            m == IF Finished(n) THEN [Fetching(a, n) EXCEPT !.uses = @ + 1] ELSE n
            p == IF LastTurn(a) THEN FetchPlace(a) ELSE "run"
            k == IF LastTurn(a) THEN 0 ELSE Pos(a) + 1
            u == IF LastTurn(a) THEN Uses(a) + 1 ELSE Uses(a)
<1>1. a \in Agent /\ a[1] = "mma"
  BY AgentNames, Kinds
<1>2. /\ At(a) = "run" /\ Passed(bar[FULL(St(a))], Laps(a))
      /\ queue' = [queue EXCEPT ![i] = @ \o Issued(agent[a])] /\ agent' = [agent EXCEPT ![a] = m]
  <2>1. St(a) = StageOf(agent[a])
    BY <1>1, AgentTyped
  <2>2. a = <<"mma", i>>
    BY DEF mma
  <2>. HIDE DEF a
  <2>. QED BY <2>1, <2>2 DEF MmaStage, At, Laps
<1>. HIDE DEF a
<1>3. Has(n, At(a), Pos(a) + 1, LapsOn(a), Uses(a), Got(a)) /\ (Finished(n) <=> LastTurn(a))
  BY <1>1, Advanced
<1>. HIDE DEF n
<1>4. Has([Fetching(a, n) EXCEPT !.uses = @ + 1], FetchPlace(a), 0, LapsOn(a), Uses(a) + 1, Got(a))
  <2>. DEFINE f == Fetching(a, n)
  <2>1. Has(f, FetchPlace(a), 0, LapsOn(a), Uses(a), Got(a))
    BY <1>3, FetchingRec
  <2>. HIDE DEF f
  <2>2. f.uses = Uses(a) /\ Uses(a) + 1 \in Nat
    BY <1>1, <2>1, AgentTyped DEF Has
  <2>3. Has([f EXCEPT !.uses = Uses(a) + 1], FetchPlace(a), 0, LapsOn(a), Uses(a) + 1, Got(a))
    BY <2>1, <2>2, Fields
  <2>4. [f EXCEPT !.uses = @ + 1] = [f EXCEPT !.uses = Uses(a) + 1]
    BY <2>2
  <2>5. Has([f EXCEPT !.uses = @ + 1], FetchPlace(a), 0, LapsOn(a), Uses(a) + 1, Got(a))
    BY <2>3, <2>4
  <2>. QED BY <2>5 DEF f
<1>5. Has(m, p, k, LapsOn(a), u, Got(a))
  <2>1. CASE LastTurn(a)
    BY <1>3, <1>4, <2>1
  <2>2. CASE ~LastTurn(a)
    BY <1>2, <1>3, <2>2
  <2>. QED BY <2>1, <2>2
<1>. HIDE DEF m, p, k, u
<1>7. Becomes(a, p, k, LapsOn(a), u, Got(a))
  BY <1>1, <1>2, <1>5, Change
<1>8. (IF LastTurn(a) /\ a[1] = "mma" THEN Uses(a) + 1 ELSE Uses(a)) = u
  BY <1>1 DEF u
<1>9. Turns(a)
  BY <1>7, <1>8 DEF Turns, p, k
<1>. QED BY <1>2, <1>9 DEF a

LEMMA ReadAgent ==
  ASSUME PipelineTypes, NEW c \in CTA, NEW i \in Acc, ConsumerWait(c, i)
  PROVE  LET a == con(c, i) IN
         /\ At(a) = "wait" /\ Passed(bar[TFULL(c, i)], Uses(a))
         /\ Becomes(a, "read", Pos(a), Laps(a), Uses(a) + 1, Got(a))
<1>. DEFINE a == con(c, i)
            r1 == [agent[a] EXCEPT !.place = "read"]
            r2 == [r1 EXCEPT !.uses = Uses(a) + 1]
<1>1. a \in Agent /\ a = <<"con", c, i>>
  BY AgentNames DEF con
<1>. HIDE DEF a
<1>2. /\ At(a) = "wait" /\ Passed(bar[TFULL(c, i)], Uses(a))
      /\ agent' = [agent EXCEPT ![a] = [agent[a] EXCEPT !.place = "read", !.uses = agent[a].uses + 1]]
  BY <1>1 DEF ConsumerWait, At, Uses
<1>3. agent' = [agent EXCEPT ![a] = r2]
  BY <1>2 DEF Uses
<1>4. Has(agent[a], At(a), Pos(a), Laps(a), Uses(a), Got(a)) /\ "read" \in Place /\ Uses(a) + 1 \in Nat
  BY <1>1, AgentTyped DEF Place
<1>5. Has(r1, "read", Pos(a), Laps(a), Uses(a), Got(a))
  BY <1>4, Fields
<1>. HIDE DEF r1
<1>6. Has(r2, "read", Pos(a), Laps(a), Uses(a) + 1, Got(a))
  BY <1>4, <1>5, Fields
<1>. HIDE DEF r2
<1>7. Becomes(a, "read", Pos(a), Laps(a), Uses(a) + 1, Got(a))
  BY <1>1, <1>3, <1>6, Change
<1>. QED BY <1>2, <1>7 DEF a

----------------------------------------------------------------------------
(* The steps, by what they change.                                           *)
OnlyBars(S) == bar' = [d \in Barrier |-> bar'[d]] /\ \A d \in Barrier \ S : bar'[d] = bar[d]

LEMMA PublishStep ==
  ASSUME PipelineTypes, Publish
  PROVE  /\ At(tma(0)) = "publish" /\ Passed(bar[C2P], packet.idx - 1) /\ Moves(tma(0), "idle")
         /\ packet'.type \in {"GEMM", "RS", "exit"} /\ packet'.idx = packet.idx + 1
         /\ packet' \in [type : {"none", "GEMM", "RS", "exit"}, idx : Nat]
         /\ OnlyBars({P2C(c) : c \in CTA}) /\ \A c \in CTA : bar'[P2C(c)] = Arrive(bar[P2C(c)])
         /\ UNCHANGED <<loading, smem, queue, acc>>
<1>1. At(tma(0)) = "publish" /\ Passed(bar[C2P], packet.idx - 1) /\ UNCHANGED <<loading, smem, queue, acc>>
  BY DEF Publish, At, tma
<1>2. Moves(tma(0), "idle")
  <2>1. agent' = [agent EXCEPT ![tma(0)].place = "idle"] /\ tma(0) \in Agent /\ "idle" \in Place
    BY AgentNames DEF Publish, tma, Place
  <2>. QED BY <2>1, Moved
<1>3. /\ packet'.type \in {"GEMM", "RS", "exit"} /\ packet'.idx = packet.idx + 1
      /\ packet' \in [type : {"none", "GEMM", "RS", "exit"}, idx : Nat]
  <2>1. PICK t \in Fetched : packet' = [type |-> t, idx |-> packet.idx + 1]
    BY DEF Publish
  <2>2. t \in {"GEMM", "RS", "exit"}
    BY <2>1 DEF Fetched
  <2>3. packet.idx + 1 \in Nat
    BY DEF PipelineTypes
  <2>. QED BY <2>1, <2>2, <2>3
<1>4. bar' = [b \in Barrier |-> IF b[1] = "p2c" THEN Arrive(bar[b]) ELSE bar[b]]
  BY DEF Publish
<1>5. \A b \in Barrier : b[1] = "p2c" <=> b \in {P2C(c) : c \in CTA}
  <2>1. \A c : P2C(c)[1] = "p2c"
    BY BarKinds
  <2>2. \A b \in Barrier : b[1] = "p2c" => \E c \in CTA : b = P2C(c)
    BY BarNames, BarKinds
  <2>. QED BY <2>1, <2>2
<1>6. \A c \in CTA : P2C(c) \in Barrier
  BY BarNames
<1>7. OnlyBars({P2C(c) : c \in CTA})
  BY <1>4, <1>5 DEF OnlyBars
<1>8. \A c \in CTA : bar'[P2C(c)] = Arrive(bar[P2C(c)])
  BY <1>4, <1>6, BarKinds
<1>. QED BY <1>1, <1>2, <1>3, <1>7, <1>8

LEMMA ReceiveStep ==
  ASSUME PipelineTypes, NEW a \in Agent, Receive(a)
  PROVE  /\ bar'[C2P] = Arrive(bar[C2P]) /\ OnlyBars({C2P})
         /\ UNCHANGED <<packet, loading, smem, queue, acc>>
<1>1. bar' = [bar EXCEPT ![C2P] = Arrive(bar[C2P])] /\ UNCHANGED <<packet, loading, smem, queue, acc>>
  BY DEF Receive
<1>2. C2P \in Barrier
  BY BarNames
<1>. QED BY <1>1, <1>2, OneBar DEF OnlyBars

LEMMA NoBar == ASSUME PipelineTypes, bar' = bar PROVE OnlyBars({})
BY DEF PipelineTypes, OnlyBars

Loads(c) == Pos(tma(c)) < K_BLOCKS
LEMMA TmaStageStep ==
  ASSUME PipelineTypes, NEW c \in CTA, TmaStage(c)
  PROVE  LET a == tma(c) IN
         /\ At(a) = "run" /\ Passed(bar[EMPTY(c, St(a))], Laps(a) - 1)
         /\ loading' = IF Loads(c) THEN loading \cup {<<c, St(a), <<Got(a), Pos(a)>>>>} ELSE loading
         /\ IF Loads(c) /\ c = 0 THEN Moves(a, "expect") ELSE Turns(a)
         /\ Loads(c) \/ c = 1 => bar' = bar
         /\ OnlyBars({FULL(St(a))}) /\ UNCHANGED <<packet, smem, queue, acc>>
<1>. DEFINE a == tma(c)
<1>1. a \in Agent /\ a = <<"tma", c>> /\ c \in {0, 1}
  BY AgentNames DEF tma
<1>. HIDE DEF a
<1>2. St(a) = StageOf(agent[a]) /\ FULL(St(a)) \in Barrier
  BY <1>1, AgentTyped, BarNames
<1>3. /\ At(a) = "run" /\ Passed(bar[EMPTY(c, St(a))], Laps(a) - 1) /\ UNCHANGED <<packet, smem, queue, acc>>
      /\ loading' = IF Pos(a) < K_BLOCKS THEN loading \cup {<<c, St(a), <<Got(a), Pos(a)>>>>} ELSE loading
  BY <1>1, <1>2 DEF TmaStage, At, Pos, Laps, Got, Block
<1>4. bar' = IF ~(Pos(a) < K_BLOCKS) /\ c = 0 THEN [bar EXCEPT ![FULL(St(a))] = Arrive(bar[FULL(St(a))])] ELSE bar
  BY <1>1, <1>2 DEF TmaStage, Pos
<1>5. OnlyBars({FULL(St(a))})
  <2>1. CASE bar' = bar
    BY <2>1, NoBar DEF OnlyBars
  <2>2. CASE bar' = [bar EXCEPT ![FULL(St(a))] = Arrive(bar[FULL(St(a))])]
    BY <1>2, <2>2, OneBar DEF OnlyBars
  <2>. QED BY <1>4, <2>1, <2>2
<1>6. IF Pos(a) < K_BLOCKS /\ c = 0 THEN Moves(a, "expect") ELSE Turns(a)
  <2>1. CASE Pos(a) < K_BLOCKS /\ c = 0
    <3>1. agent' = [agent EXCEPT ![a].place = "expect"] /\ "expect" \in Place
      BY <1>1, <2>1 DEF TmaStage, Pos, Place
    <3>. QED BY <1>1, <2>1, <3>1, Moved
  <2>2. CASE ~(Pos(a) < K_BLOCKS /\ c = 0)
    <3>1. TmaRest(c, Advance(agent[a]))
      BY <1>1, <2>2 DEF TmaStage, Pos
    <3>2. Turns(a)
      BY <3>1, TmaTurns DEF a
    <3>. QED BY <2>2, <3>2
  <2>. QED BY <2>1, <2>2
<1>. QED BY <1>1, <1>3, <1>4, <1>5, <1>6 DEF Loads, a

LEMMA TmaExpectStep ==
  ASSUME PipelineTypes, TmaExpect
  PROVE  LET a == tma(0) IN
         /\ At(a) = "expect" /\ Turns(a)
         /\ bar'[FULL(St(a))] = ArriveExpect(bar[FULL(St(a))], 2) /\ OnlyBars({FULL(St(a))})
         /\ UNCHANGED <<packet, loading, smem, queue, acc>>
<1>. DEFINE a == tma(0)
<1>1. a \in Agent /\ a = <<"tma", 0>> /\ 0 \in CTA
  BY AgentNames DEF tma
<1>. HIDE DEF a
<1>2. St(a) = StageOf(agent[a]) /\ FULL(St(a)) \in Barrier
  BY <1>1, AgentTyped, BarNames
<1>3. /\ At(a) = "expect" /\ UNCHANGED <<packet, loading, smem, queue, acc>>
      /\ bar' = [bar EXCEPT ![FULL(St(a))] = ArriveExpect(bar[FULL(St(a))], 2)]
      /\ TmaRest(0, Advance(agent[a]))
  BY <1>1, <1>2 DEF TmaExpect, At
<1>4. Turns(a)
  BY <1>1, <1>3, TmaTurns DEF a
<1>5. bar'[FULL(St(a))] = ArriveExpect(bar[FULL(St(a))], 2) /\ OnlyBars({FULL(St(a))})
  BY <1>2, <1>3, OneBar DEF OnlyBars
<1>. QED BY <1>3, <1>4, <1>5 DEF a

LEMMA TransferStep ==
  ASSUME PipelineTypes, NEW t \in loading, Transfer(t)
  PROVE  /\ t[1] \in CTA /\ t[2] \in Stage /\ t = <<t[1], t[2], t[3]>> /\ loading' = loading \ {t}
         /\ smem' = [smem EXCEPT ![t[1]][t[2]] = t[3]]
         /\ bar'[FULL(t[2])] = Landed(bar[FULL(t[2])]) /\ OnlyBars({FULL(t[2])})
         /\ UNCHANGED <<agent, packet, queue, acc>>
<1>1. t[1] \in CTA /\ t[2] \in Stage /\ t = <<t[1], t[2], t[3]>>
  BY DEF PipelineTypes
<1>2. FULL(t[2]) \in Barrier
  BY <1>1, BarNames
<1>3. bar' = [bar EXCEPT ![FULL(t[2])] = Landed(bar[FULL(t[2])])]
  BY DEF Transfer
<1>4. bar'[FULL(t[2])] = Landed(bar[FULL(t[2])]) /\ OnlyBars({FULL(t[2])})
  BY <1>2, <1>3, OneBar DEF OnlyBars
<1>. QED BY <1>1, <1>4 DEF Transfer

LEMMA AcquireStep ==
  ASSUME PipelineTypes, NEW i \in Acc, MmaAcquire(i)
  PROVE  LET a == mma(i) IN
         /\ At(a) = "acquire" /\ Passed(bar[TEMPTY(i)], Uses(a) - 1) /\ Moves(a, "run")
         /\ UNCHANGED <<bar, packet, loading, smem, queue, acc>>
<1>. DEFINE a == mma(i)
<1>1. a \in Agent /\ a = <<"mma", i>> /\ "run" \in Place
  BY AgentNames DEF mma, Place
<1>. HIDE DEF a
<1>2. /\ At(a) = "acquire" /\ Passed(bar[TEMPTY(i)], Uses(a) - 1) /\ agent' = [agent EXCEPT ![a].place = "run"]
      /\ UNCHANGED <<bar, packet, loading, smem, queue, acc>>
  BY <1>1 DEF MmaAcquire, At, Uses
<1>3. Moves(a, "run")
  BY <1>1, <1>2, Moved
<1>. QED BY <1>2, <1>3 DEF a

LEMMA CommitStep ==
  ASSUME PipelineTypes, NEW i \in Acc, TensorCommit(i)
  PROVE  LET x == Head(queue[i]) IN
         /\ queue[i] # <<>> /\ x.op # "mma" /\ queue' = [queue EXCEPT ![i] = Tail(@)]
         /\ x.op = "free" /\ x.stage \in Stage =>
              /\ \A c \in CTA : bar'[EMPTY(c, x.stage)] = Arrive(bar[EMPTY(c, x.stage)])
              /\ OnlyBars({EMPTY(c, x.stage) : c \in CTA})
         /\ x.op # "free" =>
              /\ \A c \in CTA : bar'[TFULL(c, i)] = Arrive(bar[TFULL(c, i)])
              /\ OnlyBars({TFULL(c, i) : c \in CTA})
         /\ bar' = [d \in Barrier |-> bar'[d]]
         /\ UNCHANGED <<agent, packet, loading, smem, acc>>
<1>. DEFINE x == Head(queue[i])
<1>1. /\ queue[i] # <<>> /\ x.op # "mma" /\ queue' = [queue EXCEPT ![i] = Tail(@)]
      /\ bar' = [b \in Barrier |-> IF b \in Committed(i, x) THEN Arrive(bar[b]) ELSE bar[b]]
      /\ UNCHANGED <<agent, packet, loading, smem, acc>>
  BY DEF TensorCommit
<1>. HIDE DEF x
<1>2. x.op = "free" => Committed(i, x) = {EMPTY(c, x.stage) : c \in CTA}
  BY DEF Committed
<1>3. x.op # "free" => Committed(i, x) = {TFULL(c, i) : c \in CTA}
  BY DEF Committed
<1>4. \A c \in CTA : TFULL(c, i) \in Barrier /\ (x.stage \in Stage => EMPTY(c, x.stage) \in Barrier)
  BY BarNames
<1>5. ASSUME NEW S, Committed(i, x) = S
      PROVE  OnlyBars(S) /\ \A b \in Barrier : b \in S => bar'[b] = Arrive(bar[b])
  BY <1>1, <1>5 DEF OnlyBars
<1>6. ASSUME x.op = "free", x.stage \in Stage
      PROVE  /\ \A c \in CTA : bar'[EMPTY(c, x.stage)] = Arrive(bar[EMPTY(c, x.stage)])
             /\ OnlyBars({EMPTY(c, x.stage) : c \in CTA})
  BY <1>2, <1>4, <1>5, <1>6
<1>7. ASSUME x.op # "free"
      PROVE  /\ \A c \in CTA : bar'[TFULL(c, i)] = Arrive(bar[TFULL(c, i)])
             /\ OnlyBars({TFULL(c, i) : c \in CTA})
  BY <1>3, <1>4, <1>5, <1>7
<1>8. bar' = [d \in Barrier |-> bar'[d]]
  BY <1>1
<1>. QED BY <1>1, <1>6, <1>7, <1>8 DEF x

LEMMA DoneStep ==
  ASSUME PipelineTypes, NEW c \in CTA, NEW i \in Acc, ConsumerDone(c, i)
  PROVE  LET a == con(c, i) IN
         /\ At(a) = "read" /\ Moves(a, "idle")
         /\ bar'[TEMPTY(i)] = Arrive(bar[TEMPTY(i)]) /\ OnlyBars({TEMPTY(i)})
         /\ UNCHANGED <<packet, loading, smem, queue, acc>>
<1>. DEFINE a == con(c, i)
<1>1. a \in Agent /\ a = <<"con", c, i>> /\ "idle" \in Place /\ TEMPTY(i) \in Barrier
  BY AgentNames, BarNames DEF con, Place
<1>. HIDE DEF a
<1>2. /\ At(a) = "read" /\ bar' = [bar EXCEPT ![TEMPTY(i)] = Arrive(bar[TEMPTY(i)])]
      /\ agent' = [agent EXCEPT ![a].place = "idle"]
      /\ UNCHANGED <<packet, loading, smem, queue, acc>>
  BY <1>1 DEF ConsumerDone, At
<1>3. Moves(a, "idle")
  BY <1>1, <1>2, Moved
<1>4. bar'[TEMPTY(i)] = Arrive(bar[TEMPTY(i)]) /\ OnlyBars({TEMPTY(i)})
  BY <1>1, <1>2, OneBar DEF OnlyBars
<1>. QED BY <1>2, <1>3, <1>4 DEF a

LEMMA TensorMmaStep ==
  ASSUME PipelineTypes, NEW i \in Acc, TensorMma(i)
  PROVE  LET x == Head(queue[i]) IN
         /\ queue[i] # <<>> /\ x.op = "mma" /\ queue' = [queue EXCEPT ![i] = Tail(@)]
         /\ acc' = [acc EXCEPT ![i] = (IF x.first THEN <<>> ELSE @) \o <<<<smem[0][x.stage], smem[1][x.stage]>>>>]
         /\ UNCHANGED <<bar, agent, packet, loading, smem>>
BY DEF TensorMma

LEMMA StepCases ==
  ASSUME Step
  PROVE  \/ \E a \in Agent : Receive(a)
         \/ Publish
         \/ \E c \in CTA : TmaStage(c)
         \/ TmaExpect
         \/ \E t \in loading : Transfer(t)
         \/ \E i \in Acc : MmaAcquire(i) \/ MmaStage(i) \/ TensorMma(i) \/ TensorCommit(i)
         \/ \E c \in CTA, i \in Acc : ConsumerWait(c, i) \/ ConsumerDone(c, i)
BY DEF Step, Tma, Copies, Mma, Tensor, Consumer

(* What a turn of an MMA warp appends to its queue.                          *)
LEMMA IssuedOps ==
  ASSUME PipelineTypes, NEW a \in Agent
  PROVE  LET q == Issued(agent[a])
             p == Pos(a) IN
         /\ q \in Seq(Op)
         /\ p < K_BLOCKS => /\ Len(q) = IF p = K_BLOCKS - 1 THEN 3 ELSE 2
                            /\ \A k \in 1 .. Len(q) : q[k] = OpAt(2 * p + k - 1)
<1>. DEFINE p == Pos(a)
            s == St(a)
            m == [op |-> "mma", stage |-> s, first |-> p = 0]
            f == [op |-> "free", stage |-> s]
            d == [op |-> "done"]
            q1 == IF p < K_BLOCKS THEN <<m>> ELSE <<>>
            q3 == IF p = K_BLOCKS - 1 THEN <<d>> ELSE <<>>
            q == Issued(agent[a])
<1>1. p \in Nat /\ s \in Stage /\ s = StageOf(agent[a]) /\ s = StageAt(p)
  BY AgentTyped DEF St
<1>2. K_BLOCKS \in Nat \ {0}
  BY Shaped DEF PipelineTypes
<1>3. q = q1 \o <<f>> \o q3
  BY <1>1 DEF Issued, Pos
<1>4. m \in Op /\ f \in Op /\ d \in Op
  BY <1>1 DEF Op
<1>5. <<m>> \in Seq(Op) /\ <<f>> \in Seq(Op) /\ <<d>> \in Seq(Op) /\ <<>> \in Seq(Op)
  BY <1>4
<1>6. Len(<<m>>) = 1 /\ <<m>>[1] = m /\ Len(<<f>>) = 1 /\ <<f>>[1] = f /\ Len(<<d>>) = 1 /\ <<d>>[1] = d
  OBVIOUS
<1>o. p < K_BLOCKS => /\ OpAt(2 * p + 1 - 1) = m /\ OpAt(2 * p + 2 - 1) = f
                      /\ p = K_BLOCKS - 1 => OpAt(2 * p + 3 - 1) = d
  <2>. SUFFICES ASSUME p < K_BLOCKS
                PROVE  /\ OpAt(2 * p + 1 - 1) = m /\ OpAt(2 * p + 2 - 1) = f
                       /\ p = K_BLOCKS - 1 => OpAt(2 * p + 3 - 1) = d
    OBVIOUS
  <2>. HIDE DEF p, s
  <2>1. 2 * p + 1 - 1 = 2 * p /\ 2 * p + 2 - 1 = 2 * p + 1 /\ (p = K_BLOCKS - 1 => 2 * p + 3 - 1 = 2 * K_BLOCKS)
    BY <1>1, <1>2
  <2>2. (2 * p) % 2 = 0 /\ (2 * p) \div 2 = p /\ (2 * p + 1) % 2 = 1 /\ (2 * p + 1) \div 2 = p
    BY <1>1
  <2>3. 2 * p # 2 * K_BLOCKS /\ 2 * p + 1 # 2 * K_BLOCKS
    BY <1>1, <1>2
  <2>4. OpAt(2 * p) = m
    BY <1>1, <2>2, <2>3 DEF OpAt
  <2>5. OpAt(2 * p + 1) = f
    BY <1>1, <2>2, <2>3 DEF OpAt
  <2>6. OpAt(2 * K_BLOCKS) = d
    BY DEF OpAt
  <2>. QED BY <2>1, <2>4, <2>5, <2>6
<1>. HIDE DEF m, f, d
<1>7. q1 \in Seq(Op) /\ q3 \in Seq(Op)
  BY <1>5
<1>8. /\ q1 \o <<f>> \in Seq(Op) /\ Len(q1 \o <<f>>) = Len(q1) + 1
      /\ \A k \in 1 .. Len(q1) + 1 : (q1 \o <<f>>)[k] = IF k <= Len(q1) THEN q1[k] ELSE <<f>>[k - Len(q1)]
  BY <1>5, <1>6, <1>7, ConcatProperties
<1>9. /\ q \in Seq(Op) /\ Len(q) = Len(q1 \o <<f>>) + Len(q3)
      /\ \A k \in 1 .. Len(q1 \o <<f>>) + Len(q3) :
           q[k] = IF k <= Len(q1 \o <<f>>) THEN (q1 \o <<f>>)[k] ELSE q3[k - Len(q1 \o <<f>>)]
  BY <1>3, <1>7, <1>8, ConcatProperties
<1>. HIDE DEF q
<1>10. ASSUME p < K_BLOCKS
       PROVE  /\ Len(q) = IF p = K_BLOCKS - 1 THEN 3 ELSE 2
              /\ \A k \in 1 .. Len(q) : q[k] = OpAt(2 * p + k - 1)
  <2>1. q1 = <<m>> /\ Len(q1) = 1 /\ q1[1] = m
    BY <1>6, <1>10
  <2>2. Len(q3) = IF p = K_BLOCKS - 1 THEN 1 ELSE 0
    BY <1>6
  <2>3. p = K_BLOCKS - 1 => q3[1] = d
    BY <1>6
  <2>. HIDE DEF q1, q3
  <2>4. Len(q1 \o <<f>>) = 2 /\ (q1 \o <<f>>)[1] = m /\ (q1 \o <<f>>)[2] = f
    BY <1>6, <1>8, <2>1
  <2>5. Len(q) = IF p = K_BLOCKS - 1 THEN 3 ELSE 2
    BY <1>9, <2>2, <2>4
  <2>6. q[1] = m /\ q[2] = f /\ (p = K_BLOCKS - 1 => q[3] = d)
    BY <1>9, <2>2, <2>3, <2>4
  <2>7. Len(q) \in {2, 3} /\ (Len(q) = 3 => p = K_BLOCKS - 1)
    BY <2>5
  <2>8. \A k \in 1 .. Len(q) : k = 1 \/ k = 2 \/ (k = 3 /\ p = K_BLOCKS - 1)
    <3>1. \A n \in {2, 3} : \A k \in 1 .. n : k = 1 \/ k = 2 \/ (k = 3 /\ n = 3)
      OBVIOUS
    <3>. QED BY <2>7, <3>1
  <2>9. \A k \in 1 .. Len(q) : q[k] = OpAt(2 * p + k - 1)
    BY <1>o, <1>10, <2>6, <2>8
  <2>. QED BY <2>5, <2>9
<1>. QED BY <1>9, <1>10 DEF q

(* Types.                                                                    *)
LEMMA TypesInit == ASSUME Init PROVE PipelineTypes
<1>1. agent \in [Agent -> AgentRecord]
  BY DEF Init, AgentRecord, Place
<1>2. bar = [b \in Barrier |-> bar[b]]
  BY DEF Init
<1>3. /\ packet \in [type : {"none", "GEMM", "RS", "exit"}, idx : Nat] /\ shape \in Shapes
      /\ loading \in SUBSET (CTA \X Stage \X (Nat \X Nat)) /\ queue \in [Acc -> Seq(Op)]
  BY DEF Init
<1>4. smem = [c \in CTA |-> [s \in Stage |-> smem[c][s]]]
  <2>1. smem = [c \in CTA |-> [s \in Stage |-> NoBlock]]
    BY DEF Init
  <2>. HIDE DEF NoBlock
  <2>2. \A c \in CTA : [s \in Stage |-> smem[c][s]] = [s \in Stage |-> NoBlock]
    BY <2>1
  <2>. QED BY <2>1, <2>2
<1>5. acc = [i \in Acc |-> acc[i]]
  BY DEF Init
<1>. QED BY <1>1, <1>2, <1>3, <1>4, <1>5 DEF PipelineTypes

LEMMA TypesStep ==
  ASSUME PipelineTypes, Step, UNCHANGED shape
  PROVE  PipelineTypes'
<1>. DEFINE AgentOk == agent' \in [Agent -> AgentRecord]
            BarOk == bar' = [d \in Barrier |-> bar'[d]]
            PacketOk == packet' \in [type : {"none", "GEMM", "RS", "exit"}, idx : Nat]
            LoadingOk == loading' \in SUBSET (CTA \X Stage \X (Nat \X Nat))
            SmemOk == smem' = [c \in CTA |-> [s \in Stage |-> smem'[c][s]]]
            QueueOk == queue' \in [Acc -> Seq(Op)]
            AccOk == acc' = [i \in Acc |-> acc'[i]]
<1>1. /\ UNCHANGED agent => AgentOk
      /\ \A a, p, k, l, u, n : Becomes(a, p, k, l, u, n) => AgentOk
      /\ \A a, p : Moves(a, p) => AgentOk
      /\ \A a : Turns(a) => AgentOk
  BY DEF PipelineTypes, Becomes, Moves, Turns
<1>2. /\ UNCHANGED bar => BarOk
      /\ \A S : OnlyBars(S) => BarOk
  BY DEF PipelineTypes, OnlyBars
<1>3. /\ UNCHANGED packet => PacketOk
      /\ UNCHANGED loading => LoadingOk
      /\ UNCHANGED smem => SmemOk
      /\ UNCHANGED queue => QueueOk
      /\ UNCHANGED acc => AccOk
  BY DEF PipelineTypes
<1>. DEFINE Ok == AgentOk /\ BarOk /\ PacketOk /\ LoadingOk /\ SmemOk /\ QueueOk /\ AccOk
<1>4. Ok => PipelineTypes'
  BY Fixed DEF PipelineTypes
<1>. HIDE DEF AgentOk, BarOk
<1>5. ASSUME NEW a \in Agent, Receive(a) PROVE Ok
  <2>. HIDE DEF PacketOk, LoadingOk, SmemOk, QueueOk, AccOk
  <2>. QED BY <1>1, <1>2, <1>3, <1>5, ReceiveAgent, ReceiveStep
<1>6. ASSUME Publish PROVE Ok
  <2>1. PacketOk
    BY <1>6, PublishStep
  <2>. HIDE DEF PacketOk, LoadingOk, SmemOk, QueueOk, AccOk
  <2>. QED BY <1>1, <1>2, <1>3, <1>6, <2>1, PublishStep
<1>7. ASSUME NEW c \in CTA, TmaStage(c) PROVE Ok
  <2>1. LoadingOk
    <3>1. loading' \subseteq loading \cup {<<c, St(tma(c)), <<Got(tma(c)), Pos(tma(c))>>>>}
      BY <1>7, TmaStageStep
    <3>2. St(tma(c)) \in Stage /\ Got(tma(c)) \in Nat /\ Pos(tma(c)) \in Nat
      BY AgentNames, AgentTyped
    <3>. QED BY <3>1, <3>2 DEF PipelineTypes
  <2>. HIDE DEF PacketOk, LoadingOk, SmemOk, QueueOk, AccOk
  <2>2. Moves(tma(c), "expect") \/ Turns(tma(c))
    BY <1>7, TmaStageStep
  <2>. QED BY <1>1, <1>2, <1>3, <1>7, <2>1, <2>2, TmaStageStep
<1>8. ASSUME TmaExpect PROVE Ok
  <2>. HIDE DEF PacketOk, LoadingOk, SmemOk, QueueOk, AccOk
  <2>. QED BY <1>1, <1>2, <1>3, <1>8, TmaExpectStep
<1>9. ASSUME NEW t \in loading, Transfer(t) PROVE Ok
  <2>1. LoadingOk
    BY <1>9, TransferStep DEF PipelineTypes
  <2>2. SmemOk
    <3>1. smem' = [smem EXCEPT ![t[1]][t[2]] = t[3]] /\ t[1] \in CTA /\ t[2] \in Stage
      BY <1>9, TransferStep
    <3>2. smem = [c \in CTA |-> [s \in Stage |-> smem[c][s]]]
      BY DEF PipelineTypes
    <3>. QED BY <3>1, <3>2
  <2>. HIDE DEF PacketOk, LoadingOk, SmemOk, QueueOk, AccOk
  <2>. QED BY <1>1, <1>2, <1>3, <1>9, <2>1, <2>2, TransferStep
<1>10. ASSUME NEW i \in Acc, MmaAcquire(i) PROVE Ok
  <2>. HIDE DEF PacketOk, LoadingOk, SmemOk, QueueOk, AccOk
  <2>. QED BY <1>1, <1>2, <1>3, <1>10, AcquireStep
<1>11. ASSUME NEW i \in Acc, MmaStage(i) PROVE Ok
  <2>1. Turns(mma(i)) /\ queue' = [queue EXCEPT ![i] = @ \o Issued(agent[mma(i)])]
    BY <1>11, MmaTurns
  <2>2. UNCHANGED <<bar, packet, loading, smem, acc>>
    BY <1>11 DEF MmaStage
  <2>3. Issued(agent[mma(i)]) \in Seq(Op)
    BY AgentNames, IssuedOps
  <2>4. QueueOk
    <3>1. queue[i] \o Issued(agent[mma(i)]) \in Seq(Op) /\ queue \in [Acc -> Seq(Op)]
      BY <2>3, ConcatProperties DEF PipelineTypes
    <3>. QED BY <2>1, <3>1
  <2>. HIDE DEF PacketOk, LoadingOk, SmemOk, QueueOk, AccOk
  <2>. QED BY <1>1, <1>2, <1>3, <2>1, <2>2, <2>4
<1>12. ASSUME NEW i \in Acc, queue[i] # <<>>, queue' = [queue EXCEPT ![i] = Tail(@)] PROVE QueueOk
  <2>1. Tail(queue[i]) \in Seq(Op) /\ queue \in [Acc -> Seq(Op)]
    BY <1>12, HeadTailProperties DEF PipelineTypes
  <2>. QED BY <1>12, <2>1
<1>13. ASSUME NEW i \in Acc, TensorMma(i) PROVE Ok
  <2>1. QueueOk /\ UNCHANGED <<bar, agent, packet, loading, smem>>
    BY <1>12, <1>13, TensorMmaStep
  <2>2. AccOk
    <3>1. PICK v : acc' = [acc EXCEPT ![i] = v]
      BY <1>13 DEF TensorMma
    <3>. QED BY <3>1 DEF PipelineTypes
  <2>. HIDE DEF PacketOk, LoadingOk, SmemOk, QueueOk, AccOk
  <2>. QED BY <1>1, <1>2, <1>3, <2>1, <2>2
<1>14. ASSUME NEW i \in Acc, TensorCommit(i) PROVE Ok
  <2>1. QueueOk
    BY <1>12, <1>14, CommitStep
  <2>2. bar' = [d \in Barrier |-> bar'[d]] /\ UNCHANGED <<agent, packet, loading, smem, acc>>
    BY <1>14, CommitStep
  <2>3. BarOk
    BY <2>2 DEF BarOk
  <2>. HIDE DEF PacketOk, LoadingOk, SmemOk, QueueOk, AccOk
  <2>. QED BY <1>1, <1>3, <2>1, <2>2, <2>3
<1>15. ASSUME NEW c \in CTA, NEW i \in Acc, ConsumerWait(c, i) PROVE Ok
  <2>1. UNCHANGED <<bar, packet, loading, smem, queue, acc>>
    BY <1>15 DEF ConsumerWait
  <2>. HIDE DEF PacketOk, LoadingOk, SmemOk, QueueOk, AccOk
  <2>2. AgentOk
    BY <1>1, <1>15, ReadAgent
  <2>. QED BY <1>1, <1>2, <1>3, <2>1, <2>2
<1>16. ASSUME NEW c \in CTA, NEW i \in Acc, ConsumerDone(c, i) PROVE Ok
  <2>. HIDE DEF PacketOk, LoadingOk, SmemOk, QueueOk, AccOk
  <2>. QED BY <1>1, <1>2, <1>3, <1>16, DoneStep
<1>17. Ok
  <2>. HIDE DEF Ok
  <2>. QED BY StepCases, <1>5, <1>6, <1>7, <1>8, <1>9, <1>10, <1>11, <1>13, <1>14, <1>15, <1>16
<1>. QED BY <1>4, <1>17

----------------------------------------------------------------------------
(* Packets.                                                                  *)
LEMMA Same ==
  ASSUME UNCHANGED shape, NEW x, agent'[x] = agent[x]
  PROVE  At(x)' = At(x) /\ Pos(x)' = Pos(x) /\ Laps(x)' = Laps(x) /\ Uses(x)' = Uses(x) /\ Got(x)' = Got(x)
         /\ St(x)' = St(x)
<1>1. At(x)' = At(x) /\ Pos(x)' = Pos(x) /\ Laps(x)' = Laps(x) /\ Uses(x)' = Uses(x) /\ Got(x)' = Got(x)
  BY DEF At, Pos, Laps, Uses, Got
<1>. QED BY <1>1, Fixed DEF St, StageAt

LEMMA Places ==
  /\ PlacesOf(tma(0)) = {"publish", "idle", "run", "expect", "left"}
  /\ PlacesOf(tma(1)) = {"idle", "run", "left"}
  /\ \A i : PlacesOf(mma(i)) = {"idle", "acquire", "run", "left"}
  /\ \A c, i : PlacesOf(con(c, i)) = {"idle", "wait", "read", "left"}
  /\ PlacesOf(<<"rest", 1>>) = {"idle", "left"}
<1>1. PlacesOf(tma(0)) = {"publish", "idle", "run", "expect", "left"}
  BY Apart, Kinds DEF PlacesOf
<1>2. PlacesOf(tma(1)) = {"idle", "run", "left"}
  <2>1. tma(1) # tma(0)
    BY Apart
  <2>. QED BY <2>1, Kinds DEF PlacesOf
<1>3. \A i : PlacesOf(mma(i)) = {"idle", "acquire", "run", "left"}
  BY Apart, Kinds DEF PlacesOf
<1>4. \A c, i : PlacesOf(con(c, i)) = {"idle", "wait", "read", "left"}
  BY Apart, Kinds DEF PlacesOf
<1>5. PlacesOf(<<"rest", 1>>) = {"idle", "left"}
  BY Apart, Kinds DEF PlacesOf
<1>. QED BY <1>1, <1>2, <1>3, <1>4, <1>5

LEMMA PacketOnly ==
  ASSUME NEW S, OnlyBars(S), \A b \in S : b[1] \notin {"p2c", "c2p"}
  PROVE  bar'[C2P] = bar[C2P] /\ \A c \in CTA : bar'[P2C(c)] = bar[P2C(c)]
<1>1. C2P \in Barrier \ S
  BY BarNames, BarKinds
<1>2. \A c \in CTA : P2C(c) \in Barrier \ S
  BY BarNames, BarKinds
<1>. QED BY <1>1, <1>2 DEF OnlyBars

PacketBarsKept == bar'[C2P] = bar[C2P] /\ \A c \in CTA : bar'[P2C(c)] = bar[P2C(c)]

LEMMA PacketKept ==
  ASSUME PacketInv, UNCHANGED packet, PacketBarsKept,
         \A a \in Agent : Got(a)' = Got(a) /\ At(a)' \in PlacesOf(a),
         At(tma(0))' # "idle" => At(tma(0)) # "idle"
  PROVE  PacketInv'
<1>1. Receivers' = Receivers
  BY DEF Receivers
<1>2. tma(0) \in Agent
  BY AgentNames
<1>3. \A a \in Agent : Got(a)' \in {packet'.idx - 1, packet'.idx} /\ At(a)' \in PlacesOf(a)
  BY DEF PacketInv
<1>4. \A c \in CTA : bar'[P2C(c)] = Bar(packet'.idx, 1, 0, 1)
  BY DEF PacketInv, PacketBarsKept
<1>5. bar'[C2P] = IF Receivers' = Agent THEN Bar(packet'.idx, All, 0, All)
                  ELSE Bar(packet'.idx - 1, All - Cardinality(Receivers'), 0, All)
  BY <1>1 DEF PacketInv, PacketBarsKept
<1>6. At(tma(0))' # "idle" => Got(tma(0))' = packet'.idx
  BY <1>2 DEF PacketInv
<1>. QED BY <1>3, <1>4, <1>5, <1>6 DEF PacketInv

LEMMA PacketMoves ==
  ASSUME PacketInv, UNCHANGED <<packet, shape>>, PacketBarsKept, NEW a \in Agent, NEW p, NEW k, NEW l, NEW u,
         Becomes(a, p, k, l, u, Got(a)), p \in PlacesOf(a), At(a) # "idle"
  PROVE  PacketInv'
<1>1. \A x \in Agent \ {a} : Got(x)' = Got(x) /\ At(x)' = At(x)
  BY Same DEF Becomes
<1>2. Got(a)' = Got(a) /\ At(a)' = p
  BY DEF Becomes
<1>3. \A x \in Agent : Got(x)' = Got(x) /\ At(x)' \in PlacesOf(x)
  BY <1>1, <1>2 DEF PacketInv
<1>4. At(tma(0))' # "idle" => At(tma(0)) # "idle"
  BY <1>1, AgentNames
<1>. QED BY <1>3, <1>4, PacketKept

LEMMA ReceiversFinite ==
  /\ IsFiniteSet(Receivers) /\ Cardinality(Receivers) \in Nat /\ Receivers \subseteq Agent
  /\ Cardinality(Receivers) <= All /\ (Cardinality(Receivers) = All <=> Receivers = Agent)
<1>1. Receivers \subseteq Agent
  BY DEF Receivers
<1>. QED BY <1>1, AgentCount, FS_Subset, FS_CardinalityType DEF All

LEMMA NextPlaces == \A a \in Agent : NextPlace(a) \in PlacesOf(a)
<1>. TAKE a \in Agent
<1>1. CASE a = tma(0)
  BY <1>1, Places, Kinds DEF NextPlace, Starts, RolePlace, FetchPlace
<1>2. CASE a = tma(1)
  <2>1. a # tma(0) /\ a[1] = "tma"
    BY <1>2, Apart, Kinds
  <2>. QED BY <1>2, <2>1, Places DEF NextPlace, Starts, RolePlace, FetchPlace
<1>3. ASSUME NEW i \in Acc, a = mma(i) PROVE NextPlace(a) \in PlacesOf(a)
  <2>1. a # tma(0) /\ a[1] = "mma"
    BY <1>3, Apart, Kinds
  <2>. QED BY <1>3, <2>1, Places DEF NextPlace, Starts, RolePlace, FetchPlace
<1>4. ASSUME NEW c \in CTA, NEW i \in Acc, a = con(c, i) PROVE NextPlace(a) \in PlacesOf(a)
  <2>1. a # tma(0) /\ a[1] = "con"
    BY <1>4, Apart, Kinds
  <2>. QED BY <1>4, <2>1, Places DEF NextPlace, Starts, RolePlace, FetchPlace
<1>5. CASE a = <<"rest", 1>>
  <2>1. a # tma(0) /\ a[1] = "rest"
    BY <1>5, Apart, Kinds
  <2>. QED BY <1>5, <2>1, Places DEF NextPlace, Starts, RolePlace, FetchPlace
<1>6. (\E c \in CTA : a = tma(c)) => a = tma(0) \/ a = tma(1)
  BY AgentNames
<1>. QED BY <1>1, <1>2, <1>3, <1>4, <1>5, <1>6, AgentNames

LEMMA PacketPublish ==
  ASSUME PipelineTypes, PacketInv, UNCHANGED shape, Publish
  PROVE  PacketInv' /\ Receivers = Agent
<1>1. /\ Passed(bar[C2P], packet.idx - 1) /\ Moves(tma(0), "idle") /\ packet'.idx = packet.idx + 1
      /\ OnlyBars({P2C(c) : c \in CTA}) /\ \A c \in CTA : bar'[P2C(c)] = Arrive(bar[P2C(c)])
  BY PublishStep
<1>2. packet.idx \in Nat /\ All \in Nat /\ All >= 1 /\ Cardinality(Receivers) \in Nat
  BY AgentCount, ReceiversFinite DEF PipelineTypes
<1>3. Receivers = Agent /\ bar[C2P] = Bar(packet.idx, All, 0, All)
  <2>1. bar[C2P].turn \in {packet.idx - 1, packet.idx} /\ (bar[C2P].turn = packet.idx => Receivers = Agent)
    BY <1>2 DEF PacketInv, Bar
  <2>2. packet.idx - 1 \in Int /\ packet.idx = packet.idx - 1 + 1
    BY <1>2
  <2>3. bar[C2P].turn = packet.idx
    BY <1>1, <2>1, <2>2, Waited
  <2>. QED BY <2>1, <2>3 DEF PacketInv
<1>4. \A a \in Agent : Got(a) = packet.idx
  BY <1>3 DEF Receivers
<1>5. \A a \in Agent : Got(a)' = packet.idx /\ At(a)' \in PlacesOf(a)
  <2>1. \A a \in Agent \ {tma(0)} : Got(a)' = Got(a) /\ At(a)' = At(a)
    BY <1>1, Same DEF Moves, Becomes
  <2>2. Got(tma(0))' = Got(tma(0)) /\ At(tma(0))' = "idle"
    BY <1>1 DEF Moves, Becomes
  <2>. QED BY <1>4, <2>1, <2>2, Places DEF PacketInv
<1>6. Receivers' = {}
  BY <1>1, <1>2, <1>5 DEF Receivers
<1>7. \A c \in CTA : bar'[P2C(c)] = Bar(packet'.idx, 1, 0, 1)
  <2>1. 1 \in Int /\ packet.idx \in Int
    BY <1>2
  <2>. QED BY <1>1, <2>1, BarArrives DEF PacketInv
<1>8. bar'[C2P] = bar[C2P]
  <2>1. C2P \in Barrier \ {P2C(c) : c \in CTA}
    BY BarNames, BarApart
  <2>. QED BY <1>1, <2>1 DEF OnlyBars
<1>9. Agent # {} /\ Cardinality({}) = 0
  BY AgentNames, FS_EmptySet
<1>10. bar'[C2P] = IF Receivers' = Agent THEN Bar(packet'.idx, All, 0, All)
                   ELSE Bar(packet'.idx - 1, All - Cardinality(Receivers'), 0, All)
  <2>1. packet'.idx - 1 = packet.idx /\ All - 0 = All
    BY <1>1, <1>2
  <2>. QED BY <1>3, <1>6, <1>8, <1>9, <2>1
<1>11. \A a \in Agent : Got(a)' \in {packet'.idx - 1, packet'.idx} /\ At(a)' \in PlacesOf(a)
  BY <1>1, <1>2, <1>5
<1>12. At(tma(0))' = "idle"
  BY <1>1 DEF Moves, Becomes
<1>. QED BY <1>3, <1>7, <1>10, <1>11, <1>12 DEF PacketInv

LEMMA PacketReceive ==
  ASSUME PipelineTypes, PacketInv, UNCHANGED shape, NEW a \in Agent, Receive(a)
  PROVE  PacketInv' /\ Got(a) = packet.idx - 1 /\ Got(a)' = packet.idx
<1>1. /\ Passed(bar[P2C(CtaOf(a))], Got(a)) /\ bar'[C2P] = Arrive(bar[C2P]) /\ OnlyBars({C2P})
      /\ UNCHANGED packet
  BY ReceiveAgent, ReceiveStep
<1>2. PICK k : Becomes(a, NextPlace(a), k, Laps(a), Uses(a), Got(a) + 1)
  BY ReceiveAgent
<1>3. /\ packet.idx \in Nat /\ All \in Nat /\ All >= 1 /\ Cardinality(Receivers) \in Nat /\ Got(a) \in Nat
      /\ Cardinality(Receivers) <= All /\ IsFiniteSet(Receivers)
  BY AgentCount, AgentTyped, ReceiversFinite DEF PipelineTypes
<1>4. Got(a) = packet.idx - 1
  <2>1. bar[P2C(CtaOf(a))].turn = packet.idx /\ Got(a) \in {packet.idx - 1, packet.idx}
    BY Ctas DEF PacketInv, Bar
  <2>2. bar[P2C(CtaOf(a))].turn \in {Got(a), Got(a) + 1} /\ Got(a) \in Int
    BY <1>3, <2>1
  <2>3. packet.idx = Got(a) + 1
    BY <1>1, <2>1, <2>2, Waited
  <2>. QED BY <1>3, <2>3
<1>5. Got(a)' = packet.idx /\ At(a)' = NextPlace(a) /\ \A x \in Agent \ {a} : Got(x)' = Got(x) /\ At(x)' = At(x)
  BY <1>2, <1>3, <1>4, Same DEF Becomes
<1>6. a \notin Receivers /\ Receivers' = Receivers \cup {a} /\ Receivers # Agent
  BY <1>1, <1>3, <1>4, <1>5 DEF Receivers
<1>7. Cardinality(Receivers') = Cardinality(Receivers) + 1
  BY <1>3, <1>6, FS_AddElement
<1>8. Receivers' = Agent <=> Cardinality(Receivers) + 1 = All
  <2>1. Receivers' \subseteq Agent
    BY <1>6 DEF Receivers
  <2>2. Cardinality(Receivers') = All <=> Receivers' = Agent
    BY <2>1, AgentCount, FS_Subset DEF All
  <2>. QED BY <1>7, <2>2
<1>9. bar'[C2P] = IF Receivers' = Agent THEN Bar(packet'.idx, All, 0, All)
                  ELSE Bar(packet'.idx - 1, All - Cardinality(Receivers'), 0, All)
  <2>. DEFINE n == Cardinality(Receivers)
  <2>1. bar[C2P] = Bar(packet.idx - 1, All - n, 0, All)
    BY <1>6 DEF PacketInv
  <2>. HIDE DEF n
  <2>2. n \in Nat /\ packet.idx - 1 \in Int /\ All - n \in Int /\ All \in Int
    BY <1>3 DEF n
  <2>3. CASE n + 1 = All
    <3>1. All - n = 1 /\ packet.idx - 1 + 1 = packet.idx
      BY <1>3, <2>2, <2>3
    <3>2. Arrive(Bar(packet.idx - 1, 1, 0, All)) = Bar(packet.idx - 1 + 1, All, 0, All)
      BY <2>2, BarArrives
    <3>. QED BY <1>1, <1>8, <2>1, <2>3, <3>1, <3>2 DEF n
  <2>4. CASE n + 1 # All
    <3>1. All - n # 1 /\ All - n - 1 = All - (n + 1)
      BY <1>3, <2>2, <2>4
    <3>2. Arrive(Bar(packet.idx - 1, All - n, 0, All)) = Bar(packet.idx - 1, All - n - 1, 0, All)
      BY <2>2, <3>1, BarArrives
    <3>. QED BY <1>1, <1>7, <1>8, <2>1, <2>4, <3>1, <3>2 DEF n
  <2>. QED BY <2>3, <2>4
<1>10. \A c \in CTA : bar'[P2C(c)] = bar[P2C(c)]
  <2>1. \A c \in CTA : P2C(c) \in Barrier \ {C2P}
    BY BarNames, BarApart
  <2>. QED BY <1>1, <2>1 DEF OnlyBars
<1>11. \A x \in Agent : Got(x)' \in {packet'.idx - 1, packet'.idx} /\ At(x)' \in PlacesOf(x)
  BY <1>1, <1>5, NextPlaces DEF PacketInv
<1>12. At(tma(0))' # "idle" => Got(tma(0))' = packet'.idx
  BY <1>1, <1>5, AgentNames DEF PacketInv
<1>13. \A c \in CTA : bar'[P2C(c)] = Bar(packet'.idx, 1, 0, 1)
  BY <1>1, <1>10 DEF PacketInv
<1>. QED BY <1>4, <1>5, <1>9, <1>11, <1>12, <1>13 DEF PacketInv

LEMMA PacketTurns ==
  ASSUME PacketInv, UNCHANGED <<packet, shape>>, PacketBarsKept, NEW a \in Ring, Turns(a), At(a) # "idle"
  PROVE  PacketInv'
<1>. DEFINE p == IF LastTurn(a) THEN FetchPlace(a) ELSE "run"
<1>1. a \in Agent
  BY AgentNames DEF Ring
<1>2. p \in PlacesOf(a)
  <2>1. CASE a = tma(0)
    BY <2>1, Places DEF FetchPlace
  <2>2. CASE a = tma(1)
    <3>1. a # tma(0)
      BY <2>2, Apart
    <3>. QED BY <2>2, <3>1, Places DEF FetchPlace
  <2>3. CASE \E i \in Acc : a = mma(i)
    <3>1. a # tma(0)
      BY <2>3, Apart
    <3>. QED BY <2>3, <3>1, Places DEF FetchPlace
  <2>. QED BY <2>1, <2>2, <2>3, AgentNames DEF Ring
<1>. HIDE DEF p
<1>3. PICK k, l, u : Becomes(a, p, k, l, u, Got(a))
  BY DEF Turns, p
<1>. QED BY <1>1, <1>2, <1>3, PacketMoves

LEMMA PacketInit == ASSUME Init PROVE PacketInv
<1>1. \A a \in Agent : Got(a) = 0 /\ At(a) = IF a = tma(0) THEN "publish" ELSE "idle"
  BY DEF Init, Got, At, tma
<1>2. packet.idx = 0 /\ Receivers = Agent
  BY <1>1 DEF Init, Receivers
<1>3. Count(C2P) = All /\ \A c : Count(P2C(c)) = 1
  BY BarKinds DEF Count, All
<1>4. bar[C2P] = Bar(0, All, 0, All) /\ \A c \in CTA : bar[P2C(c)] = Bar(0, 1, 0, 1)
  <2>1. \A n : Armed(n) = Bar(0, n, 0, n)
    BY DEF Armed, Bar
  <2>2. \A b \in Barrier : bar[b] = Bar(0, Count(b), 0, Count(b))
    BY <2>1 DEF Init
  <2>. QED BY <1>3, <2>2, BarNames
<1>5. \A a \in Agent : At(a) \in PlacesOf(a)
  BY <1>1, Places DEF PlacesOf
<1>. QED BY <1>1, <1>2, <1>4, <1>5, AgentNames DEF PacketInv

LEMMA PacketStep ==
  ASSUME PipelineTypes, PacketInv, Step, UNCHANGED shape
  PROVE  PacketInv'
<1>0. \A s, c, i : FULL(s)[1] \notin {"p2c", "c2p"} /\ EMPTY(c, s)[1] \notin {"p2c", "c2p"}
                   /\ TEMPTY(i)[1] \notin {"p2c", "c2p"} /\ TFULL(c, i)[1] \notin {"p2c", "c2p"}
  BY BarKinds
<1>1. UNCHANGED bar => PacketBarsKept
  BY DEF PacketBarsKept
<1>2. /\ \A s : OnlyBars({FULL(s)}) => PacketBarsKept
      /\ \A i : OnlyBars({TEMPTY(i)}) => PacketBarsKept
      /\ \A s : OnlyBars({EMPTY(c, s) : c \in CTA}) => PacketBarsKept
      /\ \A i : OnlyBars({TFULL(c, i) : c \in CTA}) => PacketBarsKept
  <2>1. ASSUME NEW s, OnlyBars({FULL(s)}) PROVE PacketBarsKept
    <3>1. \A b \in {FULL(s)} : b[1] \notin {"p2c", "c2p"}
      BY <1>0
    <3>. QED BY <2>1, <3>1, PacketOnly DEF PacketBarsKept
  <2>2. ASSUME NEW i, OnlyBars({TEMPTY(i)}) PROVE PacketBarsKept
    <3>1. \A b \in {TEMPTY(i)} : b[1] \notin {"p2c", "c2p"}
      BY <1>0
    <3>. QED BY <2>2, <3>1, PacketOnly DEF PacketBarsKept
  <2>3. ASSUME NEW s, OnlyBars({EMPTY(c, s) : c \in CTA}) PROVE PacketBarsKept
    <3>1. \A b \in {EMPTY(c, s) : c \in CTA} : b[1] \notin {"p2c", "c2p"}
      BY <1>0
    <3>. QED BY <2>3, <3>1, PacketOnly DEF PacketBarsKept
  <2>4. ASSUME NEW i, OnlyBars({TFULL(c, i) : c \in CTA}) PROVE PacketBarsKept
    <3>1. \A b \in {TFULL(c, i) : c \in CTA} : b[1] \notin {"p2c", "c2p"}
      BY <1>0
    <3>. QED BY <2>4, <3>1, PacketOnly DEF PacketBarsKept
  <2>. QED BY <2>1, <2>2, <2>3, <2>4
<1>3. UNCHANGED <<packet, agent>> /\ PacketBarsKept => PacketInv'
  <2>. SUFFICES ASSUME UNCHANGED <<packet, agent>>, PacketBarsKept PROVE PacketInv'
    OBVIOUS
  <2>1. \A a \in Agent : Got(a)' = Got(a) /\ At(a)' = At(a)
    BY Same
  <2>. QED BY <2>1, PacketKept, AgentNames DEF PacketInv
<1>4. ASSUME NEW c \in CTA, TmaStage(c) PROVE PacketInv'
  <2>1. /\ At(tma(c)) = "run" /\ UNCHANGED packet /\ PacketBarsKept
        /\ IF Loads(c) /\ c = 0 THEN Moves(tma(c), "expect") ELSE Turns(tma(c))
    BY <1>2, <1>4, TmaStageStep
  <2>2. tma(c) \in Ring /\ tma(c) \in Agent
    BY AgentNames DEF Ring
  <2>3. CASE Turns(tma(c))
    BY <2>1, <2>2, <2>3, PacketTurns
  <2>4. CASE c = 0 /\ Moves(tma(c), "expect")
    BY <2>1, <2>2, <2>4, PacketMoves, Places DEF Moves
  <2>. QED BY <2>1, <2>3, <2>4
<1>5. ASSUME TmaExpect PROVE PacketInv'
  <2>1. /\ At(tma(0)) = "expect" /\ UNCHANGED packet /\ PacketBarsKept /\ Turns(tma(0))
    BY <1>2, <1>5, TmaExpectStep
  <2>2. tma(0) \in Ring
    BY AgentNames DEF Ring
  <2>. QED BY <2>1, <2>2, PacketTurns
<1>6. ASSUME NEW t \in loading, Transfer(t) PROVE PacketInv'
  BY <1>2, <1>3, <1>6, TransferStep
<1>7. ASSUME NEW i \in Acc, MmaAcquire(i) PROVE PacketInv'
  BY <1>1, <1>7, AcquireStep, PacketMoves, Places, AgentNames DEF Moves
<1>8. ASSUME NEW i \in Acc, MmaStage(i) PROVE PacketInv'
  <2>1. At(mma(i)) = "run" /\ Turns(mma(i)) /\ UNCHANGED packet /\ PacketBarsKept
    BY <1>1, <1>8, MmaTurns DEF MmaStage
  <2>2. mma(i) \in Ring
    BY DEF Ring
  <2>. QED BY <2>1, <2>2, PacketTurns
<1>9. ASSUME NEW i \in Acc, TensorMma(i) PROVE PacketInv'
  BY <1>1, <1>3, <1>9, TensorMmaStep
<1>10. ASSUME NEW i \in Acc, TensorCommit(i) PROVE PacketInv'
  <2>. DEFINE x == Head(queue[i])
  <2>1. x.op = "free" => x.stage \in Stage
    <3>1. x \in Op
      BY <1>10, CommitStep, HeadTailProperties DEF PipelineTypes
    <3>. QED BY <3>1 DEF Op
  <2>2. /\ UNCHANGED <<packet, agent>>
        /\ x.op = "free" /\ x.stage \in Stage => OnlyBars({EMPTY(c, x.stage) : c \in CTA})
        /\ x.op # "free" => OnlyBars({TFULL(c, i) : c \in CTA})
    BY <1>10, CommitStep
  <2>. HIDE DEF x
  <2>3. PacketBarsKept
    BY <1>2, <2>1, <2>2
  <2>. QED BY <1>3, <2>2, <2>3
<1>11. ASSUME NEW c \in CTA, NEW i \in Acc, ConsumerWait(c, i) PROVE PacketInv'
  <2>1. UNCHANGED packet /\ PacketBarsKept
    BY <1>1, <1>11 DEF ConsumerWait
  <2>2. /\ At(con(c, i)) = "wait" /\ con(c, i) \in Agent
        /\ Becomes(con(c, i), "read", Pos(con(c, i)), Laps(con(c, i)), Uses(con(c, i)) + 1, Got(con(c, i)))
    BY <1>11, ReadAgent, AgentNames
  <2>. QED BY <2>1, <2>2, PacketMoves, Places
<1>12. ASSUME NEW c \in CTA, NEW i \in Acc, ConsumerDone(c, i) PROVE PacketInv'
  <2>1. UNCHANGED packet /\ PacketBarsKept /\ At(con(c, i)) = "read" /\ Moves(con(c, i), "idle")
    BY <1>2, <1>12, DoneStep
  <2>. QED BY <2>1, PacketMoves, Places, AgentNames DEF Moves
<1>. QED BY StepCases, PacketPublish, PacketReceive, <1>4, <1>5, <1>6, <1>7, <1>8, <1>9, <1>10, <1>11, <1>12

----------------------------------------------------------------------------
(* Turns of the ring.                                                        *)
LEMMA FillKept ==
  ASSUME UNCHANGED shape, NEW x, Laps(x)' = Laps(x), St(x)' = St(x)
  PROVE  \A s \in Stage : Fill(x, s)' = Fill(x, s)
BY DEF Fill

LEMMA LastStage ==
  ASSUME PipelineTypes, NEW a \in Agent, LastTurn(a)
  PROVE  St(a) = PIPELINE_DEPTH - 1
<1>. DEFINE d == PIPELINE_DEPTH
            l == LAPS
            p == Pos(a)
<1>1. d \in Nat \ {0} /\ K_BLOCKS \in Nat \ {0} /\ shape \in Shapes /\ p \in Nat
  BY Shaped, AgentTyped DEF PipelineTypes
<1>2. l \in Nat
  <2>1. l = (K_BLOCKS + d - 1) \div d /\ K_BLOCKS + d - 1 \in Nat
    BY <1>1 DEF LAPS
  <2>. HIDE DEF l, d
  <2>. QED BY <1>1, <2>1, DivNat
<1>3. p + 1 = l * d + 0
  <2>1. l * d \in Nat
    BY <1>1, <1>2
  <2>. QED BY <2>1 DEF LastTurn
<1>. HIDE DEF d, l, p
<1>4. (p + 1) % d = 0
  <2>1. 0 \in 0 .. d - 1
    BY <1>1
  <2>2. (l * d + 0) % d = 0
    BY <1>1, <1>2, <2>1, DivOf
  <2>. QED BY <1>3, <2>2
<1>5. StageAt(p + 1) = 0 /\ StageAt(p + 1) = (IF StageAt(p) = d - 1 THEN 0 ELSE StageAt(p) + 1) /\ StageAt(p) \in Nat
  <2>1. StageAt(p + 1) = 0
    BY <1>4 DEF StageAt, d
  <2>2. StageAt(p) \in Stage /\ StageAt(p + 1) = IF StageAt(p) = PIPELINE_DEPTH - 1 THEN 0 ELSE StageAt(p) + 1
    BY <1>1, NextStage
  <2>3. StageAt(p) \in Nat
    BY <2>2 DEF Stage
  <2>. QED BY <2>1, <2>2, <2>3 DEF d
<1>6. StageAt(p) = d - 1
  BY <1>5
<1>. QED BY <1>6 DEF St, p, d

LEMMA FillTurns ==
  ASSUME PipelineTypes, UNCHANGED shape, NEW a \in Agent, Turns(a)
  PROVE  /\ \A s \in Stage : Fill(a, s)' = IF s = St(a) THEN Fill(a, s) + 1 ELSE Fill(a, s)
         /\ Fill(a, St(a)) = Laps(a)
         /\ St(a)' = IF St(a) = PIPELINE_DEPTH - 1 THEN 0 ELSE St(a) + 1
         /\ Laps(a)' = LapsOn(a) /\ Pos(a)' = IF LastTurn(a) THEN 0 ELSE Pos(a) + 1
<1>1. /\ PIPELINE_DEPTH \in Nat \ {0} /\ shape \in Shapes /\ Pos(a) \in Nat /\ Laps(a) \in Nat
      /\ St(a) \in 0 .. PIPELINE_DEPTH - 1
  BY Shaped, AgentTyped DEF PipelineTypes, Stage
<1>2. Laps(a)' = LapsOn(a) /\ Pos(a)' = IF LastTurn(a) THEN 0 ELSE Pos(a) + 1
  BY DEF Turns, Becomes
<1>3. St(a)' = StageAt(Pos(a)')
  BY Fixed DEF St, StageAt
<1>4. St(a)' = IF St(a) = PIPELINE_DEPTH - 1 THEN 0 ELSE St(a) + 1
  <2>1. CASE LastTurn(a)
    <3>1. St(a)' = StageAt(0)
      BY <1>2, <1>3, <2>1
    <3>. QED BY <1>1, <2>1, <3>1, NextStage, LastStage
  <2>2. CASE ~LastTurn(a)
    <3>1. St(a)' = StageAt(Pos(a) + 1)
      BY <1>2, <1>3, <2>2
    <3>. QED BY <1>1, <3>1, NextStage DEF St
  <2>. QED BY <2>1, <2>2
<1>5. Fill(a, St(a)) = Laps(a)
  BY <1>1 DEF Fill
<1>6. \A s \in Stage : Fill(a, s)' = Laps(a)' + (IF s < St(a)' THEN 1 ELSE 0)
  BY DEF Fill
<1>7. \A s \in Stage : Fill(a, s)' = IF s = St(a) THEN Fill(a, s) + 1 ELSE Fill(a, s)
  <2>. SUFFICES ASSUME NEW s \in Stage PROVE Fill(a, s)' = IF s = St(a) THEN Fill(a, s) + 1 ELSE Fill(a, s)
    OBVIOUS
  <2>1. s \in 0 .. PIPELINE_DEPTH - 1
    BY DEF Stage
  <2>2. CASE St(a) = PIPELINE_DEPTH - 1
    <3>1. Fill(a, s)' = Laps(a) + 1
      BY <1>1, <1>2, <1>4, <1>6, <2>1, <2>2 DEF LapsOn
    <3>. QED BY <1>1, <2>1, <2>2, <3>1 DEF Fill
  <2>3. CASE St(a) # PIPELINE_DEPTH - 1
    <3>1. Fill(a, s)' = Laps(a) + (IF s < St(a) + 1 THEN 1 ELSE 0)
      BY <1>2, <1>4, <1>6, <2>3 DEF LapsOn
    <3>. QED BY <1>1, <2>1, <2>3, <3>1 DEF Fill
  <2>. QED BY <2>2, <2>3
<1>. QED BY <1>2, <1>4, <1>5, <1>7

LEMMA FillNat ==
  ASSUME PipelineTypes
  PROVE  \A a \in Agent : \A s \in Stage : Fill(a, s) \in Nat
BY AgentTyped DEF Fill

(* Who else moves.                                                           *)
LEMMA Stays ==
  ASSUME UNCHANGED shape, NEW x, agent'[x] = agent[x]
  PROVE  \A s \in Stage : Fill(x, s)' = Fill(x, s)
BY Same, FillKept

LEMMA RingMember ==
  /\ \A c \in CTA : tma(c) \in Ring
  /\ \A i \in Acc : mma(i) \in Ring
  /\ Ring \subseteq Agent
  /\ \A c, i : con(c, i) \notin Ring
  /\ <<"rest", 1>> \notin Ring
<1>1. \A c, i : con(c, i) \notin Ring
  BY Apart DEF Ring
<1>2. <<"rest", 1>> \notin Ring
  BY Apart DEF Ring
<1>. QED BY <1>1, <1>2, AgentNames DEF Ring

(* Positions in a task.                                                      *)
LEMMA PosTurns ==
  ASSUME PipelineTypes, WholeLaps, PosInv, UNCHANGED shape, NEW a \in Ring, Turns(a), Looping(a)
  PROVE  /\ IF Looping(a)' THEN Pos(a)' < K_BLOCKS ELSE Pos(a)' = 0
         /\ LastTurn(a) <=> Pos(a) = K_BLOCKS - 1
         /\ Looping(a)' <=> ~LastTurn(a)
<1>1. a \in Agent /\ LAPS * PIPELINE_DEPTH = K_BLOCKS /\ K_BLOCKS \in Nat /\ Pos(a) \in Nat /\ Pos(a) < K_BLOCKS
  BY RingMember, Shaped, Whole, AgentTyped DEF PipelineTypes, PosInv
<1>2. /\ At(a)' = IF LastTurn(a) THEN FetchPlace(a) ELSE "run"
      /\ Pos(a)' = IF LastTurn(a) THEN 0 ELSE Pos(a) + 1
  BY DEF Turns, Becomes
<1>3. LastTurn(a) <=> Pos(a) = K_BLOCKS - 1
  BY <1>1 DEF LastTurn
<1>4. Looping(a)' <=> ~LastTurn(a)
  BY <1>2 DEF Looping, FetchPlace
<1>. QED BY <1>1, <1>2, <1>3, <1>4

PosOf(a) == IF Looping(a) THEN Pos(a) < K_BLOCKS ELSE Pos(a) = 0
LEMMA PosSame ==
  ASSUME PosInv, UNCHANGED shape, NEW a \in Ring, agent'[a] = agent[a]
  PROVE  PosOf(a)'
<1>1. At(a)' = At(a) /\ Pos(a)' = Pos(a) /\ K_BLOCKS' = K_BLOCKS
  BY Same, Fixed
<1>. QED BY <1>1 DEF PosInv, Looping, PosOf

LEMMA PosMoves ==
  ASSUME PosInv, UNCHANGED shape, NEW a \in Agent, NEW p, NEW l, NEW u, NEW n, Becomes(a, p, Pos(a), l, u, n),
         \/ a \notin Ring
         \/ p \in {"expect", "run"} /\ Looping(a)
         \/ p \in {"run", "acquire", "idle", "publish", "left"} /\ a \in Ring /\ ~Looping(a) /\ 0 < K_BLOCKS
  PROVE  PosInv'
<1>1. \A x \in Agent \ {a} : agent'[x] = agent[x]
  BY DEF Becomes
<1>2. \A x \in Ring \ {a} : PosOf(x)'
  BY <1>1, PosSame, RingMember
<1>3. ASSUME a \in Ring PROVE PosOf(a)'
  <2>1. At(a)' = p /\ Pos(a)' = Pos(a) /\ K_BLOCKS' = K_BLOCKS
    BY Fixed DEF Becomes
  <2>. QED BY <1>3, <2>1 DEF PosInv, Looping, PosOf
<1>. QED BY <1>2, <1>3 DEF PosInv, PosOf

LEMMA PosTurn ==
  ASSUME PipelineTypes, WholeLaps, PosInv, UNCHANGED shape, NEW a \in Ring, Turns(a), Looping(a)
  PROVE  PosInv'
<1>1. \A x \in Agent \ {a} : agent'[x] = agent[x]
  BY DEF Turns, Becomes
<1>2. \A x \in Ring \ {a} : PosOf(x)'
  BY <1>1, PosSame, RingMember
<1>3. PosOf(a)'
  BY PosTurns, Fixed DEF PosOf
<1>. QED BY <1>2, <1>3 DEF PosInv, PosOf

LEMMA PosUnmoved == ASSUME PosInv, UNCHANGED <<shape, agent>> PROVE PosInv'
<1>1. \A x \in Ring : PosOf(x)'
  BY PosSame
<1>. QED BY <1>1 DEF PosInv, PosOf

(* An agent of the ring that is at no position starts at the first.          *)
LEMMA ReceivesAt ==
  ASSUME PipelineTypes, PosInv, NEW a \in Agent, Receive(a)
  PROVE  /\ a \in Ring => Becomes(a, NextPlace(a), Pos(a), Laps(a), Uses(a), Got(a) + 1) /\ Pos(a) = 0
         /\ NextPlace(a) \in {"left", "run", "acquire", "wait", "publish", "idle"}
         /\ a \in Ring => NextPlace(a) # "wait"
         /\ a \notin Ring => NextPlace(a) \notin {"run", "acquire", "publish"}
<1>1. PICK k \in {0, Pos(a)} : Becomes(a, NextPlace(a), k, Laps(a), Uses(a), Got(a) + 1)
  BY ReceiveAgent
<1>2. At(a) = "idle"
  BY ReceiveAgent
<1>3. a \in Ring => Pos(a) = 0
  BY <1>2 DEF PosInv, Looping
<1>4. NextPlace(a) \in {"left", "run", "acquire", "wait", "publish", "idle"}
  BY DEF NextPlace, RolePlace, FetchPlace
<1>5. a \in Ring => a[1] \in {"tma", "mma"}
  BY Kinds DEF Ring
<1>6. a \notin Ring => a[1] \notin {"tma", "mma"} /\ a # tma(0)
  BY KindOf, RingMember, AgentNames DEF Ring
<1>7. (a \in Ring => NextPlace(a) # "wait") /\ (a \notin Ring => NextPlace(a) \notin {"run", "acquire", "publish"})
  BY <1>5, <1>6 DEF NextPlace, RolePlace, FetchPlace, Starts
<1>. QED BY <1>1, <1>3, <1>4, <1>7

LEMMA PosStep ==
  ASSUME PipelineTypes, PacketInv, WholeLaps, PosInv, Step, UNCHANGED shape
  PROVE  PosInv'
<1>0. 0 < K_BLOCKS
  BY Shaped DEF PipelineTypes
<1>1. ASSUME NEW a \in Agent, Receive(a) PROVE PosInv'
  <2>1. At(a) = "idle"
    BY <1>1, ReceiveAgent
  <2>2. CASE a \in Ring
    <3>1. /\ Becomes(a, NextPlace(a), Pos(a), Laps(a), Uses(a), Got(a) + 1)
          /\ NextPlace(a) \in {"run", "acquire", "idle", "publish", "left"}
      BY <1>1, <2>2, ReceivesAt
    <3>2. ~Looping(a)
      BY <2>1 DEF Looping
    <3>. QED BY <1>0, <2>2, <3>1, <3>2, PosMoves
  <2>3. CASE a \notin Ring
    <3>1. \A x \in Ring : agent'[x] = agent[x]
      BY <1>1, <2>3, ReceiveAgent, RingMember DEF Becomes
    <3>2. \A x \in Ring : PosOf(x)'
      BY <3>1, PosSame
    <3>. QED BY <3>2 DEF PosInv, PosOf
  <2>. QED BY <2>2, <2>3
<1>2. ASSUME Publish PROVE PosInv'
  <2>1. At(tma(0)) = "publish" /\ Moves(tma(0), "idle") /\ tma(0) \in Ring /\ tma(0) \in Agent
    BY <1>2, PublishStep, RingMember, AgentNames
  <2>2. ~Looping(tma(0))
    BY <2>1 DEF Looping
  <2>. QED BY <1>0, <2>1, <2>2, PosMoves DEF Moves
<1>3. ASSUME NEW c \in CTA, TmaStage(c) PROVE PosInv'
  <2>1. At(tma(c)) = "run" /\ (Moves(tma(c), "expect") \/ Turns(tma(c))) /\ tma(c) \in Ring /\ tma(c) \in Agent
    BY <1>3, TmaStageStep, RingMember, AgentNames
  <2>2. Looping(tma(c))
    BY <2>1 DEF Looping
  <2>. QED BY <2>1, <2>2, PosMoves, PosTurn DEF Moves
<1>4. ASSUME TmaExpect PROVE PosInv'
  <2>1. At(tma(0)) = "expect" /\ Turns(tma(0)) /\ tma(0) \in Ring
    BY <1>4, TmaExpectStep, RingMember, AgentNames
  <2>2. Looping(tma(0))
    BY <2>1 DEF Looping
  <2>. QED BY <2>1, <2>2, PosTurn
<1>5. ASSUME NEW t \in loading, Transfer(t) PROVE PosInv'
  BY <1>5, TransferStep, PosUnmoved
<1>6. ASSUME NEW i \in Acc, MmaAcquire(i) PROVE PosInv'
  <2>1. At(mma(i)) = "acquire" /\ Moves(mma(i), "run") /\ mma(i) \in Ring /\ mma(i) \in Agent
    BY <1>6, AcquireStep, RingMember, AgentNames
  <2>2. ~Looping(mma(i))
    BY <2>1 DEF Looping
  <2>. QED BY <1>0, <2>1, <2>2, PosMoves DEF Moves
<1>7. ASSUME NEW i \in Acc, MmaStage(i) PROVE PosInv'
  <2>1. At(mma(i)) = "run" /\ Turns(mma(i)) /\ mma(i) \in Ring
    BY <1>7, MmaTurns, RingMember
  <2>2. Looping(mma(i))
    BY <2>1 DEF Looping
  <2>. QED BY <2>1, <2>2, PosTurn
<1>8. ASSUME NEW i \in Acc, TensorMma(i) \/ TensorCommit(i) PROVE PosInv'
  BY <1>8, TensorMmaStep, CommitStep, PosUnmoved
<1>9. ASSUME NEW c \in CTA, NEW i \in Acc, ConsumerWait(c, i) \/ ConsumerDone(c, i) PROVE PosInv'
  <2>1. con(c, i) \notin Ring /\ con(c, i) \in Agent
    BY RingMember, AgentNames
  <2>2. CASE ConsumerWait(c, i)
    BY <2>1, <2>2, ReadAgent, PosMoves
  <2>3. CASE ConsumerDone(c, i)
    BY <2>1, <2>3, DoneStep, PosMoves DEF Moves
  <2>. QED BY <1>9, <2>2, <2>3
<1>. QED BY StepCases, <1>1, <1>2, <1>3, <1>4, <1>5, <1>6, <1>7, <1>8, <1>9

----------------------------------------------------------------------------
(* The laps of an MMA warp.                                                  *)
LapsOf(i) == IF At(mma(i)) = "run"
    THEN Pos(mma(i)) = (Laps(mma(i)) - Uses(mma(i)) * LAPS) * PIPELINE_DEPTH + St(mma(i))
    ELSE Laps(mma(i)) = Uses(mma(i)) * LAPS

LEMMA LapsSame ==
  ASSUME LapsInv, UNCHANGED shape, NEW i \in Acc, agent'[mma(i)] = agent[mma(i)]
  PROVE  LapsOf(i)'
<1>1. /\ At(mma(i))' = At(mma(i)) /\ Pos(mma(i))' = Pos(mma(i)) /\ Laps(mma(i))' = Laps(mma(i))
      /\ Uses(mma(i))' = Uses(mma(i)) /\ St(mma(i))' = St(mma(i)) /\ LAPS' = LAPS
      /\ PIPELINE_DEPTH' = PIPELINE_DEPTH
  BY Same, Fixed
<1>. QED BY <1>1 DEF LapsInv, LapsOf

LEMMA LapsOthers ==
  ASSUME LapsInv, UNCHANGED shape, NEW a, \A x \in Agent \ {a} : agent'[x] = agent[x], \A i \in Acc : a # mma(i)
  PROVE  LapsInv'
<1>1. \A i \in Acc : LapsOf(i)'
  BY LapsSame, AgentNames
<1>. QED BY <1>1 DEF LapsInv, LapsOf

LEMMA LapsAlone ==
  ASSUME LapsInv, UNCHANGED shape, NEW i \in Acc, \A x \in Agent \ {mma(i)} : agent'[x] = agent[x], LapsOf(i)'
  PROVE  LapsInv'
<1>1. \A j \in Acc : LapsOf(j)'
  BY LapsSame, AgentNames, Apart
<1>. QED BY <1>1 DEF LapsInv, LapsOf

LEMMA LapsTurn ==
  ASSUME PipelineTypes, WholeLaps, LapsInv, UNCHANGED shape, NEW i \in Acc, Turns(mma(i)), At(mma(i)) = "run"
  PROVE  LapsOf(i)'
<1>. DEFINE a == mma(i)
            d == PIPELINE_DEPTH
            l == LAPS
            m == Laps(a)
            u == Uses(a)
            p == Pos(a)
            s == St(a)
<1>1. a \in Agent /\ a[1] = "mma"
  BY AgentNames, Kinds
<1>2. /\ d \in Nat \ {0} /\ l \in Nat \ {0} /\ l * d = K_BLOCKS /\ m \in Nat /\ u \in Nat /\ p \in Nat
      /\ s \in 0 .. d - 1
  BY <1>1, Shaped, Whole, AgentTyped DEF PipelineTypes, Stage
<1>3. p = (m - u * l) * d + s
  BY DEF LapsInv
<1>4. /\ St(a)' = (IF s = d - 1 THEN 0 ELSE s + 1) /\ Laps(a)' = (IF s = d - 1 THEN m + 1 ELSE m)
      /\ Pos(a)' = (IF LastTurn(a) THEN 0 ELSE p + 1) /\ LAPS' = l /\ PIPELINE_DEPTH' = d
      /\ LastTurn(a) => s = d - 1
  BY <1>1, FillTurns, Fixed, LastStage DEF LapsOn
<1>5. /\ At(a)' = IF LastTurn(a) THEN "idle" ELSE "run"
      /\ Uses(a)' = IF LastTurn(a) THEN u + 1 ELSE u
  BY <1>1, Apart DEF Turns, Becomes, FetchPlace
<1>6. LastTurn(a) <=> p + 1 = l * d
  BY DEF LastTurn
<1>. HIDE DEF a, d, l, m, u, p, s
<1>7. u * l \in Nat
  BY <1>2
<1>8. PICK x \in Int : x = m - u * l
  BY <1>2, <1>7
<1>9. s = d - 1 => p + 1 = (x + 1) * d + 0
  <2>. SUFFICES ASSUME s = d - 1 PROVE p + 1 = (x + 1) * d + 0
    OBVIOUS
  <2>1. (x + 1) * d = x * d + d /\ x * d \in Int
    BY <1>2
  <2>. QED BY <1>2, <1>3, <1>8, <2>1
<1>10. (m + 1) - u * l = x + 1
  BY <1>2, <1>7, <1>8
<1>11. CASE LastTurn(a)
  <2>1. (x + 1) * d + 0 = l * d + 0
    <3>1. l * d \in Nat
      BY <1>2
    <3>. QED BY <1>4, <1>6, <1>9, <1>11, <3>1
  <2>2. x + 1 = l
    <3>1. x + 1 \in Int /\ l \in Int /\ 0 \in 0 .. d - 1
      BY <1>2
    <3>. QED BY <1>2, <2>1, <3>1, DivUnique
  <2>3. (u + 1) * l = u * l + l
    BY <1>2
  <2>4. m + 1 = (u + 1) * l
    BY <1>2, <1>7, <1>10, <2>2, <2>3
  <2>. QED BY <1>4, <1>5, <1>11, <2>4 DEF LapsOf, a
<1>12. CASE ~LastTurn(a)
  <2>1. CASE s = d - 1
    <3>1. p + 1 = ((m + 1) - u * l) * d + 0
      BY <1>9, <1>10, <2>1
    <3>2. Pos(a)' = p + 1 /\ Laps(a)' = m + 1 /\ Uses(a)' = u /\ St(a)' = 0 /\ At(a)' = "run"
      BY <1>4, <1>5, <1>12, <2>1
    <3>3. Pos(a)' = (Laps(a)' - Uses(a)' * LAPS') * PIPELINE_DEPTH' + St(a)'
      BY Zenon, <1>4, <3>1, <3>2
    <3>. QED BY Zenon, <3>2, <3>3 DEF LapsOf, a
  <2>2. CASE s # d - 1
    <3>1. p + 1 = (m - u * l) * d + (s + 1)
      <4>1. x * d \in Int
        BY <1>2
      <4>. QED BY <1>2, <1>3, <1>8, <4>1
    <3>. QED BY <1>4, <1>5, <1>12, <2>2, <3>1 DEF LapsOf, a
  <2>. QED BY <2>1, <2>2
<1>. QED BY <1>11, <1>12

LEMMA LapsStep ==
  ASSUME PipelineTypes, WholeLaps, PosInv, LapsInv, Step, UNCHANGED shape
  PROVE  LapsInv'
<1>0. \A i \in Acc : mma(i) \in Agent /\ mma(i) \in Ring
  BY AgentNames, RingMember
<1>. USE <1>0
<1>1. ASSUME NEW a \in Agent, Receive(a) PROVE LapsInv'
  <2>1. \A x \in Agent \ {a} : agent'[x] = agent[x]
    BY <1>1, ReceiveAgent DEF Becomes
  <2>2. ASSUME NEW i \in Acc, a = mma(i) PROVE LapsInv'
    <3>1. Becomes(a, NextPlace(a), Pos(a), Laps(a), Uses(a), Got(a) + 1) /\ a[1] = "mma" /\ At(a) = "idle"
      BY <1>1, <2>2, ReceivesAt, ReceiveAgent, Kinds
    <3>2. NextPlace(a) # "run"
      BY <3>1 DEF NextPlace, Starts, RolePlace, FetchPlace
    <3>3. LapsOf(i)'
      BY <2>2, <3>1, <3>2, Fixed DEF LapsOf, LapsInv, Becomes
    <3>. QED BY <2>1, <2>2, <3>3, LapsAlone
  <2>3. CASE \A i \in Acc : a # mma(i)
    BY <2>1, <2>3, LapsOthers
  <2>. QED BY <2>2, <2>3
<1>2. ASSUME NEW i \in Acc, MmaAcquire(i) PROVE LapsInv'
  <2>1. At(mma(i)) = "acquire" /\ Moves(mma(i), "run")
    BY <1>2, AcquireStep
  <2>2. /\ At(mma(i))' = "run" /\ Pos(mma(i))' = 0 /\ Laps(mma(i))' = Uses(mma(i))' * LAPS
        /\ Laps(mma(i))' \in Nat
    <3>1. Pos(mma(i)) = 0 /\ Laps(mma(i)) = Uses(mma(i)) * LAPS /\ Laps(mma(i)) \in Nat
      BY <2>1, AgentTyped DEF PosInv, LapsInv, Looping
    <3>. QED BY <2>1, <3>1 DEF Moves, Becomes
  <2>3. St(mma(i))' = 0
    <3>1. StageAt(0) = 0
      BY NextStage DEF PipelineTypes
    <3>. QED BY <2>2, <3>1, Fixed DEF St, StageAt
  <2>4. LAPS' = LAPS /\ PIPELINE_DEPTH' = PIPELINE_DEPTH /\ PIPELINE_DEPTH \in Nat
    BY Fixed, Shaped DEF PipelineTypes
  <2>5. 0 = (Laps(mma(i))' - Uses(mma(i))' * LAPS) * PIPELINE_DEPTH + 0
    BY <2>2, <2>4
  <2>6. LapsOf(i)'
    BY <2>2, <2>3, <2>4, <2>5 DEF LapsOf
  <2>7. \A x \in Agent \ {mma(i)} : agent'[x] = agent[x]
    BY <2>1 DEF Moves, Becomes
  <2>. QED BY <2>6, <2>7, LapsAlone
<1>3. ASSUME NEW i \in Acc, MmaStage(i) PROVE LapsInv'
  <2>1. Turns(mma(i)) /\ At(mma(i)) = "run"
    BY <1>3, MmaTurns
  <2>2. \A x \in Agent \ {mma(i)} : agent'[x] = agent[x]
    BY <2>1 DEF Turns, Becomes
  <2>. QED BY <2>1, <2>2, LapsTurn, LapsAlone
<1>4. UNCHANGED agent => LapsInv'
  <2>. SUFFICES ASSUME UNCHANGED agent PROVE LapsInv'
    OBVIOUS
  <2>. QED BY LapsOthers, Apart
<1>5. ASSUME NEW a, \A x \in Agent \ {a} : agent'[x] = agent[x],
             (\E c : a = tma(c)) \/ (\E c, i : a = con(c, i)) PROVE LapsInv'
  <2>1. \A i \in Acc : a # mma(i)
    BY <1>5, Apart
  <2>. QED BY <1>5, <2>1, LapsOthers
<1>6. ASSUME Publish PROVE LapsInv'
  BY <1>5, <1>6, PublishStep DEF Moves, Becomes
<1>7. ASSUME NEW c \in CTA, TmaStage(c) PROVE LapsInv'
  <2>1. \A x \in Agent \ {tma(c)} : agent'[x] = agent[x]
    BY <1>7, TmaStageStep DEF Moves, Turns, Becomes
  <2>. QED BY <1>5, <2>1
<1>8. ASSUME TmaExpect PROVE LapsInv'
  <2>1. \A x \in Agent \ {tma(0)} : agent'[x] = agent[x]
    BY <1>8, TmaExpectStep DEF Moves, Turns, Becomes
  <2>. QED BY <1>5, <2>1
<1>9. ASSUME NEW t \in loading, Transfer(t) PROVE LapsInv'
  BY <1>4, <1>9, TransferStep
<1>10. ASSUME NEW i \in Acc, TensorMma(i) \/ TensorCommit(i) PROVE LapsInv'
  BY <1>4, <1>10, TensorMmaStep, CommitStep
<1>11. ASSUME NEW c \in CTA, NEW i \in Acc, ConsumerWait(c, i) \/ ConsumerDone(c, i) PROVE LapsInv'
  <2>1. \A x \in Agent \ {con(c, i)} : agent'[x] = agent[x]
    BY <1>11, ReadAgent, DoneStep DEF Moves, Becomes
  <2>. QED BY <1>5, <2>1
<1>. QED BY StepCases, <1>1, <1>2, <1>3, <1>6, <1>7, <1>8, <1>9, <1>10, <1>11

----------------------------------------------------------------------------
(* What a wait that passes tells, and what the tensor core is about to do.   *)
LEMMA TurnOf == \A t, p, x, n : Bar(t, p, x, n).turn = t
BY DEF Bar

LEMMA RingNumbers ==
  ASSUME PipelineTypes, RingInv, NEW s \in Stage
  PROVE  /\ Turn(s) \in Nat /\ Free(s) \in Nat /\ Announced(s) \in Nat
         /\ \A c \in CTA : Fill(tma(c), s) \in Nat /\ Sent(c, s) \in Nat /\ Landings(c, s) \in Int
         /\ \A i \in Acc : Fill(mma(i), s) \in Nat /\ Freeings(i, s) \in Int
<1>1. Turn(s) \in Nat /\ Free(s) \in Nat
  BY DEF RingInv, FullInv, EmptyInv
<1>2. /\ \A c \in CTA : Fill(tma(c), s) \in Nat
      /\ \A i \in Acc : Fill(mma(i), s) \in Nat
  BY FillNat, AgentNames
<1>3. Announced(s) \in Nat
  BY <1>2, AgentNames DEF Announced
<1>4. \A c \in CTA : Sent(c, s) \in Nat
  BY <1>2 DEF Sent
<1>5. \A c \in CTA : Landings(c, s) \in Int
  BY <1>4 DEF Landings
<1>6. \A i \in Acc : Freeings(i, s) \in Int
  BY <1>2 DEF Freeings
<1>. QED BY <1>1, <1>2, <1>3, <1>4, <1>5, <1>6

LEMMA MmaPasses ==
  ASSUME PipelineTypes, RingInv, NEW i \in Acc, Passed(bar[FULL(St(mma(i)))], Laps(mma(i)))
  PROVE  LET s == St(mma(i)) IN
         /\ s \in Stage /\ Fill(mma(i), s) = Laps(mma(i)) /\ Turn(s) = Laps(mma(i)) + 1
         /\ ~Unfreed(i, s) /\ Freeings(i, s) = Laps(mma(i))
<1>. DEFINE s == St(mma(i))
            n == Laps(mma(i))
<1>1. s \in Stage /\ n \in Nat /\ Fill(mma(i), s) = n
  <2>1. s \in Stage /\ n \in Nat
    BY AgentNames, AgentTyped
  <2>. QED BY <2>1 DEF Fill, Stage
<1>. HIDE DEF s, n
<1>2. FullInv(s) /\ EmptyInv(s)
  BY <1>1 DEF RingInv
<1>3. /\ Turn(s) \in Nat /\ Free(s) \in Nat /\ Freeings(i, s) \in Int /\ 0 \in CTA
      /\ Turn(s) \in {n, n + 1} /\ Sent(0, s) \in Nat
      /\ Sent(0, s) \in {Turn(s), Turn(s) + 1} /\ Sent(0, s) <= Free(s) + 1
      /\ Freeings(i, s) \in {Free(s), Free(s) + 1}
  <2>1. Turn(s) \in Nat /\ Free(s) \in Nat /\ Freeings(i, s) \in Int /\ 0 \in CTA /\ Sent(0, s) \in Nat
    BY <1>1, RingNumbers, AgentNames
  <2>2. n \in {Turn(s) - 1, Turn(s)}
    BY <1>1, <1>2 DEF FullInv
  <2>3. Turn(s) \in {n, n + 1}
    BY <1>1, <2>1, <2>2
  <2>. QED BY <1>2, <2>1, <2>3 DEF FullInv, EmptyInv
<1>4. Turn(s) = n + 1
  BY <1>1, <1>3, Waited DEF Turn, s, n
<1>5. Freeings(i, s) = n - (IF Unfreed(i, s) THEN 1 ELSE 0)
  BY <1>1 DEF Freeings
<1>6. ~Unfreed(i, s) /\ Freeings(i, s) = n
  BY <1>1, <1>3, <1>4, <1>5
<1>. QED BY <1>1, <1>4, <1>6 DEF s, n

LEMMA TmaPasses ==
  ASSUME PipelineTypes, RingInv, NEW c \in CTA, At(tma(c)) = "run",
         Passed(bar[EMPTY(c, St(tma(c)))], Laps(tma(c)) - 1)
  PROVE  LET s == St(tma(c))
             n == Laps(tma(c)) IN
         /\ s \in Stage /\ Fill(tma(c), s) = n /\ Sent(c, s) = n /\ Free(s) = n /\ Turn(s) = n
         /\ Landings(c, s) = n /\ ~Flying(c, s)
<1>. DEFINE s == St(tma(c))
            n == Laps(tma(c))
<1>1. s \in Stage /\ n \in Nat /\ Fill(tma(c), s) = n /\ Sent(c, s) = n
  <2>1. s \in Stage /\ n \in Nat
    BY AgentNames, AgentTyped
  <2>2. Fill(tma(c), s) = n
    BY <2>1 DEF Fill, Stage
  <2>. QED BY <2>1, <2>2 DEF Sent
<1>. HIDE DEF s, n
<1>2. FullInv(s) /\ EmptyInv(s)
  BY <1>1 DEF RingInv
<1>3. /\ Turn(s) \in Nat /\ Free(s) \in Nat /\ Freeings(0, s) \in Int /\ Fill(mma(0), s) \in Nat
      /\ Landings(c, s) \in Int /\ 0 \in Acc
  BY <1>1, RingNumbers, AgentNames
<1>4. /\ n \in {Turn(s), Turn(s) + 1} /\ n <= Free(s) + 1 /\ Landings(c, s) \in {Turn(s), Turn(s) + 1}
      /\ Fill(mma(0), s) <= Turn(s) /\ Free(s) <= Freeings(0, s)
      /\ bar[EMPTY(c, s)] = Bar(Free(s), IF Freeings(0, s) = Freeings(1, s) THEN 2 ELSE 1, 0, 2)
  BY <1>1, <1>2, <1>3 DEF FullInv, EmptyInv
<1>5. Freeings(0, s) <= Fill(mma(0), s)
  BY <1>3 DEF Freeings
<1>6. bar[EMPTY(c, s)].turn = Free(s)
  BY <1>4 DEF Bar
<1>7. Free(s) \in {n - 1, n - 1 + 1} /\ n - 1 \in Int
  BY <1>1, <1>3, <1>4, <1>5
<1>8. Free(s) = n - 1 + 1
  BY <1>6, <1>7, Waited DEF s, n
<1>9. Free(s) = n /\ Turn(s) = n
  BY <1>1, <1>3, <1>4, <1>5, <1>8
<1>10. Landings(c, s) = n - (IF Flying(c, s) THEN 1 ELSE 0)
  BY <1>1 DEF Landings
<1>11. Landings(c, s) = n /\ ~Flying(c, s)
  BY <1>1, <1>4, <1>9, <1>10
<1>. QED BY <1>1, <1>9, <1>11 DEF s, n

LEMMA TmemNumbers ==
  ASSUME PipelineTypes, TmemInv, NEW i \in Acc
  PROVE  /\ Uses(mma(i)) \in Nat /\ Returned(i) \in Nat /\ Complete(i) \in Int /\ Complete(i) <= Uses(mma(i))
         /\ \A c \in CTA : /\ Back(c, i) \in Nat /\ Uses(con(c, i)) \in Nat /\ Returned(i) <= Back(c, i)
                           /\ Back(c, i) <= Uses(con(c, i)) /\ Uses(con(c, i)) <= Complete(i)
<1>1. Uses(mma(i)) \in Nat /\ \A c \in CTA : Uses(con(c, i)) \in Nat /\ Back(c, i) \in Nat
  BY AgentNames, AgentTyped DEF TmemInv
<1>2. Complete(i) \in Int /\ Complete(i) <= Uses(mma(i))
  BY <1>1 DEF Complete
<1>3. \A c \in CTA : Back(c, i) <= Uses(con(c, i))
  BY <1>1 DEF Back
<1>4. \A m, n \in Nat : Least(m, n) \in Nat /\ Least(m, n) <= m /\ Least(m, n) <= n
  BY DEF Least
<1>5. Returned(i) \in Nat /\ \A c \in CTA : Returned(i) <= Back(c, i)
  BY <1>1, <1>4, AgentNames DEF Returned
<1>. QED BY <1>1, <1>2, <1>3, <1>5 DEF TmemInv

LEMMA AcquirePasses ==
  ASSUME PipelineTypes, TmemInv, NEW i \in Acc, At(mma(i)) = "acquire", Passed(bar[TEMPTY(i)], Uses(mma(i)) - 1)
  PROVE  Returned(i) = Uses(mma(i)) /\ Complete(i) = Uses(mma(i)) /\ queue[i] = <<>>
<1>. DEFINE u == Uses(mma(i))
<1>1. /\ u \in Nat /\ Returned(i) \in Nat /\ Complete(i) \in Int /\ Complete(i) <= u /\ Returned(i) <= Complete(i)
      /\ u <= Returned(i) + 1
  <2>1. 0 \in CTA
    BY AgentNames
  <2>2. /\ u \in Nat /\ Returned(i) \in Nat /\ Complete(i) \in Int /\ Complete(i) <= u
        /\ Returned(i) <= Back(0, i) /\ Back(0, i) \in Nat /\ Uses(con(0, i)) \in Nat
        /\ Back(0, i) <= Uses(con(0, i)) /\ Uses(con(0, i)) <= Complete(i)
    BY <2>1, TmemNumbers
  <2>3. Returned(i) <= Complete(i)
    BY <2>2
  <2>. QED BY <2>2, <2>3 DEF TmemInv
<1>. HIDE DEF u
<1>2. bar[TEMPTY(i)].turn = Returned(i)
  <2>1. bar[TEMPTY(i)] = Bar(Returned(i), IF Back(0, i) = Back(1, i) THEN 2 ELSE 1, 0, 2)
    BY DEF TmemInv
  <2>. QED BY <2>1, TurnOf
<1>3. Returned(i) \in {u - 1, u - 1 + 1} /\ u - 1 \in Int
  BY <1>1
<1>4. Returned(i) = u - 1 + 1
  BY <1>2, <1>3, Waited DEF u
<1>5. Returned(i) = u /\ Complete(i) = u
  BY <1>1, <1>4
<1>6. queue[i] = <<>>
  BY <1>1, <1>5 DEF Complete, u
<1>. QED BY <1>5, <1>6 DEF u

LEMMA ConsumerPasses ==
  ASSUME PipelineTypes, TmemInv, NEW c \in CTA, NEW i \in Acc, At(con(c, i)) = "wait"
  PROVE  /\ Complete(i) \in {Uses(con(c, i)), Uses(con(c, i)) + 1} /\ bar[TFULL(c, i)].turn = Complete(i)
         /\ Passed(bar[TFULL(c, i)], Uses(con(c, i))) => Complete(i) = Uses(con(c, i)) + 1
<1>1. /\ Uses(mma(i)) \in Nat /\ Returned(i) \in Nat /\ Complete(i) \in Int /\ Complete(i) <= Uses(mma(i))
      /\ Back(c, i) \in Nat /\ Uses(con(c, i)) \in Nat /\ Returned(i) <= Back(c, i)
      /\ Uses(con(c, i)) <= Complete(i)
  BY TmemNumbers
<1>2. Uses(mma(i)) <= Returned(i) + 1 /\ Back(c, i) = Uses(con(c, i)) /\ bar[TFULL(c, i)].turn = Complete(i)
  <2>1. bar[TFULL(c, i)] = Bar(Complete(i), 1, 0, 1) /\ Uses(mma(i)) <= Returned(i) + 1
    BY DEF TmemInv
  <2>2. Back(c, i) = Uses(con(c, i))
    BY <1>1 DEF Back
  <2>. QED BY <2>1, <2>2, TurnOf
<1>3. Complete(i) \in {Uses(con(c, i)), Uses(con(c, i)) + 1}
  BY <1>1, <1>2
<1>. QED BY <1>1, <1>2, <1>3, Waited

(* The operation at the head of a queue, by its number in the task.          *)
LEMMA OpNumber ==
  ASSUME PipelineTypes, NEW x \in Nat, x <= 2 * K_BLOCKS
  PROVE  LET o == OpAt(x)
             m == x \div 2 IN
         /\ m \in Nat /\ o.op \in {"mma", "free", "done"}
         /\ o.op = "mma" => x = 2 * m /\ m < K_BLOCKS /\ o.stage = StageAt(m) /\ (o.first <=> m = 0)
                            /\ (x + 1) \div 2 = m
         /\ o.op = "free" => x = 2 * m + 1 /\ m < K_BLOCKS /\ o.stage = StageAt(m) /\ (x + 1) \div 2 = m + 1
         /\ o.op = "done" => x = 2 * K_BLOCKS /\ m = K_BLOCKS /\ (x + 1) \div 2 = K_BLOCKS
<1>. DEFINE m == x \div 2
            o == OpAt(x)
<1>1. K_BLOCKS \in Nat \ {0} /\ m \in Nat /\ (x = 2 * m \/ x = 2 * m + 1) /\ (x % 2 = 0 <=> x = 2 * m)
  <2>1. \A y \in Nat : /\ y \div 2 \in Nat /\ (y = 2 * (y \div 2) \/ y = 2 * (y \div 2) + 1)
                      /\ (y % 2 = 0 <=> y = 2 * (y \div 2))
    OBVIOUS
  <2>2. K_BLOCKS \in Nat \ {0}
    BY Shaped DEF PipelineTypes
  <2>. QED BY <2>1, <2>2
<1>2. (x = 2 * m => (x + 1) \div 2 = m) /\ (x = 2 * m + 1 => (x + 1) \div 2 = m + 1)
  <2>1. \A k \in Nat : (2 * k + 1) \div 2 = k /\ (2 * k + 1 + 1) \div 2 = k + 1
    OBVIOUS
  <2>. HIDE DEF m
  <2>. QED BY <1>1, <2>1
<1>3. CASE x = 2 * K_BLOCKS
  <2>1. o = [op |-> "done"]
    BY <1>3 DEF OpAt
  <2>2. m = K_BLOCKS
    <3>. HIDE DEF m
    <3>. QED BY <1>1, <1>3
  <2>. QED BY <1>1, <1>2, <1>3, <2>1, <2>2
<1>4. CASE x # 2 * K_BLOCKS /\ x = 2 * m
  <2>1. o = [op |-> "mma", stage |-> StageAt(m), first |-> m = 0]
    BY <1>1, <1>4 DEF OpAt
  <2>2. m < K_BLOCKS
    <3>. HIDE DEF m
    <3>. QED BY <1>1, <1>4
  <2>3. o.op = "mma" /\ o.stage = StageAt(m) /\ (o.first <=> m = 0)
    <3>. HIDE DEF o, m
    <3>1. o.op = "mma" /\ o.stage = StageAt(m)
      BY <2>1
    <3>2. o.first <=> m = 0
      BY Zenon, <2>1
    <3>. QED BY <3>1, <3>2
  <2>. QED BY <1>1, <1>2, <1>4, <2>2, <2>3
<1>5. CASE x # 2 * K_BLOCKS /\ x # 2 * m
  <2>1. o = [op |-> "free", stage |-> StageAt(m)]
    BY <1>1, <1>5 DEF OpAt
  <2>2. m < K_BLOCKS
    <3>. HIDE DEF m
    <3>. QED BY <1>1, <1>5
  <2>3. o.op = "free" /\ o.stage = StageAt(m)
    BY <2>1
  <2>. QED BY <1>1, <1>2, <1>5, <2>2, <2>3
<1>. QED BY <1>3, <1>4, <1>5

LEMMA HeadOp ==
  ASSUME PipelineTypes, PosInv, QueueInv, NEW i \in Acc, queue[i] # <<>>
  PROVE  LET x == Executed(i)
             o == Head(queue[i]) IN
         /\ x \in Nat /\ x <= 2 * K_BLOCKS /\ o = OpAt(x) /\ o \in Op
         /\ Len(queue[i]) \in Nat /\ Len(queue[i]) >= 1
         /\ Len(Tail(queue[i])) = Len(queue[i]) - 1
         /\ \A k \in 1 .. Len(queue[i]) - 1 : Tail(queue[i])[k] = queue[i][k + 1]
         /\ x + Len(queue[i]) = IF At(mma(i)) = "run" THEN 2 * Pos(mma(i)) ELSE 2 * K_BLOCKS + 1
         /\ Task(i) # 0
<1>. DEFINE q == queue[i]
            x == Executed(i)
<1>1. q \in Seq(Op) /\ q # <<>>
  BY DEF PipelineTypes
<1>2. Head(q) = q[1] /\ Head(q) \in Op /\ Len(q) \in Nat /\ Len(q) >= 1 /\ Len(Tail(q)) = Len(q) - 1
      /\ \A k \in 1 .. Len(q) - 1 : Tail(q)[k] = q[k + 1]
  <2>. HIDE DEF q
  <2>1. Len(q) \in Nat /\ Len(q) # 0
    BY <1>1
  <2>. QED BY <1>1, <2>1, HeadTailProperties
<1>3. x \in Nat /\ (\A k \in 1 .. Len(q) : q[k] = OpAt(x + k - 1)) /\ Task(i) # 0
  BY <1>1 DEF QueueInv
<1>4. /\ x = (IF At(mma(i)) = "run" THEN 2 * Pos(mma(i)) ELSE 2 * K_BLOCKS + 1) - Len(q)
      /\ Pos(mma(i)) \in Nat /\ K_BLOCKS \in Nat /\ (At(mma(i)) = "run" => Pos(mma(i)) < K_BLOCKS)
  <2>1. mma(i) \in Agent /\ mma(i) \in Ring
    BY AgentNames, RingMember
  <2>2. Pos(mma(i)) \in Nat /\ K_BLOCKS \in Nat
    BY <2>1, AgentTyped, Shaped DEF PipelineTypes
  <2>3. At(mma(i)) = "run" => Pos(mma(i)) < K_BLOCKS
    BY <2>1 DEF PosInv, Looping
  <2>. QED BY <2>2, <2>3 DEF Executed
<1>. HIDE DEF q, x
<1>5. x <= 2 * K_BLOCKS /\ x + Len(q) = IF At(mma(i)) = "run" THEN 2 * Pos(mma(i)) ELSE 2 * K_BLOCKS + 1
  BY <1>2, <1>3, <1>4
<1>6. q[1] = OpAt(x)
  <2>1. 1 \in 1 .. Len(q) /\ x + 1 - 1 = x
    BY <1>2, <1>3
  <2>. QED BY <1>3, <2>1
<1>. QED BY <1>2, <1>3, <1>5, <1>6 DEF q, x

----------------------------------------------------------------------------
(* Queues.                                                                   *)
QueueOf(i) ==
  /\ Executed(i) \in Nat /\ (Task(i) = 0 => queue[i] = <<>>)
  /\ \A k \in 1 .. Len(queue[i]) : queue[i][k] = OpAt(Executed(i) + k - 1)
  /\ \A p \in Low(i) .. High(i) - 1 :
       p = (Fill(mma(i), StageAt(p)) - 1 - Start(i)) * PIPELINE_DEPTH + StageAt(p)

LEMMA QueueIs ==
  ASSUME UNCHANGED shape, NEW i \in Acc, NEW x, NEW h, NEW st,
         Executed(i)' = x, High(i)' = h, Start(i)' = st, x \in Nat,
         Task(i)' = 0 => queue'[i] = <<>>,
         \A k \in 1 .. Len(queue'[i]) : queue'[i][k] = OpAt(x + k - 1),
         \A p \in x \div 2 .. h - 1 :
           p = (Fill(mma(i), StageAt(p))' - 1 - st) * PIPELINE_DEPTH + StageAt(p)
  PROVE  QueueOf(i)'
<1>1. \A k : OpAt(x + k - 1)' = OpAt(x + k - 1)
  BY Fixed
<1>. QED BY Fixed DEF QueueOf, Low

LEMMA UnfreedIs ==
  ASSUME UNCHANGED shape, NEW i, NEW l, NEW h, Low(i)' = l, High(i)' = h
  PROVE  \A s : Unfreed(i, s)' <=> \E p \in l .. h - 1 : StageAt(p) = s
BY Fixed DEF Unfreed

LEMMA QueueSame ==
  ASSUME PipelineTypes, UNCHANGED shape, NEW i \in Acc, queue'[i] = queue[i],
         At(mma(i))' = "run" <=> At(mma(i)) = "run", Pos(mma(i))' = Pos(mma(i)),
         Laps(mma(i))' = Laps(mma(i)), Uses(mma(i))' = Uses(mma(i))
  PROVE  /\ Task(i)' = Task(i) /\ Executed(i)' = Executed(i)
         /\ \A s : Unfreed(i, s)' <=> Unfreed(i, s)
         /\ \A s \in Stage : Fill(mma(i), s)' = Fill(mma(i), s) /\ Freeings(i, s)' = Freeings(i, s)
         /\ QueueOf(i) => QueueOf(i)'
<1>1. St(mma(i))' = St(mma(i))
  BY Fixed DEF St, StageAt
<1>2. \A s \in Stage : Fill(mma(i), s)' = Fill(mma(i), s)
  BY <1>1, FillKept
<1>3. Task(i)' = Task(i)
  BY DEF Task
<1>4. Executed(i)' = Executed(i) /\ High(i)' = High(i) /\ Start(i)' = Start(i)
  BY <1>3, Fixed DEF Executed, High, Start
<1>5. Low(i)' = Low(i)
  BY <1>4 DEF Low
<1>6. \A s : Unfreed(i, s)' <=> Unfreed(i, s)
  BY <1>4, <1>5, UnfreedIs DEF Unfreed
<1>7. \A s \in Stage : Freeings(i, s)' = Freeings(i, s)
  BY <1>2, <1>6 DEF Freeings
<1>8. QueueOf(i) => QueueOf(i)'
  <2>. SUFFICES ASSUME QueueOf(i) PROVE QueueOf(i)'
    OBVIOUS
  <2>1. \A p \in Low(i) .. High(i) - 1 : StageAt(p) \in Stage
    <3>1. Low(i) \in Nat
      <4>1. \A x \in Nat : x \div 2 \in Nat
        OBVIOUS
      <4>. QED BY <4>1 DEF QueueOf, Low
    <3>2. \A p \in Low(i) .. High(i) - 1 : p \in Nat
      BY <3>1
    <3>. QED BY <3>2, NextStage DEF PipelineTypes
  <2>2. \A p \in Executed(i) \div 2 .. High(i) - 1 :
           p = (Fill(mma(i), StageAt(p))' - 1 - Start(i)) * PIPELINE_DEPTH + StageAt(p)
    <3>. SUFFICES ASSUME NEW p \in Executed(i) \div 2 .. High(i) - 1
                  PROVE  p = (Fill(mma(i), StageAt(p))' - 1 - Start(i)) * PIPELINE_DEPTH + StageAt(p)
      OBVIOUS
    <3>1. p \in Low(i) .. High(i) - 1
      BY DEF Low
    <3>2. p = (Fill(mma(i), StageAt(p)) - 1 - Start(i)) * PIPELINE_DEPTH + StageAt(p)
      BY <3>1 DEF QueueOf
    <3>3. Fill(mma(i), StageAt(p))' = Fill(mma(i), StageAt(p))
      BY <1>2, <2>1, <3>1, Fixed
    <3>. QED BY <3>2, <3>3
  <2>3. Task(i)' = 0 => queue'[i] = <<>>
    BY <1>3 DEF QueueOf
  <2>4. Executed(i) \in Nat /\ \A k \in 1 .. Len(queue'[i]) : queue'[i][k] = OpAt(Executed(i) + k - 1)
    BY DEF QueueOf
  <2>. QED BY <1>4, <2>2, <2>3, <2>4, QueueIs
<1>. QED BY <1>2, <1>3, <1>4, <1>6, <1>7, <1>8

LEMMA QueueOthers ==
  ASSUME PipelineTypes, UNCHANGED shape, NEW i \in Acc, queue'[i] = queue[i], agent'[mma(i)] = agent[mma(i)]
  PROVE  /\ Task(i)' = Task(i) /\ Executed(i)' = Executed(i)
         /\ \A s : Unfreed(i, s)' <=> Unfreed(i, s)
         /\ \A s \in Stage : Fill(mma(i), s)' = Fill(mma(i), s) /\ Freeings(i, s)' = Freeings(i, s)
         /\ QueueOf(i) => QueueOf(i)'
BY Same, QueueSame

(* An MMA warp starts a task: its queue is empty.                            *)
LEMMA QueueAcquire ==
  ASSUME PipelineTypes, PosInv, QueueInv, TmemInv, UNCHANGED shape, NEW i \in Acc, MmaAcquire(i)
  PROVE  /\ Task(i)' = Task(i) + 1 /\ Executed(i)' = 0 /\ queue[i] = <<>> /\ QueueOf(i)'
         /\ \A s : ~Unfreed(i, s)' /\ ~Unfreed(i, s)
         /\ \A s \in Stage : Fill(mma(i), s)' = Fill(mma(i), s) /\ Freeings(i, s)' = Freeings(i, s)
<1>1. /\ At(mma(i)) = "acquire" /\ Passed(bar[TEMPTY(i)], Uses(mma(i)) - 1) /\ Moves(mma(i), "run")
      /\ UNCHANGED queue
  BY AcquireStep
<1>2. queue[i] = <<>> /\ queue'[i] = <<>>
  BY <1>1, AcquirePasses
<1>3. Pos(mma(i)) = 0 /\ mma(i) \in Agent
  BY <1>1, AgentNames, RingMember DEF PosInv, Looping
<1>4. /\ At(mma(i))' = "run" /\ Pos(mma(i))' = 0 /\ Laps(mma(i))' = Laps(mma(i)) /\ Uses(mma(i))' = Uses(mma(i))
      /\ K_BLOCKS \in Nat /\ Uses(mma(i)) \in Nat
  BY <1>1, <1>3, AgentTyped, Shaped DEF Moves, Becomes, PipelineTypes
<1>5. Len(queue[i]) = 0 /\ Len(queue'[i]) = 0
  BY <1>2
<1>6. Executed(i)' = 0 /\ High(i)' = 0 /\ Task(i)' = Uses(mma(i)) + 1 /\ Task(i) = Uses(mma(i))
  BY <1>1, <1>4, <1>5 DEF Executed, High, Task
<1>7. Executed(i) = 2 * K_BLOCKS + 1 /\ High(i) = K_BLOCKS
  BY <1>1, <1>4, <1>5 DEF Executed, High
<1>8. Low(i) = K_BLOCKS /\ Low(i)' = 0
  <2>1. 0 \div 2 = 0 /\ \A k \in Nat : (2 * k + 1) \div 2 = k
    OBVIOUS
  <2>. QED BY <1>4, <1>6, <1>7, <2>1 DEF Low
<1>9. \A s : ~Unfreed(i, s)' /\ ~Unfreed(i, s)
  <2>1. \A s : ~Unfreed(i, s)
    BY <1>4, <1>7, <1>8 DEF Unfreed
  <2>2. \A s : Unfreed(i, s)' <=> \E p \in 0 .. 0 - 1 : StageAt(p) = s
    BY <1>6, <1>8, UnfreedIs
  <2>. QED BY <2>1, <2>2
<1>10. St(mma(i))' = St(mma(i))
  BY <1>3, <1>4, Fixed DEF St, StageAt
<1>11. \A s \in Stage : Fill(mma(i), s)' = Fill(mma(i), s)
  BY <1>4, <1>10, FillKept
<1>12. \A s \in Stage : Freeings(i, s)' = Freeings(i, s)
  BY <1>9, <1>11 DEF Freeings
<1>13. QueueOf(i)'
  <2>1. 0 \in Nat /\ 0 \div 2 = 0 /\ 1 .. 0 = {} /\ 0 .. 0 - 1 = {}
    OBVIOUS
  <2>2. \A p \in 0 \div 2 .. 0 - 1 :
          p = (Fill(mma(i), StageAt(p))' - 1 - Start(i)') * PIPELINE_DEPTH + StageAt(p)
    BY <2>1
  <2>3. \A k \in 1 .. Len(queue'[i]) : queue'[i][k] = OpAt(0 + k - 1)
    BY <1>5, <2>1
  <2>. QED BY <1>2, <1>6, <2>1, <2>2, <2>3, QueueIs
<1>. QED BY <1>2, <1>6, <1>9, <1>11, <1>12, <1>13

(* The tensor core executes the operation at the head.                       *)
LEMMA QueuePops ==
  ASSUME PipelineTypes, PosInv, QueueInv, UNCHANGED <<shape, agent>>, NEW i \in Acc, queue[i] # <<>>,
         queue' = [queue EXCEPT ![i] = Tail(@)]
  PROVE  LET x == Executed(i)
             o == Head(queue[i]) IN
         /\ Task(i)' = Task(i) /\ Executed(i)' = x + 1 /\ x \in Nat /\ x <= 2 * K_BLOCKS /\ o = OpAt(x) /\ Task(i) # 0
         /\ queue'[i] = Tail(queue[i]) /\ \A j \in Acc \ {i} : queue'[j] = queue[j]
         /\ QueueOf(i)'
         /\ o.op # "free" => \A s : Unfreed(i, s)' <=> Unfreed(i, s)
         /\ o.op = "free" => /\ o.stage \in Stage
                             /\ \A s : IF s = o.stage THEN Unfreed(i, s) /\ ~Unfreed(i, s)'
                                                      ELSE Unfreed(i, s)' <=> Unfreed(i, s)
         /\ o.op = "done" => At(mma(i)) # "run" /\ queue'[i] = <<>> /\ x = 2 * K_BLOCKS
         /\ o.op # "done" /\ At(mma(i)) # "run" => queue'[i] # <<>>
         /\ o.op \in {"mma", "free", "done"}
         /\ \A s \in Stage : Fill(mma(i), s)' = Fill(mma(i), s)
<1>. DEFINE a == mma(i)
            x == Executed(i)
            q == queue[i]
            o == Head(q)
            n == K_BLOCKS
            h == High(i)
            m == Low(i)
<1>1. /\ x \in Nat /\ x <= 2 * n /\ o = OpAt(x) /\ Len(q) \in Nat /\ Len(q) >= 1 /\ Len(Tail(q)) = Len(q) - 1
      /\ \A k \in 1 .. Len(q) - 1 : Tail(q)[k] = q[k + 1]
      /\ x + Len(q) = IF At(a) = "run" THEN 2 * Pos(a) ELSE 2 * n + 1
      /\ Task(i) # 0
  BY HeadOp
<1>2. a \in Agent /\ a \in Ring /\ Pos(a) \in Nat /\ n \in Nat /\ (At(a) = "run" => Pos(a) < n)
  <2>1. a \in Agent /\ a \in Ring
    BY AgentNames, RingMember
  <2>2. Pos(a) \in Nat /\ n \in Nat
    BY <2>1, AgentTyped, Shaped DEF PipelineTypes
  <2>3. At(a) = "run" => Pos(a) < n
    BY <2>1 DEF PosInv, Looping
  <2>. QED BY <2>1, <2>2, <2>3
<1>3. queue'[i] = Tail(q) /\ \A j \in Acc \ {i} : queue'[j] = queue[j]
  BY DEF PipelineTypes
<1>4. /\ At(a)' = At(a) /\ Pos(a)' = Pos(a) /\ Laps(a)' = Laps(a) /\ Uses(a)' = Uses(a) /\ St(a)' = St(a)
      /\ n' = n /\ LAPS' = LAPS
  BY Same, Fixed
<1>5. Task(i)' = Task(i) /\ Start(i)' = Start(i) /\ High(i)' = h
  BY <1>4 DEF Task, Start, High
<1>6. Executed(i)' = x + 1
  <2>1. Executed(i)' = (IF At(a) = "run" THEN 2 * Pos(a) ELSE 2 * n + 1) - (Len(q) - 1)
    BY <1>1, <1>3, <1>4 DEF Executed
  <2>. HIDE DEF q, x, n
  <2>. QED BY <1>1, <1>2, <2>1
<1>7. \A s \in Stage : Fill(a, s)' = Fill(a, s)
  BY <1>4, FillKept
<1>8. /\ m = x \div 2 /\ m \in Nat /\ o.op \in {"mma", "free", "done"}
      /\ o.op = "mma" => x = 2 * m /\ m < n /\ (x + 1) \div 2 = m
      /\ o.op = "free" => x = 2 * m + 1 /\ m < n /\ o.stage = StageAt(m) /\ (x + 1) \div 2 = m + 1
      /\ o.op = "done" => x = 2 * n /\ m = n /\ (x + 1) \div 2 = n
  <2>1. m = x \div 2
    BY DEF Low
  <2>. HIDE DEF m, x, o, n
  <2>. QED BY <1>1, <2>1, OpNumber DEF n
<1>9. h = IF At(a) = "run" THEN Pos(a) ELSE n
  BY DEF High
<1>10. Low(i)' = (x + 1) \div 2
  BY <1>6 DEF Low
<1>. HIDE DEF a, x, q, o, n, h, m
<1>a. /\ x \in Nat /\ Len(q) \in Nat /\ Len(q) >= 1 /\ Pos(a) \in Nat /\ n \in Nat /\ m \in Nat
      /\ At(a) = "run" => x + Len(q) = 2 * Pos(a) /\ Pos(a) < n
      /\ At(a) # "run" => x + Len(q) = 2 * n + 1
  BY <1>1, <1>2, <1>8
<1>b. Len(queue'[i]) = Len(q) - 1
  BY <1>1, <1>3
<1>c. (o.op = "free" => x = 2 * m + 1 /\ m < n) /\ (o.op = "mma" => x = 2 * m /\ m < n) /\ (o.op = "done" => x = 2 * n)
      /\ o.op \in {"mma", "free", "done"}
  BY <1>8
<1>d. h \in Nat /\ (At(a) = "run" => h = Pos(a)) /\ (At(a) # "run" => h = n)
  BY <1>2, <1>9
<1>11. o.op = "free" => m < h
  BY <1>a, <1>c, <1>d
<1>e. \A y, l, p, k \in Nat : /\ (l >= 1 /\ y + l = 2 * p /\ p < k => y # 2 * k)
                             /\ (y + l = 2 * k + 1 /\ y = 2 * k => l = 1)
                             /\ (y + l = 2 * k + 1 /\ y = 2 * p /\ p < k => l >= 2)
                             /\ (y + l = 2 * k + 1 /\ y = 2 * p + 1 /\ p < k => l >= 2)
  OBVIOUS
<1>12. o.op = "done" => At(a) # "run" /\ Len(q) = 1
  BY <1>a, <1>c, <1>e
<1>13. queue'[i] \in Seq(Op) /\ q \in Seq(Op)
  <2>1. q # <<>> /\ q \in Seq(Op)
    BY DEF q, PipelineTypes
  <2>. QED BY <1>3, <2>1, HeadTailProperties
<1>14. o.op = "done" => queue'[i] = <<>>
  <2>1. Len(q) = 1 => Len(queue'[i]) = 0
    BY <1>b
  <2>2. Len(queue'[i]) = 0 => queue'[i] = <<>>
    BY <1>13, EmptySeq
  <2>. QED BY <1>12, <2>1, <2>2
<1>15. o.op # "done" /\ At(a) # "run" => queue'[i] # <<>>
  <2>1. Len(<<>>) = 0
    OBVIOUS
  <2>2. o.op # "done" /\ At(a) # "run" => Len(q) >= 2
    BY <1>a, <1>c, <1>e
  <2>3. Len(q) >= 2 => Len(queue'[i]) # 0
    <3>1. \A l \in Nat : l >= 2 => l - 1 # 0
      OBVIOUS
    <3>2. Len(q) >= 2 => Len(q) - 1 # 0
      BY Zenon, <1>a, <3>1
    <3>. QED BY Zenon, <1>b, <3>2
  <2>. QED BY <2>1, <2>2, <2>3
<1>16. \A p \in m .. h - 1 : p \in Nat /\ StageAt(p) \in Stage
  <2>1. \A p \in m .. h - 1 : p \in Nat
    BY <1>8
  <2>. QED BY <2>1, NextStage DEF PipelineTypes
<1>17. \A p \in m .. h - 1 : p = (Fill(a, StageAt(p)) - 1 - Start(i)) * PIPELINE_DEPTH + StageAt(p)
  BY DEF QueueInv, m, h, a
<1>18. (x + 1) \div 2 = IF o.op = "free" THEN m + 1 ELSE m
  BY <1>8
<1>19. \A s : Unfreed(i, s)' <=> \E p \in (x + 1) \div 2 .. h - 1 : StageAt(p) = s
  BY <1>5, <1>10, UnfreedIs
<1>20. \A s : Unfreed(i, s) <=> \E p \in m .. h - 1 : StageAt(p) = s
  BY DEF Unfreed, m, h
<1>21. o.op # "free" => \A s : Unfreed(i, s)' <=> Unfreed(i, s)
  BY <1>18, <1>19, <1>20
<1>22. ASSUME o.op = "free"
       PROVE  /\ o.stage \in Stage
              /\ \A s : IF s = o.stage THEN Unfreed(i, s) /\ ~Unfreed(i, s)'
                                       ELSE Unfreed(i, s)' <=> Unfreed(i, s)
  <2>1. m \in m .. h - 1 /\ o.stage = StageAt(m) /\ h \in Nat
    <3>1. o.stage = StageAt(m) /\ m < h
      BY <1>8, <1>11, <1>22
    <3>. QED BY <1>a, <1>d, <3>1
  <2>2. Unfreed(i, o.stage) /\ o.stage \in Stage
    BY <1>16, <1>20, <2>1
  <2>3. \A s : Unfreed(i, s)' <=> \E p \in m + 1 .. h - 1 : StageAt(p) = s
    BY <1>18, <1>19, <1>22
  <2>4. ~\E p \in m + 1 .. h - 1 : StageAt(p) = o.stage
    <3>1. ASSUME NEW p \in m + 1 .. h - 1, StageAt(p) = StageAt(m) PROVE FALSE
      <4>1. p \in m .. h - 1
        BY <1>8
      <4>2. p = (Fill(a, StageAt(p)) - 1 - Start(i)) * PIPELINE_DEPTH + StageAt(p)
        BY <1>17, <4>1
      <4>3. m = (Fill(a, StageAt(m)) - 1 - Start(i)) * PIPELINE_DEPTH + StageAt(m)
        BY <1>17, <2>1
      <4>4. p = m
        BY Zenon, <3>1, <4>2, <4>3
      <4>. QED BY <1>8, <4>4
    <3>. QED BY <2>1, <3>1
  <2>5. \A s : s # o.stage => (Unfreed(i, s)' <=> Unfreed(i, s))
    <3>1. /\ \A p \in m .. h - 1 : p = m \/ p \in m + 1 .. h - 1
          /\ \A p \in m + 1 .. h - 1 : p \in m .. h - 1
      BY <1>a, <1>d
    <3>. QED BY <1>20, <2>1, <2>3, <3>1
  <2>6. \A s : s = o.stage => ~Unfreed(i, s)'
    BY <2>3, <2>4
  <2>7. \A s : s = o.stage => Unfreed(i, s)
    BY <2>2
  <2>. QED BY <2>2, <2>5, <2>6, <2>7
<1>23. QueueOf(i)'
  <2>1. x + 1 \in Nat
    BY <1>1
  <2>2. \A k \in 1 .. Len(queue'[i]) : queue'[i][k] = OpAt(x + 1 + k - 1)
    <3>. SUFFICES ASSUME NEW k \in 1 .. Len(queue'[i]) PROVE queue'[i][k] = OpAt(x + 1 + k - 1)
      OBVIOUS
    <3>1. k \in 1 .. Len(q) - 1 /\ k + 1 \in 1 .. Len(q)
      BY <1>1, <1>3
    <3>2. queue'[i][k] = q[k + 1]
      BY <1>1, <1>3, <3>1
    <3>3. q[k + 1] = OpAt(x + (k + 1) - 1)
      BY <3>1 DEF QueueInv, q, x
    <3>4. x + (k + 1) - 1 = x + 1 + k - 1
      BY <1>1, <3>1
    <3>. QED BY <3>2, <3>3, <3>4
  <2>3. \A p \in (x + 1) \div 2 .. h - 1 :
          p = (Fill(a, StageAt(p))' - 1 - Start(i)) * PIPELINE_DEPTH + StageAt(p)
    <3>. SUFFICES ASSUME NEW p \in (x + 1) \div 2 .. h - 1
                  PROVE  p = (Fill(a, StageAt(p))' - 1 - Start(i)) * PIPELINE_DEPTH + StageAt(p)
      OBVIOUS
    <3>1. p \in m .. h - 1
      BY <1>8, <1>18
    <3>2. p = (Fill(a, StageAt(p)) - 1 - Start(i)) * PIPELINE_DEPTH + StageAt(p)
      BY <1>17, <3>1
    <3>3. Fill(a, StageAt(p))' = Fill(a, StageAt(p))
      BY <1>7, <1>16, <3>1, Fixed
    <3>. QED BY <3>2, <3>3
  <2>4. Task(i)' # 0
    BY <1>1, <1>5
  <2>. QED BY <1>5, <1>6, <2>1, <2>2, <2>3, <2>4, QueueIs DEF a, h
<1>24. o.op = "done" => At(a) # "run" /\ x = 2 * n
  BY <1>8, <1>12
<1>. QED BY <1>1, <1>3, <1>5, <1>6, <1>7, <1>8, <1>14, <1>15, <1>21, <1>22, <1>23, <1>24 DEF a, x, q, o, n

(* An MMA warp takes a stage.                                                *)
LEMMA QueueTurn ==
  ASSUME PipelineTypes, WholeLaps, PosInv, LapsInv, RingInv, QueueInv, UNCHANGED shape, NEW i \in Acc, MmaStage(i)
  PROVE  /\ Task(i)' = Task(i) /\ Executed(i)' = Executed(i) /\ Task(i) = Uses(mma(i)) + 1
         /\ QueueOf(i)' /\ queue'[i] # <<>> /\ \A j \in Acc \ {i} : queue'[j] = queue[j]
         /\ \A s : Unfreed(i, s)' <=> Unfreed(i, s) \/ s = St(mma(i))
         /\ \A s \in Stage : Freeings(i, s)' = Freeings(i, s)
         /\ \A s \in Stage : Fill(mma(i), s)' = IF s = St(mma(i)) THEN Fill(mma(i), s) + 1 ELSE Fill(mma(i), s)
<1>. DEFINE a == mma(i)
            x == Executed(i)
            q == queue[i]
            e == Issued(agent[a])
            n == K_BLOCKS
            m == Low(i)
            p == Pos(a)
            s == St(a)
            u == Uses(a)
<1>1. /\ a \in Agent /\ a \in Ring /\ a[1] = "mma" /\ p \in Nat /\ n \in Nat \ {0} /\ p < n /\ u \in Nat
      /\ s \in Stage /\ s = StageAt(p) /\ Laps(a) \in Nat /\ At(a) = "run" /\ Turns(a)
      /\ queue' = [queue EXCEPT ![i] = q \o e] /\ LAPS \in Nat \ {0} /\ PIPELINE_DEPTH \in Nat \ {0}
      /\ FetchPlace(a) = "idle"
  <2>1. a \in Agent /\ a \in Ring /\ a[1] = "mma" /\ FetchPlace(a) = "idle"
    BY AgentNames, RingMember, Kinds, Apart DEF FetchPlace
  <2>2. Turns(a) /\ At(a) = "run" /\ queue' = [queue EXCEPT ![i] = q \o e]
    BY MmaTurns
  <2>3. n \in Nat \ {0} /\ LAPS \in Nat \ {0} /\ PIPELINE_DEPTH \in Nat \ {0}
    BY Shaped, Whole DEF PipelineTypes
  <2>4. p \in Nat /\ u \in Nat /\ s \in Stage /\ Laps(a) \in Nat /\ s = StageAt(p)
    BY <2>1, AgentTyped DEF St
  <2>5. p < n
    BY <2>1, <2>2 DEF PosInv, Looping
  <2>. QED BY <2>1, <2>2, <2>3, <2>4, <2>5
<1>2. /\ Fill(a, s) = Laps(a) /\ ~Unfreed(i, s) /\ Freeings(i, s) = Laps(a)
  BY MmaTurns, MmaPasses
<1>3. \A t \in Stage : Fill(a, t)' = IF t = s THEN Fill(a, t) + 1 ELSE Fill(a, t)
  BY <1>1, FillTurns
<1>4. (LastTurn(a) <=> p = n - 1)
  <2>1. Looping(a)
    BY <1>1 DEF Looping
  <2>. QED BY <1>1, <2>1, PosTurns
<1>5. /\ At(a)' = IF p = n - 1 THEN "idle" ELSE "run"
      /\ Pos(a)' = IF p = n - 1 THEN 0 ELSE p + 1
      /\ Uses(a)' = IF p = n - 1 THEN u + 1 ELSE u
      /\ n' = n /\ LAPS' = LAPS
  <2>1. n' = n /\ LAPS' = LAPS
    BY Fixed
  <2>2. Turns(a) /\ a[1] = "mma" /\ FetchPlace(a) = "idle"
    BY <1>1
  <2>. HIDE DEF a
  <2>. QED BY <1>4, <2>1, <2>2 DEF Turns, Becomes
<1>6. /\ e \in Seq(Op) /\ Len(e) = (IF p = n - 1 THEN 3 ELSE 2)
      /\ \A k \in 1 .. Len(e) : e[k] = OpAt(2 * p + k - 1)
  BY <1>1, IssuedOps
<1>7. /\ x \in Nat /\ x = 2 * p - Len(q) /\ Len(q) \in Nat /\ q \in Seq(Op)
      /\ \A k \in 1 .. Len(q) : q[k] = OpAt(x + k - 1)
  <2>1. q \in Seq(Op)
    BY DEF PipelineTypes
  <2>2. Len(q) \in Nat
    BY <2>1, LenProperties
  <2>3. x = 2 * p - Len(q)
    BY <1>1 DEF Executed
  <2>. QED BY <2>1, <2>2, <2>3 DEF QueueInv
<1>8. queue'[i] = q \o e /\ \A j \in Acc \ {i} : queue'[j] = queue[j]
  BY <1>1 DEF PipelineTypes
<1>9. Task(i) = u + 1 /\ Start(i) = u * LAPS /\ High(i) = p
  <2>1. Task(i) = u + 1 /\ High(i) = p
    BY <1>1 DEF Task, High
  <2>2. (u + 1) - 1 = u
    BY <1>1
  <2>. QED BY <2>1, <2>2 DEF Start
<1>10. Task(i)' = u + 1 /\ High(i)' = p + 1
  <2>1. Task(i)' = Uses(a)' + (IF At(a)' = "run" THEN 1 ELSE 0)
    BY DEF Task
  <2>2. High(i)' = IF At(a)' = "run" THEN Pos(a)' ELSE n'
    BY DEF High
  <2>. HIDE DEF a, n, p, u
  <2>. QED BY <1>1, <1>5, <2>1, <2>2
<1>11. Start(i)' = u * LAPS
  <2>1. (u + 1) - 1 = u
    BY <1>1
  <2>. HIDE DEF u
  <2>. QED BY <1>5, <1>10, <2>1 DEF Start
<1>12. /\ Len(queue'[i]) = Len(q) + Len(e)
       /\ \A k \in 1 .. Len(q) + Len(e) : queue'[i][k] = IF k <= Len(q) THEN q[k] ELSE e[k - Len(q)]
  <2>1. q \in Seq(Op) /\ e \in Seq(Op)
    BY <1>6, <1>7
  <2>. HIDE DEF q, e
  <2>. QED BY <1>8, <2>1, ConcatProperties
<1>13. Executed(i)' = x
  <2>1. Executed(i)' = (IF At(a)' = "run" THEN 2 * Pos(a)' ELSE 2 * n' + 1) - Len(queue'[i])
    BY DEF Executed
  <2>2. Len(queue'[i]) = Len(q) + (IF p = n - 1 THEN 3 ELSE 2)
    BY <1>6, <1>12
  <2>3. x = 2 * p - Len(q) /\ Len(q) \in Nat
    BY <1>7
  <2>. DEFINE l == Len(q)
  <2>. HIDE DEF a, n, p, u, x, l
  <2>4. l \in Nat /\ x = 2 * p - l /\ p \in Nat /\ n \in Nat
    BY <1>1, <2>3 DEF l
  <2>5. CASE p = n - 1
    <3>1. Executed(i)' = (2 * n + 1) - (l + 3)
      BY <1>5, <2>1, <2>2, <2>5 DEF l
    <3>. QED BY <2>4, <2>5, <3>1
  <2>6. CASE p # n - 1
    <3>1. Executed(i)' = 2 * (p + 1) - (l + 2)
      BY <1>5, <2>1, <2>2, <2>6 DEF l
    <3>. QED BY <2>4, <2>6, <3>1
  <2>. QED BY <2>5, <2>6
<1>14. m \in Nat /\ m <= p /\ m = x \div 2
  <2>1. m = x \div 2
    BY DEF Low
  <2>. HIDE DEF m, x, q, n, p
  <2>2. \A y, l, k \in Nat : y = 2 * k - l => y \div 2 \in Nat /\ y \div 2 <= k
    OBVIOUS
  <2>3. x \in Nat /\ p \in Nat /\ Len(q) \in Nat /\ x = 2 * p - Len(q)
    BY <1>1, <1>7
  <2>. QED BY <2>1, <2>2, <2>3
<1>15. Low(i)' = m
  BY <1>13, <1>14 DEF Low
<1>16. p = (Laps(a) - u * LAPS) * PIPELINE_DEPTH + s
  BY <1>1 DEF LapsInv
<1>. HIDE DEF a, x, q, e, n, m, p, s, u
<1>17. \A t : Unfreed(i, t) <=> \E y \in m .. p - 1 : StageAt(y) = t
  BY <1>9 DEF Unfreed, m
<1>18. \A t : Unfreed(i, t)' <=> Unfreed(i, t) \/ t = s
  <2>1. \A t : Unfreed(i, t)' <=> \E y \in m .. (p + 1) - 1 : StageAt(y) = t
    BY <1>10, <1>15, UnfreedIs
  <2>2. (p + 1) - 1 = p
    BY <1>1
  <2>3. /\ \A y \in m .. p : y \in m .. p - 1 \/ y = p
        /\ \A y \in m .. p - 1 : y \in m .. p
        /\ p \in m .. p
    BY <1>1, <1>14
  <2>. QED BY <1>1, <1>17, <2>1, <2>2, <2>3
<1>19. \A t \in Stage : Freeings(i, t)' = Freeings(i, t)
  <2>. SUFFICES ASSUME NEW t \in Stage PROVE Freeings(i, t)' = Freeings(i, t)
    OBVIOUS
  <2>1. Fill(a, t) \in Nat
    BY <1>1, FillNat
  <2>2. Freeings(i, t)' = Fill(a, t)' - (IF Unfreed(i, t)' THEN 1 ELSE 0)
    BY DEF Freeings, a
  <2>3. Freeings(i, t) = Fill(a, t) - (IF Unfreed(i, t) THEN 1 ELSE 0)
    BY DEF Freeings, a
  <2>4. CASE t = s
    BY <1>2, <1>3, <1>18, <2>1, <2>2, <2>3, <2>4
  <2>5. CASE t # s
    BY <1>3, <1>18, <2>2, <2>3, <2>5
  <2>. QED BY <2>4, <2>5
<1>20. QueueOf(i)'
  <2>1. Task(i)' # 0
    BY <1>1, <1>10
  <2>2. \A k \in 1 .. Len(queue'[i]) : queue'[i][k] = OpAt(x + k - 1)
    <3>. SUFFICES ASSUME NEW k \in 1 .. Len(q) + Len(e) PROVE queue'[i][k] = OpAt(x + k - 1)
      BY <1>12
    <3>0. Len(q) \in Nat /\ Len(e) \in Nat
      BY <1>6, <1>7
    <3>1. CASE k <= Len(q)
      <4>1. k \in 1 .. Len(q)
        BY <3>0, <3>1
      <4>. QED BY <1>7, <1>12, <3>1, <4>1
    <3>2. CASE ~(k <= Len(q))
      <4>1. k - Len(q) \in 1 .. Len(e)
        BY <3>0, <3>2
      <4>2. queue'[i][k] = OpAt(2 * p + (k - Len(q)) - 1)
        BY <1>6, <1>12, <3>2, <4>1
      <4>3. 2 * p + (k - Len(q)) - 1 = x + k - 1
        <5>1. x = 2 * p - Len(q)
          BY <1>7
        <5>. QED BY <1>1, <3>0, <5>1
      <4>. QED BY <4>2, <4>3
    <3>. QED BY <3>1, <3>2
  <2>3. \A y \in x \div 2 .. (p + 1) - 1 :
          y = (Fill(a, StageAt(y))' - 1 - u * LAPS) * PIPELINE_DEPTH + StageAt(y)
    <3>. SUFFICES ASSUME NEW y \in m .. p
                  PROVE  y = (Fill(a, StageAt(y))' - 1 - u * LAPS) * PIPELINE_DEPTH + StageAt(y)
      <4>1. (p + 1) - 1 = p
        BY <1>1
      <4>. QED BY <1>14, <4>1
    <3>0. y \in Nat /\ StageAt(y) \in Stage /\ StageAt(y)' = StageAt(y)
      <4>1. y \in Nat
        BY <1>14
      <4>. QED BY <4>1, NextStage, Fixed DEF PipelineTypes
    <3>1. CASE y = p
      <4>1. Fill(a, StageAt(y))' = Laps(a) + 1
        BY <1>1, <1>2, <1>3, <3>0, <3>1
      <4>2. ((Laps(a) + 1) - 1) - u * LAPS = Laps(a) - u * LAPS
        <5>1. u * LAPS \in Nat
          BY <1>1
        <5>. QED BY <1>1, <5>1
      <4>3. y = (Laps(a) - u * LAPS) * PIPELINE_DEPTH + StageAt(y)
        BY <1>1, <1>16, <3>1
      <4>. QED BY Zenon, <4>1, <4>2, <4>3
    <3>2. CASE y # p
      <4>1. y \in m .. p - 1
        BY <1>1, <1>14, <3>2
      <4>2. StageAt(y) # s
        BY <1>2, <1>17, <4>1
      <4>3. Fill(a, StageAt(y))' = Fill(a, StageAt(y))
        BY <1>3, <3>0, <4>2
      <4>4. y = (Fill(a, StageAt(y)) - 1 - u * LAPS) * PIPELINE_DEPTH + StageAt(y)
        BY <1>9, <4>1 DEF QueueInv, m, a
      <4>. QED BY <4>3, <4>4
    <3>. QED BY <3>1, <3>2
  <2>. QED BY <1>7, <1>10, <1>11, <1>13, <2>1, <2>2, <2>3, QueueIs DEF a
<1>21. queue'[i] # <<>>
  <2>1. Len(queue'[i]) # 0
    <3>1. Len(q) \in Nat /\ Len(e) \in {2, 3}
      BY <1>6, <1>7
    <3>2. \A k \in Nat : k + 2 # 0 /\ k + 3 # 0
      OBVIOUS
    <3>. QED BY <1>12, <3>1, <3>2
  <2>. QED BY <2>1, EmptySeq
<1>. QED BY <1>3, <1>8, <1>9, <1>10, <1>13, <1>18, <1>19, <1>20, <1>21 DEF a, x, s, u

LEMMA QueueStep ==
  ASSUME PipelineTypes, WholeLaps, PosInv, LapsInv, RingInv, QueueInv, TmemInv, Step, UNCHANGED shape
  PROVE  QueueInv'
<1>. SUFFICES ASSUME NEW i \in Acc PROVE QueueOf(i)'
  BY DEF QueueInv, QueueOf
<1>1. QueueOf(i) /\ mma(i) \in Agent /\ mma(i) \in Ring
  BY AgentNames, RingMember DEF QueueInv, QueueOf
<1>2. queue'[i] = queue[i] /\ agent'[mma(i)] = agent[mma(i)] => QueueOf(i)'
  BY <1>1, QueueOthers
<1>3. ASSUME NEW a \in Agent, Receive(a) PROVE QueueOf(i)'
  <2>1. UNCHANGED queue
    BY <1>3, ReceiveStep
  <2>2. CASE a = mma(i)
    <3>1. Becomes(a, NextPlace(a), Pos(a), Laps(a), Uses(a), Got(a) + 1) /\ a[1] = "mma" /\ At(a) = "idle"
      BY <1>1, <1>3, <2>2, ReceivesAt, ReceiveAgent, Kinds
    <3>2. NextPlace(a) # "run"
      BY <3>1 DEF NextPlace, Starts, RolePlace, FetchPlace
    <3>. QED BY <1>1, <2>1, <2>2, <3>1, <3>2, QueueSame DEF Becomes
  <2>3. CASE a # mma(i)
    BY <1>1, <1>2, <1>3, <2>1, <2>3, ReceiveAgent DEF Becomes
  <2>. QED BY <2>2, <2>3
<1>4. ASSUME Publish PROVE QueueOf(i)'
  <2>1. agent'[mma(i)] = agent[mma(i)]
    BY <1>1, <1>4, PublishStep, Apart DEF Moves, Becomes
  <2>. QED BY <1>2, <1>4, <2>1, PublishStep
<1>5. ASSUME NEW c \in CTA, TmaStage(c) PROVE QueueOf(i)'
  <2>1. agent'[mma(i)] = agent[mma(i)]
    BY <1>1, <1>5, TmaStageStep, Apart DEF Moves, Turns, Becomes
  <2>. QED BY <1>2, <1>5, <2>1, TmaStageStep
<1>6. ASSUME TmaExpect PROVE QueueOf(i)'
  <2>1. agent'[mma(i)] = agent[mma(i)]
    BY <1>1, <1>6, TmaExpectStep, Apart DEF Turns, Becomes
  <2>. QED BY <1>2, <1>6, <2>1, TmaExpectStep
<1>7. ASSUME NEW t \in loading, Transfer(t) PROVE QueueOf(i)'
  BY <1>2, <1>7, TransferStep
<1>8. ASSUME NEW j \in Acc, MmaAcquire(j) PROVE QueueOf(i)'
  <2>1. CASE i = j
    BY <1>8, <2>1, QueueAcquire
  <2>2. CASE i # j
    BY <1>1, <1>2, <1>8, <2>2, AcquireStep, Apart DEF Moves, Becomes
  <2>. QED BY <2>1, <2>2
<1>9. ASSUME NEW j \in Acc, MmaStage(j) PROVE QueueOf(i)'
  <2>1. CASE i = j
    BY <1>9, <2>1, QueueTurn
  <2>2. CASE i # j
    <3>1. agent'[mma(i)] = agent[mma(i)]
      BY <1>1, <1>9, <2>2, MmaTurns, Apart DEF Turns, Becomes
    <3>2. queue'[i] = queue[i]
      BY <1>9, <2>2, QueueTurn
    <3>. QED BY <1>2, <3>1, <3>2
  <2>. QED BY <2>1, <2>2
<1>10. ASSUME NEW j \in Acc, UNCHANGED agent, queue[j] # <<>>, queue' = [queue EXCEPT ![j] = Tail(@)]
       PROVE  QueueOf(i)'
  <2>1. CASE i = j
    BY <1>10, <2>1, QueuePops
  <2>2. CASE i # j
    <3>1. queue'[i] = queue[i]
      BY <1>10, <2>2 DEF PipelineTypes
    <3>. QED BY <1>2, <1>10, <3>1
  <2>. QED BY <2>1, <2>2
<1>11. ASSUME NEW j \in Acc, TensorMma(j) \/ TensorCommit(j) PROVE QueueOf(i)'
  BY <1>10, <1>11, TensorMmaStep, CommitStep
<1>12. ASSUME NEW c \in CTA, NEW j \in Acc, ConsumerWait(c, j) \/ ConsumerDone(c, j) PROVE QueueOf(i)'
  <2>1. agent'[mma(i)] = agent[mma(i)]
    <3>1. mma(i) # con(c, j)
      BY Apart
    <3>2. CASE ConsumerWait(c, j)
      BY <1>1, <3>1, <3>2, ReadAgent DEF Becomes
    <3>3. CASE ConsumerDone(c, j)
      BY <1>1, <3>1, <3>3, DoneStep DEF Moves, Becomes
    <3>. QED BY <1>12, <3>2, <3>3
  <2>2. UNCHANGED queue
    BY <1>12, DoneStep DEF ConsumerWait
  <2>. QED BY <1>2, <2>1, <2>2
<1>. QED BY StepCases, <1>3, <1>4, <1>5, <1>6, <1>7, <1>8, <1>9, <1>11, <1>12

----------------------------------------------------------------------------
(* The ring.                                                                 *)
StageBarsKept(s) == bar'[FULL(s)] = bar[FULL(s)] /\ \A c \in CTA : bar'[EMPTY(c, s)] = bar[EMPTY(c, s)]

LEMMA StageBars ==
  ASSUME NEW S, OnlyBars(S), NEW s \in Stage, FULL(s) \notin S, \A c \in CTA : EMPTY(c, s) \notin S
  PROVE  StageBarsKept(s)
BY BarNames DEF OnlyBars, StageBarsKept

LEMMA RingBars ==
  ASSUME NEW S, OnlyBars(S), \A b \in S : b[1] \notin {"full", "empty"}
  PROVE  \A s \in Stage : StageBarsKept(s)
<1>. SUFFICES ASSUME NEW s \in Stage PROVE StageBarsKept(s)
  OBVIOUS
<1>1. FULL(s) \notin S /\ \A c \in CTA : EMPTY(c, s) \notin S
  BY BarKinds
<1>. QED BY <1>1, StageBars

(* A stage where nothing completes.                                          *)
LEMMA StageHolds ==
  ASSUME PipelineTypes, RingInv, NEW s \in Stage, StageBarsKept(s), Announced(s)' = Announced(s),
         \A c \in CTA : /\ Landings(c, s)' = Landings(c, s)
                        /\ Sent(c, s)' \in {Turn(s), Turn(s) + 1} /\ Sent(c, s)' <= Free(s) + 1,
         \A i \in Acc : Freeings(i, s)' = Freeings(i, s) /\ Fill(mma(i), s)' \in {Turn(s) - 1, Turn(s)}
  PROVE  FullInv(s)' /\ EmptyInv(s)'
<1>1. FullInv(s) /\ EmptyInv(s) /\ CTA = {0, 1} /\ Acc = {0, 1}
  BY AgentNames DEF RingInv
<1>2. Turn(s)' = Turn(s) /\ Free(s)' = Free(s)
  BY <1>1 DEF StageBarsKept, Turn, Free
<1>3. bar'[FULL(s)] = bar[FULL(s)] /\ \A c \in CTA : bar'[EMPTY(c, s)] = bar[EMPTY(c, s)]
  BY DEF StageBarsKept
<1>4. FullInv(s)'
  <2>1. /\ bar'[FULL(s)] = Bar(Turn(s)', 1 - (Announced(s)' - Turn(s)'),
                               2 * Announced(s)' - Landings(0, s)' - Landings(1, s)', 1)
        /\ Turn(s)' \in Nat /\ Announced(s)' \in {Turn(s)', Turn(s)' + 1}
        /\ ~(Announced(s)' = Turn(s)' + 1 /\ Landings(0, s)' = Turn(s)' + 1 /\ Landings(1, s)' = Turn(s)' + 1)
    BY <1>1, <1>2, <1>3 DEF FullInv
  <2>2. \A c \in CTA : /\ Landings(c, s)' \in {Turn(s)', Turn(s)' + 1} /\ Sent(c, s)' \in {Turn(s)', Turn(s)' + 1}
                       /\ Sent(c, s)' <= Free(s)' + 1
    BY <1>1, <1>2 DEF FullInv
  <2>3. \A i \in Acc : Fill(mma(i), s)' \in {Turn(s)' - 1, Turn(s)'}
    BY <1>2
  <2>. QED BY <2>1, <2>2, <2>3 DEF FullInv
<1>5. EmptyInv(s)'
  <2>1. Freeings(0, s)' = Freeings(0, s) /\ Freeings(1, s)' = Freeings(1, s)
    BY <1>1
  <2>2. /\ Free(s)' \in Nat /\ \A i \in Acc : Freeings(i, s)' \in {Free(s)', Free(s)' + 1}
        /\ Freeings(0, s)' = Free(s)' \/ Freeings(1, s)' = Free(s)'
    BY <1>1, <1>2, <2>1 DEF EmptyInv
  <2>3. \A c \in CTA : bar'[EMPTY(c, s)] = Bar(Free(s)', IF Freeings(0, s)' = Freeings(1, s)' THEN 2 ELSE 1, 0, 2)
    BY <1>1, <1>2, <1>3, <2>1 DEF EmptyInv
  <2>. QED BY <2>2, <2>3 DEF EmptyInv
<1>. QED BY <1>4, <1>5

LEMMA SentSame ==
  ASSUME UNCHANGED <<shape, loading>>, NEW c \in CTA, Laps(tma(c))' = Laps(tma(c)), Pos(tma(c))' = Pos(tma(c)),
         At(tma(c))' = "expect" <=> At(tma(c)) = "expect"
  PROVE  \A s \in Stage : /\ Fill(tma(c), s)' = Fill(tma(c), s) /\ Sent(c, s)' = Sent(c, s)
                          /\ Landings(c, s)' = Landings(c, s)
<1>1. St(tma(c))' = St(tma(c))
  BY Fixed DEF St, StageAt
<1>2. \A s \in Stage : Fill(tma(c), s)' = Fill(tma(c), s)
  BY <1>1, FillKept
<1>3. \A s \in Stage : Sent(c, s)' = Sent(c, s)
  BY <1>1, <1>2 DEF Sent
<1>4. \A s : Flying(c, s)' <=> Flying(c, s)
  BY DEF Flying
<1>5. \A s \in Stage : Landings(c, s)' = Landings(c, s)
  BY <1>3, <1>4 DEF Landings
<1>. QED BY <1>2, <1>3, <1>5

LEMMA SentStays ==
  ASSUME UNCHANGED <<shape, loading>>, NEW c \in CTA, agent'[tma(c)] = agent[tma(c)]
  PROVE  \A s \in Stage : /\ Fill(tma(c), s)' = Fill(tma(c), s) /\ Sent(c, s)' = Sent(c, s)
                          /\ Landings(c, s)' = Landings(c, s)
BY Same, SentSame

LEMMA RingHolds ==
  ASSUME PipelineTypes, RingInv, UNCHANGED <<shape, loading>>, NEW S, OnlyBars(S),
         \A b \in S : b[1] \notin {"full", "empty"},
         \A s \in Stage : /\ \A c \in CTA : /\ Fill(tma(c), s)' = Fill(tma(c), s) /\ Sent(c, s)' = Sent(c, s)
                                            /\ Landings(c, s)' = Landings(c, s)
                          /\ \A i \in Acc : /\ Freeings(i, s)' = Freeings(i, s)
                                            /\ Fill(mma(i), s)' \in {Turn(s) - 1, Turn(s)}
  PROVE  RingInv'
<1>1. \A s \in Stage : StageBarsKept(s)
  BY RingBars
<1>2. \A s \in Stage : Announced(s)' = Announced(s)
  BY AgentNames DEF Announced
<1>3. \A s \in Stage : \A c \in CTA : Sent(c, s) \in {Turn(s), Turn(s) + 1} /\ Sent(c, s) <= Free(s) + 1
  BY DEF RingInv, FullInv
<1>4. \A s \in Stage : FullInv(s)' /\ EmptyInv(s)'
  BY <1>1, <1>2, <1>3, StageHolds
<1>5. CopiesInv'
  BY DEF RingInv, CopiesInv
<1>. QED BY <1>4, <1>5, Fixed DEF RingInv

(* Steps that do not touch the ring.                                         *)
LEMMA RingQuiet ==
  ASSUME PipelineTypes, RingInv, UNCHANGED <<shape, loading>>, NEW S, OnlyBars(S),
         \A b \in S : b[1] \notin {"full", "empty"},
         \A c \in CTA : /\ Laps(tma(c))' = Laps(tma(c)) /\ Pos(tma(c))' = Pos(tma(c))
                        /\ At(tma(c))' = "expect" <=> At(tma(c)) = "expect",
         \A i \in Acc : \A s \in Stage : Fill(mma(i), s)' = Fill(mma(i), s) /\ Freeings(i, s)' = Freeings(i, s)
  PROVE  RingInv'
<1>1. \A s \in Stage : \A i \in Acc : Fill(mma(i), s) \in {Turn(s) - 1, Turn(s)}
  BY DEF RingInv, FullInv
<1>2. \A c \in CTA : \A s \in Stage : /\ Fill(tma(c), s)' = Fill(tma(c), s) /\ Sent(c, s)' = Sent(c, s)
                                      /\ Landings(c, s)' = Landings(c, s)
  BY SentSame
<1>. QED BY <1>1, <1>2, RingHolds

(* A copy is issued: the stage was free, and none was in flight to it.       *)
LEMMA RingCopy ==
  ASSUME PipelineTypes, WholeLaps, PosInv, RingInv, UNCHANGED shape, NEW c \in CTA, TmaStage(c)
  PROVE  /\ RingInv' /\ ~Flying(c, St(tma(c)))
         /\ \A s \in Stage : Sent(c, s)' = IF s = St(tma(c)) THEN Laps(tma(c)) + 1 ELSE Sent(c, s)
         /\ loading' = loading \cup {<<c, St(tma(c)), <<Got(tma(c)), Pos(tma(c))>>>>}
         /\ \A d \in CTA : \A s \in Stage : Landings(d, s)' = Landings(d, s)
         /\ \A d \in CTA : \A s \in Stage : d # c \/ s # St(tma(c)) => Sent(d, s)' = Sent(d, s)
<1>. DEFINE a == tma(c)
            z == St(a)
            n == Laps(a)
            y == <<c, z, <<Got(a), Pos(a)>>>>
<1>1. /\ At(a) = "run" /\ Passed(bar[EMPTY(c, z)], n - 1) /\ a \in Agent /\ a \in Ring /\ Loads(c)
      /\ UNCHANGED queue
  <2>1. At(a) = "run" /\ Passed(bar[EMPTY(c, z)], n - 1) /\ a \in Agent /\ a \in Ring /\ UNCHANGED queue
    BY TmaStageStep, AgentNames, RingMember
  <2>2. Loads(c)
    BY <2>1 DEF PosInv, Looping, Loads
  <2>. QED BY <2>1, <2>2
<1>2. /\ z \in Stage /\ Fill(a, z) = n /\ Sent(c, z) = n /\ Free(z) = n /\ Turn(z) = n
      /\ Landings(c, z) = n /\ ~Flying(c, z) /\ n \in Nat
  BY <1>1, TmaPasses, AgentTyped
<1>3. loading' = loading \cup {y} /\ bar' = bar /\ OnlyBars({FULL(z)})
      /\ IF c = 0 THEN Moves(a, "expect") ELSE Turns(a)
  BY <1>1, TmaStageStep
<1>4. \A x \in Agent \ {a} : agent'[x] = agent[x]
  BY <1>3 DEF Moves, Turns, Becomes
<1>. HIDE DEF y
<1>5. y[1] = c /\ y[2] = z
  BY DEF y
<1>6. \A d, s : Flying(d, s)' <=> Flying(d, s) \/ (d = c /\ s = z)
  <2>. HIDE DEF z, a
  <2>1. z' = z' /\ \A d, s : Flying(d, s)' <=> \E x \in loading' : x[1] = d /\ x[2] = s
    BY DEF Flying
  <2>. QED BY <1>3, <1>5, <2>1 DEF Flying
<1>7. \A s \in Stage : /\ Sent(c, s)' = IF s = z THEN n + 1 ELSE Sent(c, s)
                       /\ c = 0 => Fill(a, s)' = Fill(a, s)
  <2>1. CASE c = 0
    <3>1. /\ At(a)' = "expect" /\ St(a)' = z /\ Laps(a)' = Laps(a)
      BY <1>3, <2>1, Fixed DEF Moves, Becomes, St, StageAt
    <3>2. \A s \in Stage : Fill(a, s)' = Fill(a, s)
      BY <3>1, FillKept
    <3>3. \A s \in Stage : Sent(c, s)' = Fill(a, s) + (IF z = s THEN 1 ELSE 0)
      BY <3>1, <3>2 DEF Sent
    <3>4. \A s \in Stage : Sent(c, s) = Fill(a, s) + 0
      BY <1>1 DEF Sent
    <3>5. \A s \in Stage : Fill(a, s) \in Nat
      BY <1>1, FillNat
    <3>. QED BY <1>2, <3>2, <3>3, <3>4, <3>5
  <2>2. CASE c # 0
    <3>1. Turns(a) /\ At(a)' # "expect"
      BY <1>3, <2>2 DEF Turns, Becomes, FetchPlace
    <3>2. \A s \in Stage : Fill(a, s)' = IF s = z THEN Fill(a, s) + 1 ELSE Fill(a, s)
      BY <1>1, <3>1, FillTurns
    <3>3. \A s \in Stage : Sent(c, s)' = Fill(a, s)' + 0
      BY <3>1 DEF Sent
    <3>4. \A s \in Stage : Sent(c, s) = Fill(a, s) + 0
      BY <1>1 DEF Sent
    <3>5. \A s \in Stage : Fill(a, s) \in Nat
      BY <1>1, FillNat
    <3>. QED BY <1>2, <2>2, <3>2, <3>3, <3>4, <3>5
  <2>. QED BY <2>1, <2>2
<1>8. \A d \in CTA \ {c} : \A s \in Stage : Sent(d, s)' = Sent(d, s) /\ Fill(tma(d), s)' = Fill(tma(d), s)
  <2>. SUFFICES ASSUME NEW d \in CTA \ {c}
                PROVE  \A s \in Stage : Sent(d, s)' = Sent(d, s) /\ Fill(tma(d), s)' = Fill(tma(d), s)
    OBVIOUS
  <2>1. agent'[tma(d)] = agent[tma(d)]
    BY <1>4, AgentNames, Apart
  <2>2. /\ At(tma(d))' = At(tma(d)) /\ St(tma(d))' = St(tma(d)) /\ Laps(tma(d))' = Laps(tma(d))
    BY <2>1, Same
  <2>3. \A s \in Stage : Fill(tma(d), s)' = Fill(tma(d), s)
    BY <2>2, FillKept
  <2>. QED BY <2>2, <2>3 DEF Sent
<1>9. \A s \in Stage : Announced(s)' = Announced(s)
  <2>1. CASE c = 0
    BY <1>7, <2>1 DEF Announced
  <2>2. CASE c # 0
    BY <1>8, <2>2, AgentNames DEF Announced
  <2>. QED BY <2>1, <2>2
<1>10. \A d \in CTA : \A s \in Stage : Landings(d, s)' = Landings(d, s)
  <2>. SUFFICES ASSUME NEW d \in CTA, NEW s \in Stage PROVE Landings(d, s)' = Landings(d, s)
    OBVIOUS
  <2>1. Landings(d, s)' = Sent(d, s)' - (IF Flying(d, s)' THEN 1 ELSE 0)
    BY DEF Landings
  <2>2. Landings(d, s) = Sent(d, s) - (IF Flying(d, s) THEN 1 ELSE 0)
    BY DEF Landings
  <2>3. CASE d = c /\ s = z
    <3>1. Landings(d, s)' = (n + 1) - 1
      BY <1>6, <1>7, <2>1, <2>3
    <3>. QED BY <1>2, <2>3, <3>1
  <2>4. CASE d = c /\ s # z
    BY <1>6, <1>7, <2>1, <2>2, <2>4
  <2>5. CASE d # c
    BY <1>6, <1>8, <2>1, <2>2, <2>5
  <2>. QED BY <2>3, <2>4, <2>5
<1>11. \A i \in Acc : \A s \in Stage : Freeings(i, s)' = Freeings(i, s) /\ Fill(mma(i), s)' = Fill(mma(i), s)
  <2>. SUFFICES ASSUME NEW i \in Acc
                PROVE  \A s \in Stage : Freeings(i, s)' = Freeings(i, s) /\ Fill(mma(i), s)' = Fill(mma(i), s)
    OBVIOUS
  <2>1. agent'[mma(i)] = agent[mma(i)]
    BY <1>4, AgentNames, Apart
  <2>. QED BY <1>1, <2>1, QueueOthers
<1>12. \A s \in Stage : FullInv(s)' /\ EmptyInv(s)'
  <2>. SUFFICES ASSUME NEW s \in Stage PROVE FullInv(s)' /\ EmptyInv(s)'
    OBVIOUS
  <2>1. StageBarsKept(s)
    BY <1>3 DEF StageBarsKept
  <2>2. /\ Turn(s) \in Nat /\ Free(s) \in Nat
        /\ \A d \in CTA : Sent(d, s) \in {Turn(s), Turn(s) + 1} /\ Sent(d, s) <= Free(s) + 1
        /\ \A i \in Acc : Fill(mma(i), s) \in {Turn(s) - 1, Turn(s)}
    BY DEF RingInv, FullInv, EmptyInv
  <2>3. \A d \in CTA : Sent(d, s)' \in {Turn(s), Turn(s) + 1} /\ Sent(d, s)' <= Free(s) + 1
    <3>. SUFFICES ASSUME NEW d \in CTA PROVE Sent(d, s)' \in {Turn(s), Turn(s) + 1} /\ Sent(d, s)' <= Free(s) + 1
      OBVIOUS
    <3>1. CASE d = c /\ s = z
      BY <1>2, <1>7, <3>1
    <3>2. CASE d # c \/ s # z
      <4>1. Sent(d, s)' = Sent(d, s)
        BY <1>7, <1>8, <3>2
      <4>. QED BY <2>2, <4>1
    <3>. QED BY <3>1, <3>2
  <2>. QED BY <1>9, <1>10, <1>11, <2>1, <2>2, <2>3, StageHolds
<1>13. CopiesInv'
  <2>1. \A x \in loading : ~(x[1] = c /\ x[2] = z)
    BY <1>2 DEF Flying
  <2>. HIDE DEF z, a
  <2>2. CopiesInv
    BY DEF RingInv
  <2>. QED BY <1>3, <1>5, <2>1, <2>2 DEF CopiesInv
<1>14. RingInv'
  BY <1>12, <1>13, Fixed DEF RingInv
<1>15. \A d \in CTA : \A s \in Stage : d # c \/ s # z => Sent(d, s)' = Sent(d, s)
  BY <1>7, <1>8
<1>. QED BY <1>2, <1>3, <1>7, <1>10, <1>14, <1>15 DEF y

LEMMA EmptyHolds ==
  ASSUME NEW s \in Stage, EmptyInv(s), \A c \in CTA : bar'[EMPTY(c, s)] = bar[EMPTY(c, s)],
         \A i \in Acc : Freeings(i, s)' = Freeings(i, s)
  PROVE  EmptyInv(s)' /\ Free(s)' = Free(s)
<1>1. CTA = {0, 1} /\ Acc = {0, 1}
  BY AgentNames
<1>2. Free(s)' = Free(s)
  BY <1>1 DEF Free
<1>3. Freeings(0, s)' = Freeings(0, s) /\ Freeings(1, s)' = Freeings(1, s)
  BY <1>1
<1>4. /\ Free(s)' \in Nat /\ \A i \in Acc : Freeings(i, s)' \in {Free(s)', Free(s)' + 1}
      /\ Freeings(0, s)' = Free(s)' \/ Freeings(1, s)' = Free(s)'
  BY <1>2, <1>3 DEF EmptyInv
<1>5. \A c \in CTA : bar'[EMPTY(c, s)] = Bar(Free(s)', IF Freeings(0, s)' = Freeings(1, s)' THEN 2 ELSE 1, 0, 2)
  BY <1>2, <1>3 DEF EmptyInv
<1>. QED BY <1>2, <1>4, <1>5 DEF EmptyInv

(* What FullInv says, number by number.                                      *)
LEMMA FullNumbers ==
  ASSUME PipelineTypes, RingInv, NEW s \in Stage
  PROVE  /\ Turn(s) \in Nat /\ Free(s) \in Nat /\ Announced(s) \in {Turn(s), Turn(s) + 1}
         /\ bar[FULL(s)] = Bar(Turn(s), 1 - (Announced(s) - Turn(s)),
                               2 * Announced(s) - Landings(0, s) - Landings(1, s), 1)
         /\ ~(Announced(s) = Turn(s) + 1 /\ Landings(0, s) = Turn(s) + 1 /\ Landings(1, s) = Turn(s) + 1)
         /\ \A c \in CTA : /\ Landings(c, s) \in {Turn(s), Turn(s) + 1} /\ Sent(c, s) \in {Turn(s), Turn(s) + 1}
                           /\ Sent(c, s) <= Free(s) + 1 /\ Landings(c, s) <= Sent(c, s)
                           /\ (Flying(c, s) => Landings(c, s) = Turn(s) /\ Sent(c, s) = Turn(s) + 1)
         /\ \A i \in Acc : /\ Fill(mma(i), s) \in {Turn(s) - 1, Turn(s)}
                           /\ (Turn(s) <= Free(s) => Fill(mma(i), s) = Turn(s))
                           /\ Freeings(i, s) <= Fill(mma(i), s)
<1>1. /\ Turn(s) \in Nat /\ Free(s) \in Nat /\ Announced(s) \in {Turn(s), Turn(s) + 1}
      /\ bar[FULL(s)] = Bar(Turn(s), 1 - (Announced(s) - Turn(s)),
                            2 * Announced(s) - Landings(0, s) - Landings(1, s), 1)
      /\ ~(Announced(s) = Turn(s) + 1 /\ Landings(0, s) = Turn(s) + 1 /\ Landings(1, s) = Turn(s) + 1)
  BY DEF RingInv, FullInv, EmptyInv
<1>2. ASSUME NEW c \in CTA
      PROVE  /\ Landings(c, s) \in {Turn(s), Turn(s) + 1} /\ Sent(c, s) \in {Turn(s), Turn(s) + 1}
             /\ Sent(c, s) <= Free(s) + 1 /\ Landings(c, s) <= Sent(c, s)
             /\ (Flying(c, s) => Landings(c, s) = Turn(s) /\ Sent(c, s) = Turn(s) + 1)
  <2>1. /\ Landings(c, s) \in {Turn(s), Turn(s) + 1} /\ Sent(c, s) \in {Turn(s), Turn(s) + 1}
        /\ Sent(c, s) <= Free(s) + 1
    BY DEF RingInv, FullInv
  <2>2. Landings(c, s) = Sent(c, s) - (IF Flying(c, s) THEN 1 ELSE 0)
    BY DEF Landings
  <2>. QED BY <1>1, <2>1, <2>2
<1>3. ASSUME NEW i \in Acc
      PROVE  /\ Fill(mma(i), s) \in {Turn(s) - 1, Turn(s)}
             /\ (Turn(s) <= Free(s) => Fill(mma(i), s) = Turn(s))
             /\ Freeings(i, s) <= Fill(mma(i), s)
  <2>1. Fill(mma(i), s) \in {Turn(s) - 1, Turn(s)} /\ Freeings(i, s) \in {Free(s), Free(s) + 1}
    BY DEF RingInv, FullInv, EmptyInv
  <2>2. Freeings(i, s) = Fill(mma(i), s) - (IF Unfreed(i, s) THEN 1 ELSE 0)
    BY DEF Freeings
  <2>. QED BY <1>1, <2>1, <2>2
<1>. QED BY <1>1, <1>2, <1>3

(* The phase of a full stage completes, on an announcement or on a landing.  *)
LEMMA FullCompletes ==
  ASSUME PipelineTypes, RingInv, NEW s \in Stage, bar'[FULL(s)] = Bar(Turn(s) + 1, 1, 0, 1),
         Announced(s)' = Turn(s) + 1, Free(s)' = Free(s),
         \A c \in CTA : Landings(c, s)' = Turn(s) + 1 /\ Sent(c, s)' = Turn(s) + 1 /\ Sent(c, s) = Turn(s) + 1,
         \A i \in Acc : Fill(mma(i), s)' = Fill(mma(i), s)
  PROVE  FullInv(s)'
<1>1. Turn(s) \in Nat /\ Free(s) \in Nat /\ CTA = {0, 1}
  BY FullNumbers, AgentNames
<1>2. Turn(s)' = Turn(s) + 1
  BY TurnOf DEF Turn
<1>3. Turn(s) <= Free(s)
  <2>1. Sent(0, s) = Turn(s) + 1 /\ Sent(0, s) <= Free(s) + 1
    BY <1>1, FullNumbers
  <2>. QED BY <1>1, <2>1
<1>4. \A i \in Acc : Fill(mma(i), s)' \in {Turn(s)' - 1, Turn(s)'}
  <2>1. \A i \in Acc : Fill(mma(i), s)' = Turn(s)
    BY <1>3, FullNumbers
  <2>2. (Turn(s) + 1) - 1 = Turn(s)
    BY <1>1
  <2>. QED BY <1>2, <2>1, <2>2
<1>5. \A c \in CTA : /\ Landings(c, s)' \in {Turn(s)', Turn(s)' + 1} /\ Sent(c, s)' \in {Turn(s)', Turn(s)' + 1}
                     /\ Sent(c, s)' <= Free(s)' + 1
  BY <1>1, <1>2, <1>3
<1>6. /\ bar'[FULL(s)] = Bar(Turn(s)', 1 - (Announced(s)' - Turn(s)'),
                             2 * Announced(s)' - Landings(0, s)' - Landings(1, s)', 1)
      /\ Turn(s)' \in Nat /\ Announced(s)' \in {Turn(s)', Turn(s)' + 1}
      /\ ~(Announced(s)' = Turn(s)' + 1 /\ Landings(0, s)' = Turn(s)' + 1 /\ Landings(1, s)' = Turn(s)' + 1)
  <2>1. Landings(0, s)' = Turn(s) + 1 /\ Landings(1, s)' = Turn(s) + 1
    BY <1>1
  <2>2. 1 - ((Turn(s) + 1) - (Turn(s) + 1)) = 1 /\ 2 * (Turn(s) + 1) - (Turn(s) + 1) - (Turn(s) + 1) = 0
    BY <1>1
  <2>3. Turn(s) + 1 \in Nat /\ Turn(s) + 1 # (Turn(s) + 1) + 1
    BY <1>1
  <2>. QED BY <1>2, <2>1, <2>2, <2>3
<1>. QED BY <1>4, <1>5, <1>6 DEF FullInv

(* It counts something else.                                                 *)
LEMMA FullCounts ==
  ASSUME PipelineTypes, RingInv, NEW s \in Stage, NEW p, NEW x, bar'[FULL(s)] = Bar(Turn(s), p, x, 1),
         Free(s)' = Free(s), Announced(s)' \in {Turn(s), Turn(s) + 1},
         p = 1 - (Announced(s)' - Turn(s)), x = 2 * Announced(s)' - Landings(0, s)' - Landings(1, s)',
         \A c \in CTA : Landings(c, s)' \in {Turn(s), Turn(s) + 1} /\ Sent(c, s)' = Sent(c, s),
         ~(Announced(s)' = Turn(s) + 1 /\ Landings(0, s)' = Turn(s) + 1 /\ Landings(1, s)' = Turn(s) + 1),
         \A i \in Acc : Fill(mma(i), s)' = Fill(mma(i), s)
  PROVE  FullInv(s)'
<1>1. Turn(s)' = Turn(s) /\ Turn(s) \in Nat
  BY TurnOf, FullNumbers DEF Turn
<1>2. \A i \in Acc : Fill(mma(i), s)' \in {Turn(s)' - 1, Turn(s)'}
  BY <1>1, FullNumbers
<1>3. \A c \in CTA : /\ Landings(c, s)' \in {Turn(s)', Turn(s)' + 1} /\ Sent(c, s)' \in {Turn(s)', Turn(s)' + 1}
                     /\ Sent(c, s)' <= Free(s)' + 1
  BY <1>1, FullNumbers
<1>. QED BY <1>1, <1>2, <1>3 DEF FullInv

LEMMA BarLands ==
  /\ \A t, p, x \in Int : p = 0 /\ x = 1 => Landed(Bar(t, p, x, 1)) = Bar(t + 1, 1, 0, 1)
  /\ \A t, p, x \in Int : ~(p = 0 /\ x = 1) => Landed(Bar(t, p, x, 1)) = Bar(t, p, x - 1, 1)
  /\ \A t, x \in Int : x = -2 => ArriveExpect(Bar(t, 1, x, 1), 2) = Bar(t + 1, 1, 0, 1)
  /\ \A t, x \in Int : x # -2 => ArriveExpect(Bar(t, 1, x, 1), 2) = Bar(t, 0, x + 2, 1)
<1>. 1 \in Int /\ 1 - 1 = 0
  OBVIOUS
<1>1. ASSUME NEW t \in Int, NEW p \in Int, NEW x \in Int
      PROVE  Landed(Bar(t, p, x, 1)) = IF p = 0 /\ x = 1 THEN Bar(t + 1, 1, 0, 1) ELSE Bar(t, p, x - 1, 1)
  BY <1>1, BarSteps
<1>2. ASSUME NEW t \in Int, NEW x \in Int
      PROVE  ArriveExpect(Bar(t, 1, x, 1), 2) = IF x = -2 THEN Bar(t + 1, 1, 0, 1) ELSE Bar(t, 0, x + 2, 1)
  <2>1. ArriveExpect(Bar(t, 1, x, 1), 2) = IF 1 = 1 /\ x = -2 THEN Bar(t + 1, 1, 0, 1) ELSE Bar(t, 1 - 1, x + 2, 1)
    BY <1>2, BarSteps
  <2>. QED BY <2>1
<1>3. \A t, p, x \in Int : p = 0 /\ x = 1 => Landed(Bar(t, p, x, 1)) = Bar(t + 1, 1, 0, 1)
  BY <1>1
<1>4. \A t, p, x \in Int : ~(p = 0 /\ x = 1) => Landed(Bar(t, p, x, 1)) = Bar(t, p, x - 1, 1)
  BY <1>1
<1>5. \A t, x \in Int : x = -2 => ArriveExpect(Bar(t, 1, x, 1), 2) = Bar(t + 1, 1, 0, 1)
  BY <1>2
<1>6. \A t, x \in Int : x # -2 => ArriveExpect(Bar(t, 1, x, 1), 2) = Bar(t, 0, x + 2, 1)
  BY <1>2
<1>. QED BY <1>3, <1>4, <1>5, <1>6

(* CTA 0 announces a pair of copies.                                         *)
LEMMA RingExpect ==
  ASSUME PipelineTypes, WholeLaps, PosInv, RingInv, UNCHANGED shape, TmaExpect
  PROVE  /\ RingInv'
         /\ \A d \in CTA : \A s \in Stage : Sent(d, s)' = Sent(d, s) /\ Landings(d, s)' = Landings(d, s)
<1>. DEFINE a == tma(0)
            z == St(a)
            n == Laps(a)
<1>1. /\ At(a) = "expect" /\ Turns(a) /\ a \in Agent /\ a \in Ring /\ 0 \in CTA
      /\ bar'[FULL(z)] = ArriveExpect(bar[FULL(z)], 2) /\ OnlyBars({FULL(z)})
      /\ UNCHANGED <<packet, loading, smem, queue, acc>>
  BY TmaExpectStep, AgentNames, RingMember
<1>2. /\ \A s \in Stage : Fill(a, s)' = IF s = z THEN Fill(a, s) + 1 ELSE Fill(a, s)
      /\ Fill(a, z) = n
  BY <1>1, FillTurns
<1>3. z \in Stage /\ n \in Nat /\ \A s \in Stage : Fill(a, s) \in Nat
  BY <1>1, AgentTyped, FillNat
<1>4. At(a)' # "expect"
  BY <1>1 DEF Turns, Becomes, FetchPlace
<1>5. \A x \in Agent \ {a} : agent'[x] = agent[x]
  BY <1>1 DEF Turns, Becomes
<1>6. \A s \in Stage : Sent(0, s)' = Sent(0, s)
  <2>. SUFFICES ASSUME NEW s \in Stage PROVE Sent(0, s)' = Sent(0, s)
    OBVIOUS
  <2>1. Sent(0, s)' = Fill(a, s)' + 0
    BY <1>4 DEF Sent
  <2>2. Sent(0, s) = Fill(a, s) + (IF z = s THEN 1 ELSE 0)
    BY <1>1 DEF Sent
  <2>. QED BY <1>2, <1>3, <2>1, <2>2
<1>7. agent'[tma(1)] = agent[tma(1)] /\ 1 \in CTA
  BY <1>5, AgentNames, Apart
<1>8. \A s \in Stage : Sent(1, s)' = Sent(1, s) /\ Landings(1, s)' = Landings(1, s)
  BY <1>1, <1>7, SentStays
<1>9. \A d \in CTA : \A s \in Stage : Sent(d, s)' = Sent(d, s) /\ Landings(d, s)' = Landings(d, s)
  <2>1. \A d, s : Flying(d, s)' <=> Flying(d, s)
    BY <1>1 DEF Flying
  <2>2. \A s \in Stage : Landings(0, s)' = Landings(0, s)
    BY <1>6, <2>1 DEF Landings
  <2>. QED BY <1>6, <1>8, <2>2, AgentNames
<1>10. \A i \in Acc : \A s \in Stage : Freeings(i, s)' = Freeings(i, s) /\ Fill(mma(i), s)' = Fill(mma(i), s)
  <2>. SUFFICES ASSUME NEW i \in Acc
                PROVE  \A s \in Stage : Freeings(i, s)' = Freeings(i, s) /\ Fill(mma(i), s)' = Fill(mma(i), s)
    OBVIOUS
  <2>1. agent'[mma(i)] = agent[mma(i)]
    BY <1>5, AgentNames, Apart
  <2>. QED BY <1>1, <2>1, QueueOthers
<1>11. \A s \in Stage : Announced(s)' = IF s = z THEN Announced(s) + 1 ELSE Announced(s)
  BY <1>2 DEF Announced
<1>12. ASSUME NEW s \in Stage PROVE FullInv(s)' /\ EmptyInv(s)'
  <2>1. \A c \in CTA : bar'[EMPTY(c, s)] = bar[EMPTY(c, s)]
    BY <1>1, BarNames, BarApart DEF OnlyBars
  <2>2. EmptyInv(s)' /\ Free(s)' = Free(s)
    BY <1>10, <2>1, EmptyHolds DEF RingInv
  <2>3. CASE s # z
    <3>1. StageBarsKept(s)
      BY <1>1, <2>1, <2>3, BarNames, BarApart DEF OnlyBars, StageBarsKept
    <3>2. Announced(s)' = Announced(s)
      BY <1>11, <2>3
    <3>. QED BY <1>9, <1>10, <3>1, <3>2, FullNumbers, StageHolds
  <2>4. CASE s = z
    <3>. DEFINE t == Turn(s)
                j == Landings(0, s)
                k == Landings(1, s)
    <3>1. /\ t \in Nat /\ Announced(s) \in {t, t + 1} /\ j \in {t, t + 1} /\ k \in {t, t + 1}
          /\ Sent(0, s) \in {t, t + 1} /\ Sent(1, s) \in {t, t + 1} /\ k <= Sent(1, s)
          /\ bar[FULL(s)] = Bar(t, 1 - (Announced(s) - t), 2 * Announced(s) - j - k, 1)
      BY <1>1, <1>7, FullNumbers
    <3>2. Announced(s) = n /\ Sent(0, s) = n + 1
      BY <1>1, <1>2, <2>4 DEF Announced, Sent
    <3>3. n = t /\ Sent(0, s) = t + 1
      BY <1>3, <3>1, <3>2
    <3>4. bar[FULL(s)] = Bar(t, 1, 2 * t - j - k, 1) /\ Announced(s)' = t + 1
      <4>1. 1 - (t - t) = 1
        BY <3>1
      <4>. QED BY <1>11, <2>4, <3>1, <3>2, <3>3, <4>1
    <3>5. bar'[FULL(s)] = ArriveExpect(Bar(t, 1, 2 * t - j - k, 1), 2)
      BY <1>1, <2>4, <3>4
    <3>6. Landings(0, s)' = j /\ Landings(1, s)' = k /\ \A i \in Acc : Fill(mma(i), s)' = Fill(mma(i), s)
      BY <1>1, <1>7, <1>9, <1>10
    <3>7. 2 * t - j - k \in Int /\ t \in Int /\ j \in Int /\ k \in Int
      BY <3>1
    <3>8. PICK y \in Int : y = 2 * t - j - k
      BY <3>7
    <3>9. CASE j = t + 1 /\ k = t + 1
      <4>1. 2 * t - j - k = -2 /\ Sent(1, s) = t + 1
        <5>. HIDE DEF t, j, k
        <5>. QED BY <3>1, <3>9
      <4>2. \A c \in CTA : Landings(c, s)' = t + 1 /\ Sent(c, s)' = t + 1 /\ Sent(c, s) = t + 1
        BY <1>9, <3>3, <3>9, <4>1, AgentNames
      <4>3. bar'[FULL(s)] = Bar(t + 1, 1, 0, 1)
        <5>. HIDE DEF t, j, k
        <5>. QED BY <3>5, <3>7, <3>8, <4>1, BarLands
      <4>. QED BY <2>2, <3>4, <3>6, <4>2, <4>3, FullCompletes
    <3>10. CASE ~(j = t + 1 /\ k = t + 1)
      <4>1. 2 * t - j - k # -2 /\ 0 = 1 - ((t + 1) - t) /\ 2 * t - j - k + 2 = 2 * (t + 1) - j - k
        <5>. HIDE DEF t, j, k
        <5>. QED BY <3>1, <3>10
      <4>2. bar'[FULL(s)] = Bar(t, 0, 2 * t - j - k + 2, 1)
        <5>. HIDE DEF t, j, k
        <5>. QED BY <3>5, <3>7, <3>8, <4>1, BarLands
      <4>3. \A c \in CTA : Landings(c, s)' \in {t, t + 1} /\ Sent(c, s)' = Sent(c, s)
        BY <1>9, FullNumbers
      <4>. QED BY <2>2, <3>4, <3>6, <3>10, <4>1, <4>2, <4>3, FullCounts
    <3>. QED BY <2>2, <3>9, <3>10
  <2>. QED BY <2>3, <2>4
<1>13. CopiesInv'
  BY <1>1 DEF RingInv, CopiesInv
<1>14. RingInv'
  BY <1>12, <1>13, Fixed DEF RingInv
<1>. QED BY <1>9, <1>14

(* A copy lands.                                                             *)
LEMMA RingLand ==
  ASSUME PipelineTypes, RingInv, UNCHANGED shape, NEW t \in loading, Transfer(t)
  PROVE  /\ RingInv' /\ Landings(t[1], t[2]) = Sent(t[1], t[2]) - 1
         /\ \A d \in CTA : \A s \in Stage :
              /\ Sent(d, s)' = Sent(d, s)
              /\ Landings(d, s)' = IF d = t[1] /\ s = t[2] THEN Landings(d, s) + 1 ELSE Landings(d, s)
<1>. DEFINE c == t[1]
            z == t[2]
<1>1. /\ c \in CTA /\ z \in Stage /\ loading' = loading \ {t}
      /\ bar'[FULL(z)] = Landed(bar[FULL(z)]) /\ OnlyBars({FULL(z)}) /\ UNCHANGED <<agent, queue>>
  BY TransferStep
<1>2. CTA = {0, 1} /\ Acc = {0, 1}
  BY AgentNames
<1>3. \A d \in CTA : \A s \in Stage : Flying(d, s)' <=> Flying(d, s) /\ ~(d = c /\ s = z)
  <2>1. \A x \in loading : x[1] = c /\ x[2] = z => x = t
    BY DEF RingInv, CopiesInv
  <2>. QED BY <1>1, <2>1 DEF Flying
<1>4. Flying(c, z)
  BY DEF Flying
<1>5. /\ \A i \in Acc : \A s \in Stage : Freeings(i, s)' = Freeings(i, s) /\ Fill(mma(i), s)' = Fill(mma(i), s)
      /\ \A d \in CTA : \A s \in Stage : Fill(tma(d), s)' = Fill(tma(d), s)
  BY <1>1, QueueOthers, Stays
<1>6. \A d \in CTA : \A s \in Stage : Sent(d, s)' = Sent(d, s)
  <2>1. \A d \in CTA : At(tma(d))' = At(tma(d)) /\ St(tma(d))' = St(tma(d))
    BY <1>1, Same
  <2>. QED BY <1>5, <2>1 DEF Sent
<1>7. \A d \in CTA : \A s \in Stage :
        Landings(d, s)' = IF d = c /\ s = z THEN Landings(d, s) + 1 ELSE Landings(d, s)
  <2>. SUFFICES ASSUME NEW d \in CTA, NEW s \in Stage
                PROVE  Landings(d, s)' = IF d = c /\ s = z THEN Landings(d, s) + 1 ELSE Landings(d, s)
    OBVIOUS
  <2>1. Landings(d, s)' = Sent(d, s)' - (IF Flying(d, s)' THEN 1 ELSE 0)
    BY DEF Landings
  <2>2. Landings(d, s) = Sent(d, s) - (IF Flying(d, s) THEN 1 ELSE 0) /\ Sent(d, s) \in Nat
    BY RingNumbers DEF Landings
  <2>3. CASE d = c /\ s = z
    <3>1. Landings(d, s) = Sent(d, s) - 1 /\ Landings(d, s)' = Sent(d, s) - 0
      BY <1>3, <1>4, <1>6, <2>1, <2>2, <2>3
    <3>. QED BY <2>2, <2>3, <3>1
  <2>4. CASE ~(d = c /\ s = z)
    BY <1>3, <1>6, <2>1, <2>2, <2>4
  <2>. QED BY <2>3, <2>4
<1>8. \A s \in Stage : Announced(s)' = Announced(s)
  BY <1>2, <1>5 DEF Announced
<1>9. ASSUME NEW s \in Stage PROVE FullInv(s)' /\ EmptyInv(s)'
  <2>1. \A d \in CTA : bar'[EMPTY(d, s)] = bar[EMPTY(d, s)]
    BY <1>1, BarNames, BarApart DEF OnlyBars
  <2>2. EmptyInv(s)' /\ Free(s)' = Free(s)
    BY <1>5, <2>1, EmptyHolds DEF RingInv
  <2>3. CASE s # z
    <3>1. StageBarsKept(s)
      BY <1>1, <2>1, <2>3, BarNames, BarApart DEF OnlyBars, StageBarsKept
    <3>2. \A d \in CTA : Landings(d, s)' = Landings(d, s)
      BY <1>7, <2>3
    <3>. QED BY <1>5, <1>6, <1>8, <3>1, <3>2, FullNumbers, StageHolds
  <2>4. CASE s = z
    <3>. DEFINE v == Turn(s)
                w == Announced(s)
                j == Landings(0, s)
                k == Landings(1, s)
    <3>1. /\ v \in Nat /\ w \in {v, v + 1} /\ j \in {v, v + 1} /\ k \in {v, v + 1}
          /\ \A d \in CTA : Sent(d, s) \in {v, v + 1} /\ Landings(d, s) <= Sent(d, s) /\ Landings(d, s) \in {v, v + 1}
          /\ bar[FULL(s)] = Bar(v, 1 - (w - v), 2 * w - j - k, 1)
      BY <1>2, FullNumbers
    <3>2. Landings(c, s) = v /\ Sent(c, s) = v + 1
      BY <1>1, <1>4, <2>4, FullNumbers
    <3>3. PICK p \in Int, x \in Int : p = 1 - (w - v) /\ x = 2 * w - j - k
      BY <3>1
    <3>4. bar'[FULL(s)] = Landed(Bar(v, p, x, 1)) /\ p \in Int /\ x \in Int /\ v \in Int
      BY <1>1, <2>4, <3>1, <3>3
    <3>5. /\ p = 0 /\ x = 1 => bar'[FULL(s)] = Bar(v + 1, 1, 0, 1)
          /\ ~(p = 0 /\ x = 1) => bar'[FULL(s)] = Bar(v, p, x - 1, 1)
      <4>. HIDE DEF v
      <4>1. p = 0 /\ x = 1 => Landed(Bar(v, p, x, 1)) = Bar(v + 1, 1, 0, 1)
        BY Zenon, <3>4, BarLands
      <4>2. ~(p = 0 /\ x = 1) => Landed(Bar(v, p, x, 1)) = Bar(v, p, x - 1, 1)
        BY Zenon, <3>4, BarLands
      <4>. QED BY Zenon, <3>4, <4>1, <4>2
    <3>6. \A i \in Acc : Fill(mma(i), s)' = Fill(mma(i), s)
      BY <1>5
    <3>7. /\ c = 0 => j = v /\ Landings(0, s)' = v + 1 /\ Landings(1, s)' = k
          /\ c = 1 => k = v /\ Landings(0, s)' = j /\ Landings(1, s)' = v + 1
          /\ \A d \in CTA : d = c => Landings(d, s)' = v + 1
          /\ \A d \in CTA : d # c => Landings(d, s)' = Landings(d, s)
      BY <1>2, <1>7, <2>4, <3>2
    <3>8. c = 0 \/ c = 1
      BY <1>1, <1>2
    <3>. DEFINE jj == Landings(0, s)'
                kk == Landings(1, s)'
    <3>9. /\ jj \in {v, v + 1} /\ kk \in {v, v + 1} /\ jj + kk = j + k + 1 /\ (jj = v + 1 \/ kk = v + 1)
      <4>. HIDE DEF v, w, j, k, jj, kk
      <4>1. c = 0 => j = v /\ jj = v + 1 /\ kk = k
        BY <3>7 DEF jj, kk
      <4>2. c = 1 => k = v /\ jj = j /\ kk = v + 1
        BY <3>7 DEF jj, kk
      <4>. QED BY <3>1, <3>8, <4>1, <4>2
    <3>10. p = 0 /\ x = 1 <=> w = v + 1 /\ jj = v + 1 /\ kk = v + 1
      <4>. HIDE DEF v, w, j, k, jj, kk
      <4>. QED BY <3>1, <3>3, <3>9
    <3>11. x - 1 = 2 * w - jj - kk
      <4>. HIDE DEF v, w, j, k, jj, kk
      <4>. QED BY <3>1, <3>3, <3>9
    <3>12. CASE w = v + 1 /\ jj = v + 1 /\ kk = v + 1
      <4>1. \A d \in CTA : Sent(d, s) = v + 1
        <5>. SUFFICES ASSUME NEW d \in CTA PROVE Sent(d, s) = v + 1
          OBVIOUS
        <5>1. CASE d = c
          BY <3>2, <5>1
        <5>2. CASE d # c
          <6>1. Landings(d, s) = v + 1
            BY <1>2, <3>7, <3>12, <5>2
          <6>. QED BY <3>1, <6>1
        <5>. QED BY <5>1, <5>2
      <4>2. \A d \in CTA : Landings(d, s)' = v + 1 /\ Sent(d, s)' = v + 1 /\ Sent(d, s) = v + 1
        BY <1>2, <1>6, <3>12, <4>1
      <4>3. bar'[FULL(s)] = Bar(v + 1, 1, 0, 1) /\ Announced(s)' = v + 1
        BY <1>8, <3>5, <3>10, <3>12
      <4>. QED BY <2>2, <3>6, <4>2, <4>3, FullCompletes
    <3>13. CASE ~(w = v + 1 /\ jj = v + 1 /\ kk = v + 1)
      <4>1. bar'[FULL(s)] = Bar(v, p, x - 1, 1)
        BY <3>5, <3>10, <3>13
      <4>2. Announced(s)' = w
        BY <1>8
      <4>3. \A d \in CTA : Landings(d, s)' \in {v, v + 1} /\ Sent(d, s)' = Sent(d, s)
        BY <1>2, <1>6, <3>9
      <4>. QED BY <2>2, <3>1, <3>3, <3>6, <3>11, <3>13, <4>1, <4>2, <4>3, FullCounts
    <3>. QED BY <2>2, <3>12, <3>13
  <2>. QED BY <2>3, <2>4
<1>10. CopiesInv'
  BY <1>1 DEF RingInv, CopiesInv
<1>11. RingInv'
  BY <1>9, <1>10, Fixed DEF RingInv
<1>12. Landings(c, z) = Sent(c, z) - 1
  BY <1>4 DEF Landings
<1>. QED BY <1>6, <1>7, <1>11, <1>12

(* An MMA warp takes a full stage; a stage comes back once both are done.    *)
LEMMA RingTake ==
  ASSUME PipelineTypes, WholeLaps, PosInv, LapsInv, RingInv, QueueInv, UNCHANGED shape, NEW i \in Acc, MmaStage(i)
  PROVE  RingInv'
<1>1. /\ bar' = bar /\ loading' = loading /\ Turns(mma(i)) /\ mma(i) \in Agent
      /\ Passed(bar[FULL(St(mma(i)))], Laps(mma(i)))
  BY MmaTurns, AgentNames DEF MmaStage
<1>2. St(mma(i)) \in Stage /\ Fill(mma(i), St(mma(i))) = Laps(mma(i)) /\ Turn(St(mma(i))) = Laps(mma(i)) + 1
  BY <1>1, MmaPasses
<1>3. \A x \in Agent \ {mma(i)} : agent'[x] = agent[x]
  BY <1>1 DEF Turns, Becomes
<1>4. \A c \in CTA : \A s \in Stage : /\ Fill(tma(c), s)' = Fill(tma(c), s) /\ Sent(c, s)' = Sent(c, s)
                                      /\ Landings(c, s)' = Landings(c, s)
  <2>1. \A c \in CTA : agent'[tma(c)] = agent[tma(c)]
    BY <1>3, AgentNames, Apart
  <2>. QED BY <1>1, <2>1, SentStays
<1>5. ASSUME NEW j \in Acc, NEW s \in Stage
      PROVE  Freeings(j, s)' = Freeings(j, s) /\ Fill(mma(j), s)' \in {Turn(s) - 1, Turn(s)}
  <2>1. Fill(mma(j), s) \in {Turn(s) - 1, Turn(s)} /\ Turn(s) \in Nat
    BY FullNumbers
  <2>2. CASE j = i
    <3>1. Freeings(j, s)' = Freeings(j, s) /\ Fill(mma(j), s)' = IF s = St(mma(i)) THEN Fill(mma(j), s) + 1 ELSE Fill(mma(j), s)
      BY <2>2, QueueTurn
    <3>. QED BY <1>2, <2>1, <2>2, <3>1
  <2>3. CASE j # i
    <3>1. agent'[mma(j)] = agent[mma(j)] /\ queue'[j] = queue[j]
      BY <1>3, <2>3, QueueTurn, AgentNames, Apart
    <3>. QED BY <2>1, <3>1, QueueOthers
  <2>. QED BY <2>2, <2>3
<1>6. OnlyBars({})
  BY <1>1, NoBar
<1>. QED BY <1>1, <1>4, <1>5, <1>6, RingHolds

LEMMA FreesNone ==
  ASSUME PipelineTypes, PosInv, QueueInv, UNCHANGED <<shape, agent>>, NEW i \in Acc, queue[i] # <<>>,
         queue' = [queue EXCEPT ![i] = Tail(@)], Head(queue[i]).op # "free"
  PROVE  \A j \in Acc : \A s \in Stage : Fill(mma(j), s)' = Fill(mma(j), s) /\ Freeings(j, s)' = Freeings(j, s)
<1>. TAKE j \in Acc
<1>1. CASE j = i
  <2>1. (\A s : Unfreed(i, s)' <=> Unfreed(i, s)) /\ \A s \in Stage : Fill(mma(i), s)' = Fill(mma(i), s)
    BY QueuePops
  <2>. QED BY <1>1, <2>1 DEF Freeings
<1>2. CASE j # i
  <2>1. queue'[j] = queue[j]
    BY <1>2, QueuePops
  <2>. QED BY <2>1, QueueOthers
<1>. QED BY <1>1, <1>2

LEMMA RingFrees ==
  ASSUME PipelineTypes, PosInv, RingInv, QueueInv, UNCHANGED shape, NEW i \in Acc, TensorCommit(i)
  PROVE  /\ RingInv'
         /\ Head(queue[i]).op = "free" =>
              /\ Freeings(i, Head(queue[i]).stage) = Free(Head(queue[i]).stage)
              /\ \A j \in Acc : \A s \in Stage :
                   Freeings(j, s)' = IF j = i /\ s = Head(queue[i]).stage THEN Freeings(j, s) + 1 ELSE Freeings(j, s)
<1>. DEFINE o == Head(queue[i])
<1>1. /\ queue[i] # <<>> /\ o.op # "mma" /\ queue' = [queue EXCEPT ![i] = Tail(@)]
      /\ UNCHANGED <<agent, packet, loading, smem, acc>>
  BY CommitStep
<1>2. CTA = {0, 1} /\ Acc = {0, 1}
  BY AgentNames
<1>3. \A c \in CTA : \A s \in Stage : /\ Fill(tma(c), s)' = Fill(tma(c), s) /\ Sent(c, s)' = Sent(c, s)
                                      /\ Landings(c, s)' = Landings(c, s)
  BY <1>1, SentStays
<1>4. CASE o.op # "free"
  <2>1. OnlyBars({TFULL(c, i) : c \in CTA})
    BY <1>4, CommitStep
  <2>2. \A b \in {TFULL(c, i) : c \in CTA} : b[1] \notin {"full", "empty"}
    BY BarKinds
  <2>3. \A j \in Acc : \A s \in Stage : Fill(mma(j), s)' = Fill(mma(j), s) /\ Freeings(j, s)' = Freeings(j, s)
    BY <1>1, <1>4, FreesNone
  <2>4. \A c \in CTA : /\ Laps(tma(c))' = Laps(tma(c)) /\ Pos(tma(c))' = Pos(tma(c))
                       /\ At(tma(c))' = "expect" <=> At(tma(c)) = "expect"
    BY <1>1, Same
  <2>5. RingInv'
    BY <1>1, <2>1, <2>2, <2>3, <2>4, RingQuiet
  <2>. QED BY <1>4, <2>5
<1>5. CASE o.op = "free"
  <2>. DEFINE z == o.stage
  <2>1. /\ z \in Stage /\ \A s \in Stage : Fill(mma(i), s)' = Fill(mma(i), s)
        /\ \A s : IF s = z THEN Unfreed(i, s) /\ ~Unfreed(i, s)' ELSE Unfreed(i, s)' <=> Unfreed(i, s)
        /\ \A j \in Acc \ {i} : queue'[j] = queue[j]
    BY <1>1, <1>5, QueuePops
  <2>2. /\ \A c \in CTA : bar'[EMPTY(c, z)] = Arrive(bar[EMPTY(c, z)])
        /\ OnlyBars({EMPTY(c, z) : c \in CTA})
    BY <1>5, <2>1, CommitStep
  <2>. HIDE DEF o, z
  <2>3. \A j \in Acc : \A s \in Stage : Fill(mma(j), s)' = Fill(mma(j), s)
    <3>. SUFFICES ASSUME NEW j \in Acc PROVE \A s \in Stage : Fill(mma(j), s)' = Fill(mma(j), s)
      OBVIOUS
    <3>1. CASE j = i
      BY <2>1, <3>1
    <3>2. CASE j # i
      BY <1>1, <2>1, <3>2, QueueOthers
    <3>. QED BY <3>1, <3>2
  <2>4. ASSUME NEW j \in Acc, NEW s \in Stage
        PROVE  Freeings(j, s)' = IF j = i /\ s = z THEN Freeings(j, s) + 1 ELSE Freeings(j, s)
    <3>1. CASE j # i
      BY <1>1, <2>1, <3>1, QueueOthers
    <3>2. CASE j = i
      <4>1. Freeings(i, s)' = Fill(mma(i), s)' - (IF Unfreed(i, s)' THEN 1 ELSE 0)
        BY DEF Freeings
      <4>2. Freeings(i, s) = Fill(mma(i), s) - (IF Unfreed(i, s) THEN 1 ELSE 0) /\ Fill(mma(i), s) \in Nat
        BY RingNumbers DEF Freeings
      <4>3. CASE s = z
        <5>1. Freeings(i, s)' = Fill(mma(i), s) - 0 /\ Freeings(i, s) = Fill(mma(i), s) - 1
          BY <2>1, <4>1, <4>2, <4>3
        <5>. QED BY <3>2, <4>2, <4>3, <5>1
      <4>4. CASE s # z
        <5>1. Freeings(i, s)' = Freeings(i, s)
          BY <2>1, <4>1, <4>2, <4>4
        <5>. QED BY <3>2, <4>4, <5>1
      <4>. QED BY <4>3, <4>4
    <3>. QED BY <3>1, <3>2
  <2>5. Freeings(i, z) = Free(z)
    <3>1. Freeings(i, z) = Fill(mma(i), z) - 1 /\ Fill(mma(i), z) \in Nat
      BY <2>1, RingNumbers DEF Freeings
    <3>2. /\ Fill(mma(i), z) \in {Turn(z) - 1, Turn(z)} /\ Turn(z) \in Nat /\ Free(z) \in Nat
          /\ Sent(0, z) \in {Turn(z), Turn(z) + 1} /\ Sent(0, z) <= Free(z) + 1
      BY <1>2, <2>1, FullNumbers
    <3>3. Freeings(i, z) \in {Free(z), Free(z) + 1}
      BY <2>1 DEF RingInv, EmptyInv
    <3>. QED BY <3>1, <3>2, <3>3
  <2>6. \A s \in Stage : Announced(s)' = Announced(s)
    BY <1>2, <1>3 DEF Announced
  <2>7. ASSUME NEW s \in Stage PROVE FullInv(s)' /\ EmptyInv(s)'
    <3>1. bar'[FULL(s)] = bar[FULL(s)]
      BY <2>2, BarNames, BarApart DEF OnlyBars
    <3>2. CASE s # z
      <4>1. StageBarsKept(s)
        BY <2>2, <3>1, <3>2, BarNames, BarApart DEF OnlyBars, StageBarsKept
      <4>2. \A j \in Acc : Freeings(j, s)' = Freeings(j, s)
        BY <2>4, <3>2
      <4>. QED BY <1>3, <2>3, <2>6, <4>1, <4>2, FullNumbers, StageHolds
    <3>3. CASE s = z
      <4>. DEFINE f == Free(s)
                  j == 1 - i
      <4>1. f \in Nat /\ j \in Acc /\ j # i /\ Freeings(i, s) = f /\ Freeings(i, s)' = f + 1 /\ Freeings(j, s)' = Freeings(j, s)
        <5>1. j \in Acc /\ j # i
          BY <1>2
        <5>2. f \in Nat /\ Freeings(i, s) = f
          BY <2>5, <3>3, FullNumbers
        <5>. HIDE DEF j, f
        <5>. QED BY <2>4, <3>3, <5>1, <5>2
      <4>. HIDE DEF j
      <4>2. Freeings(j, s) \in {f, f + 1}
        BY <4>1 DEF RingInv, EmptyInv
      <4>3. (i = 0 /\ j = 1) \/ (i = 1 /\ j = 0)
        BY <1>2, <4>1
      <4>4. \A c \in CTA : bar[EMPTY(c, s)] = Bar(f, IF Freeings(j, s) = f THEN 2 ELSE 1, 0, 2)
        <5>1. \A c \in CTA : bar[EMPTY(c, s)] = Bar(f, IF Freeings(0, s) = Freeings(1, s) THEN 2 ELSE 1, 0, 2)
          BY DEF RingInv, EmptyInv
        <5>2. Freeings(0, s) = Freeings(1, s) <=> Freeings(j, s) = f
          BY <4>1, <4>3
        <5>. QED BY <5>1, <5>2
      <4>5. \A c \in CTA : bar'[EMPTY(c, s)] = IF Freeings(j, s) = f THEN Bar(f, 1, 0, 2) ELSE Bar(f + 1, 2, 0, 2)
        <5>1. f \in Int /\ 2 \in Int /\ 1 \in Int /\ 2 # 1 /\ 2 - 1 = 1
          BY <4>1
        <5>2. Arrive(Bar(f, 2, 0, 2)) = Bar(f, 1, 0, 2) /\ Arrive(Bar(f, 1, 0, 2)) = Bar(f + 1, 2, 0, 2)
          <6>1. Arrive(Bar(f, 2, 0, 2)) = Bar(f, 2 - 1, 0, 2)
            BY <5>1, BarArrives
          <6>. QED BY <5>1, <6>1, BarArrives
        <5>3. CASE Freeings(j, s) = f
          BY <2>2, <3>3, <4>4, <5>2, <5>3
        <5>4. CASE Freeings(j, s) # f
          BY <2>2, <3>3, <4>4, <5>2, <5>4
        <5>. QED BY <5>3, <5>4
      <4>6. Free(s)' = IF Freeings(j, s) = f THEN f ELSE f + 1
        BY <1>2, <4>5, TurnOf DEF Free
      <4>. HIDE DEF f
      <4>7. EmptyInv(s)'
        <5>1. CASE Freeings(j, s) = f
          <6>1. Free(s)' = f /\ Freeings(i, s)' = f + 1 /\ Freeings(j, s)' = f
            BY <4>1, <4>6, <5>1
          <6>2. Free(s)' \in Nat /\ \A k \in Acc : Freeings(k, s)' \in {Free(s)', Free(s)' + 1}
            BY <1>2, <4>1, <4>3, <6>1
          <6>3. (Freeings(0, s)' = Free(s)' \/ Freeings(1, s)' = Free(s)') /\ Freeings(0, s)' # Freeings(1, s)'
            BY <4>1, <4>3, <6>1
          <6>4. \A c \in CTA : bar'[EMPTY(c, s)] = Bar(Free(s)', IF Freeings(0, s)' = Freeings(1, s)' THEN 2 ELSE 1, 0, 2)
            BY <4>5, <5>1, <6>1, <6>3
          <6>. QED BY <6>2, <6>3, <6>4 DEF EmptyInv
        <5>2. CASE Freeings(j, s) # f
          <6>1. Free(s)' = f + 1 /\ Freeings(i, s)' = f + 1 /\ Freeings(j, s)' = f + 1
            BY <4>1, <4>2, <4>6, <5>2
          <6>2. Free(s)' \in Nat /\ \A k \in Acc : Freeings(k, s)' \in {Free(s)', Free(s)' + 1}
            BY <1>2, <4>1, <4>3, <6>1
          <6>3. Freeings(0, s)' = Free(s)' /\ Freeings(0, s)' = Freeings(1, s)'
            BY <4>3, <6>1
          <6>4. \A c \in CTA : bar'[EMPTY(c, s)] = Bar(Free(s)', IF Freeings(0, s)' = Freeings(1, s)' THEN 2 ELSE 1, 0, 2)
            BY <4>5, <5>2, <6>1, <6>3
          <6>. QED BY <6>2, <6>3, <6>4 DEF EmptyInv
        <5>. QED BY <5>1, <5>2
      <4>8. FullInv(s)'
        <5>1. Turn(s)' = Turn(s) /\ Turn(s) \in Nat
          BY <3>1, FullNumbers DEF Turn
        <5>2. \A c \in CTA : /\ Landings(c, s)' \in {Turn(s)', Turn(s)' + 1} /\ Sent(c, s)' \in {Turn(s)', Turn(s)' + 1}
                             /\ Sent(c, s)' <= Free(s)' + 1
          <6>. SUFFICES ASSUME NEW c \in CTA
                        PROVE  /\ Landings(c, s)' \in {Turn(s)', Turn(s)' + 1} /\ Sent(c, s)' \in {Turn(s)', Turn(s)' + 1}
                               /\ Sent(c, s)' <= Free(s)' + 1
            OBVIOUS
          <6>1. /\ Landings(c, s) \in {Turn(s), Turn(s) + 1} /\ Sent(c, s) \in {Turn(s), Turn(s) + 1}
                /\ Sent(c, s) <= f + 1
            BY FullNumbers DEF f
          <6>. QED BY <1>3, <4>1, <4>6, <5>1, <6>1
        <5>3. \A k \in Acc : Fill(mma(k), s)' \in {Turn(s)' - 1, Turn(s)'}
          BY <2>3, <5>1, FullNumbers
        <5>4. /\ bar'[FULL(s)] = Bar(Turn(s)', 1 - (Announced(s)' - Turn(s)'),
                                     2 * Announced(s)' - Landings(0, s)' - Landings(1, s)', 1)
              /\ Turn(s)' \in Nat /\ Announced(s)' \in {Turn(s)', Turn(s)' + 1}
              /\ ~(Announced(s)' = Turn(s)' + 1 /\ Landings(0, s)' = Turn(s)' + 1 /\ Landings(1, s)' = Turn(s)' + 1)
          <6>1. Landings(0, s)' = Landings(0, s) /\ Landings(1, s)' = Landings(1, s)
            BY <1>2, <1>3
          <6>. QED BY <2>6, <3>1, <5>1, <6>1, FullNumbers
        <5>. QED BY <5>2, <5>3, <5>4 DEF FullInv
      <4>. QED BY <4>7, <4>8
    <3>. QED BY <3>2, <3>3
  <2>8. CopiesInv'
    BY <1>1 DEF RingInv, CopiesInv
  <2>9. RingInv'
    BY <2>7, <2>8, Fixed DEF RingInv
  <2>. QED BY <2>4, <2>5, <2>9 DEF z, o
<1>. QED BY <1>4, <1>5

LEMMA RingStep ==
  ASSUME PipelineTypes, PacketInv, WholeLaps, PosInv, LapsInv, RingInv, QueueInv, TmemInv, Step, UNCHANGED shape
  PROVE  RingInv'
<1>1. ASSUME NEW a \in Agent, NEW S, OnlyBars(S), \A b \in S : b[1] \notin {"full", "empty"},
             \A x \in Agent \ {a} : agent'[x] = agent[x], UNCHANGED <<loading, queue>>,
             a \in Ring => /\ Laps(a)' = Laps(a) /\ Pos(a)' = Pos(a) /\ Uses(a)' = Uses(a)
                           /\ At(a) \in {"idle", "publish"} /\ At(a)' \notin {"expect"}
                           /\ \A i \in Acc : a = mma(i) => At(a)' # "run"
      PROVE  RingInv'
  <2>1. ASSUME NEW c \in CTA
        PROVE  /\ Laps(tma(c))' = Laps(tma(c)) /\ Pos(tma(c))' = Pos(tma(c))
               /\ At(tma(c))' = "expect" <=> At(tma(c)) = "expect"
    <3>1. CASE a = tma(c)
      BY <1>1, <3>1, RingMember
    <3>2. CASE a # tma(c)
      BY <1>1, <3>2, AgentNames, Same
    <3>. QED BY <3>1, <3>2
  <2>2. ASSUME NEW i \in Acc
        PROVE  \A s \in Stage : Fill(mma(i), s)' = Fill(mma(i), s) /\ Freeings(i, s)' = Freeings(i, s)
    <3>1. CASE a = mma(i)
      <4>1. /\ Laps(mma(i))' = Laps(mma(i)) /\ Pos(mma(i))' = Pos(mma(i)) /\ Uses(mma(i))' = Uses(mma(i))
            /\ At(mma(i))' = "run" <=> At(mma(i)) = "run"
        BY <1>1, <3>1, RingMember
      <4>. QED BY <1>1, <4>1, QueueSame
    <3>2. CASE a # mma(i)
      BY <1>1, <3>2, AgentNames, QueueOthers
    <3>. QED BY <3>1, <3>2
  <2>. QED BY <1>1, <2>1, <2>2, RingQuiet
<1>2. ASSUME NEW a \in Agent, Receive(a) PROVE RingInv'
  <2>1. OnlyBars({C2P}) /\ UNCHANGED <<loading, queue>> /\ At(a) = "idle" /\ \A x \in Agent \ {a} : agent'[x] = agent[x]
    BY <1>2, ReceiveStep, ReceiveAgent DEF Becomes
  <2>2. \A b \in {C2P} : b[1] \notin {"full", "empty"}
    BY BarKinds
  <2>3. ASSUME a \in Ring
        PROVE  /\ Laps(a)' = Laps(a) /\ Pos(a)' = Pos(a) /\ Uses(a)' = Uses(a) /\ At(a)' = NextPlace(a)
               /\ At(a)' \notin {"expect"} /\ \A i \in Acc : a = mma(i) => At(a)' # "run"
    <3>1. Becomes(a, NextPlace(a), Pos(a), Laps(a), Uses(a), Got(a) + 1)
      BY <1>2, <2>3, ReceivesAt
    <3>2. NextPlace(a) # "expect" /\ \A i \in Acc : a = mma(i) => NextPlace(a) # "run"
      <4>1. \A i : a = mma(i) => a[1] = "mma"
        BY Kinds
      <4>. QED BY <4>1 DEF NextPlace, Starts, RolePlace, FetchPlace
    <3>. QED BY <3>1, <3>2 DEF Becomes
  <2>. QED BY <1>1, <2>1, <2>2, <2>3
<1>3. ASSUME Publish PROVE RingInv'
  <2>1. /\ OnlyBars({P2C(c) : c \in CTA}) /\ UNCHANGED <<loading, queue>> /\ At(tma(0)) = "publish"
        /\ Moves(tma(0), "idle") /\ tma(0) \in Agent
    BY <1>3, PublishStep, AgentNames
  <2>2. \A b \in {P2C(c) : c \in CTA} : b[1] \notin {"full", "empty"}
    BY BarKinds
  <2>3. /\ Laps(tma(0))' = Laps(tma(0)) /\ Pos(tma(0))' = Pos(tma(0)) /\ Uses(tma(0))' = Uses(tma(0))
        /\ At(tma(0))' = "idle" /\ \A x \in Agent \ {tma(0)} : agent'[x] = agent[x]
    BY <2>1 DEF Moves, Becomes
  <2>. QED BY <1>1, <2>1, <2>2, <2>3
<1>4. ASSUME NEW c \in CTA, TmaStage(c) PROVE RingInv'
  BY <1>4, RingCopy
<1>5. ASSUME TmaExpect PROVE RingInv'
  BY <1>5, RingExpect
<1>6. ASSUME NEW t \in loading, Transfer(t) PROVE RingInv'
  BY <1>6, RingLand
<1>7. ASSUME NEW i \in Acc, MmaStage(i) PROVE RingInv'
  BY <1>7, RingTake
<1>8. ASSUME NEW i \in Acc, TensorCommit(i) PROVE RingInv'
  BY <1>8, RingFrees
<1>9. ASSUME OnlyBars({}), UNCHANGED loading,
             \A c \in CTA : agent'[tma(c)] = agent[tma(c)],
             \A i \in Acc : \A s \in Stage : Fill(mma(i), s)' = Fill(mma(i), s) /\ Freeings(i, s)' = Freeings(i, s)
      PROVE  RingInv'
  <2>1. \A c \in CTA : /\ Laps(tma(c))' = Laps(tma(c)) /\ Pos(tma(c))' = Pos(tma(c))
                       /\ At(tma(c))' = "expect" <=> At(tma(c)) = "expect"
    BY <1>9, Same
  <2>. QED BY <1>9, <2>1, RingQuiet
<1>10. ASSUME NEW i \in Acc, MmaAcquire(i) PROVE RingInv'
  <2>1. Moves(mma(i), "run") /\ UNCHANGED <<bar, loading, queue>>
    BY <1>10, AcquireStep
  <2>2. \A x \in Agent \ {mma(i)} : agent'[x] = agent[x]
    BY <2>1 DEF Moves, Becomes
  <2>3. \A c \in CTA : agent'[tma(c)] = agent[tma(c)]
    BY <2>2, AgentNames, Apart
  <2>4. ASSUME NEW j \in Acc
        PROVE  \A s \in Stage : Fill(mma(j), s)' = Fill(mma(j), s) /\ Freeings(j, s)' = Freeings(j, s)
    <3>1. CASE j = i
      BY <1>10, <3>1, QueueAcquire
    <3>2. CASE j # i
      <4>1. agent'[mma(j)] = agent[mma(j)]
        BY <2>2, <3>2, AgentNames, Apart
      <4>. QED BY <2>1, <4>1, QueueOthers
    <3>. QED BY <3>1, <3>2
  <2>. QED BY <1>9, <2>1, <2>3, <2>4, NoBar
<1>11. ASSUME NEW i \in Acc, TensorMma(i) PROVE RingInv'
  <2>1. /\ queue[i] # <<>> /\ Head(queue[i]).op # "free" /\ queue' = [queue EXCEPT ![i] = Tail(@)]
        /\ UNCHANGED <<bar, agent, loading>>
    BY <1>11, TensorMmaStep
  <2>2. \A j \in Acc : \A s \in Stage : Fill(mma(j), s)' = Fill(mma(j), s) /\ Freeings(j, s)' = Freeings(j, s)
    BY <2>1, FreesNone
  <2>. QED BY <1>9, <2>1, <2>2, NoBar
<1>12. ASSUME NEW c \in CTA, NEW i \in Acc, ConsumerWait(c, i) \/ ConsumerDone(c, i) PROVE RingInv'
  <2>1. con(c, i) \in Agent /\ con(c, i) \notin Ring /\ \A b \in {TEMPTY(i)} : b[1] \notin {"full", "empty"}
    BY AgentNames, RingMember, BarKinds
  <2>2. CASE ConsumerWait(c, i)
    <3>1. (\A x \in Agent \ {con(c, i)} : agent'[x] = agent[x]) /\ UNCHANGED <<bar, loading, queue>>
      <4>1. \A x \in Agent \ {con(c, i)} : agent'[x] = agent[x]
        BY <2>2, ReadAgent DEF Becomes
      <4>2. UNCHANGED <<bar, loading, queue>>
        BY <2>2 DEF ConsumerWait
      <4>. QED BY <4>1, <4>2
    <3>. QED BY <1>1, <2>1, <3>1, NoBar
  <2>3. CASE ConsumerDone(c, i)
    <3>1. /\ \A x \in Agent \ {con(c, i)} : agent'[x] = agent[x]
          /\ OnlyBars({TEMPTY(i)}) /\ UNCHANGED <<loading, queue>>
      BY <2>3, DoneStep DEF Moves, Becomes
    <3>. QED BY <1>1, <2>1, <3>1
  <2>. QED BY <1>12, <2>2, <2>3
<1>. QED BY StepCases, <1>2, <1>3, <1>4, <1>5, <1>6, <1>7, <1>8, <1>10, <1>11, <1>12

----------------------------------------------------------------------------
(* The accumulators.                                                         *)
TmemOf(i) ==
  /\ bar[TEMPTY(i)] = Bar(Returned(i), IF Back(0, i) = Back(1, i) THEN 2 ELSE 1, 0, 2)
  /\ Uses(mma(i)) <= Returned(i) + 1 /\ (At(mma(i)) = "run" => Uses(mma(i)) <= Returned(i))
  /\ \A c \in CTA : /\ bar[TFULL(c, i)] = Bar(Complete(i), 1, 0, 1)
                    /\ Uses(con(c, i)) <= Complete(i) /\ Back(c, i) \in Nat
TmemBarsKept(i) == bar'[TEMPTY(i)] = bar[TEMPTY(i)] /\ \A c \in CTA : bar'[TFULL(c, i)] = bar[TFULL(c, i)]

LEMMA TmemBars ==
  ASSUME NEW S, OnlyBars(S), NEW i \in Acc, TEMPTY(i) \notin S, \A c \in CTA : TFULL(c, i) \notin S
  PROVE  TmemBarsKept(i)
BY BarNames DEF OnlyBars, TmemBarsKept

LEMMA TmemOtherBars ==
  ASSUME NEW S, OnlyBars(S), NEW i \in Acc, \A b \in S : b[1] \notin {"tempty", "tfull"}
  PROVE  TmemBarsKept(i)
<1>1. TEMPTY(i) \notin S /\ \A c \in CTA : TFULL(c, i) \notin S
  BY BarKinds
<1>. QED BY <1>1, TmemBars

LEMMA TmemKeeps ==
  ASSUME NEW i \in Acc, TmemOf(i), TmemBarsKept(i), Complete(i)' = Complete(i),
         Uses(mma(i))' <= Returned(i) + 1, At(mma(i))' = "run" => Uses(mma(i))' <= Returned(i),
         \A c \in CTA : Back(c, i)' = Back(c, i) /\ Uses(con(c, i))' <= Complete(i)
  PROVE  TmemOf(i)'
<1>1. Back(0, i)' = Back(0, i) /\ Back(1, i)' = Back(1, i)
  BY AgentNames
<1>2. Returned(i)' = Returned(i)
  BY <1>1 DEF Returned, Least
<1>3. bar'[TEMPTY(i)] = Bar(Returned(i)', IF Back(0, i)' = Back(1, i)' THEN 2 ELSE 1, 0, 2)
  BY <1>1, <1>2 DEF TmemOf, TmemBarsKept
<1>4. \A c \in CTA : /\ bar'[TFULL(c, i)] = Bar(Complete(i)', 1, 0, 1)
                     /\ Uses(con(c, i))' <= Complete(i)' /\ Back(c, i)' \in Nat
  BY DEF TmemOf, TmemBarsKept
<1>5. Uses(mma(i))' <= Returned(i)' + 1 /\ (At(mma(i))' = "run" => Uses(mma(i))' <= Returned(i)')
  BY <1>2
<1>. QED BY <1>3, <1>4, <1>5 DEF TmemOf

(* Consumers that wait or read no differently; an MMA warp that runs, and    *)
(* its queue, as before.                                                     *)
LEMMA TmemSame ==
  ASSUME NEW i \in Acc, TmemOf(i), TmemBarsKept(i), queue'[i] = queue[i],
         Uses(mma(i))' = Uses(mma(i)), At(mma(i))' = "run" <=> At(mma(i)) = "run",
         \A c \in CTA : /\ Uses(con(c, i))' = Uses(con(c, i))
                        /\ At(con(c, i))' = "read" <=> At(con(c, i)) = "read"
  PROVE  TmemOf(i)'
<1>1. Complete(i)' = Complete(i)
  BY DEF Complete
<1>2. \A c \in CTA : Back(c, i)' = Back(c, i)
  BY DEF Back
<1>3. Uses(mma(i))' <= Returned(i) + 1 /\ (At(mma(i))' = "run" => Uses(mma(i))' <= Returned(i))
  BY DEF TmemOf
<1>4. \A c \in CTA : Uses(con(c, i))' <= Complete(i)
  BY DEF TmemOf
<1>. QED BY <1>1, <1>2, <1>3, <1>4, TmemKeeps

LEMMA TmemOthers ==
  ASSUME UNCHANGED shape, NEW i \in Acc, TmemOf(i), TmemBarsKept(i), queue'[i] = queue[i],
         agent'[mma(i)] = agent[mma(i)], \A c \in CTA : agent'[con(c, i)] = agent[con(c, i)]
  PROVE  TmemOf(i)'
<1>1. At(mma(i))' = At(mma(i)) /\ Uses(mma(i))' = Uses(mma(i))
  BY Same
<1>2. \A c \in CTA : At(con(c, i))' = At(con(c, i)) /\ Uses(con(c, i))' = Uses(con(c, i))
  BY Same
<1>. QED BY <1>1, <1>2, TmemSame

LEMMA TmemReceive ==
  ASSUME PipelineTypes, PosInv, TmemInv, UNCHANGED shape, NEW a \in Agent, Receive(a), NEW i \in Acc
  PROVE  TmemOf(i)'
<1>1. /\ OnlyBars({C2P}) /\ UNCHANGED queue /\ At(a) = "idle" /\ \A x \in Agent \ {a} : agent'[x] = agent[x]
      /\ At(a)' = NextPlace(a) /\ Uses(a)' = Uses(a)
  BY ReceiveStep, ReceiveAgent DEF Becomes
<1>2. TmemBarsKept(i) /\ TmemOf(i)
  BY <1>1, BarKinds, TmemOtherBars DEF TmemInv, TmemOf
<1>3. NextPlace(a) # "read" /\ \A j : a = mma(j) => NextPlace(a) # "run"
  <2>1. \A j : a = mma(j) => a[1] = "mma"
    BY Kinds
  <2>. QED BY <2>1 DEF NextPlace, Starts, RolePlace, FetchPlace
<1>4. Uses(mma(i))' = Uses(mma(i)) /\ (At(mma(i))' = "run" <=> At(mma(i)) = "run")
  <2>1. CASE a = mma(i)
    BY <1>1, <1>3, <2>1
  <2>2. CASE a # mma(i)
    BY <1>1, <2>2, AgentNames, Same
  <2>. QED BY <2>1, <2>2
<1>5. \A c \in CTA : /\ Uses(con(c, i))' = Uses(con(c, i))
                     /\ At(con(c, i))' = "read" <=> At(con(c, i)) = "read"
  <2>. TAKE c \in CTA
  <2>1. CASE a = con(c, i)
    BY <1>1, <1>3, <2>1
  <2>2. CASE a # con(c, i)
    BY <1>1, <2>2, AgentNames, Same
  <2>. QED BY <2>1, <2>2
<1>. QED BY <1>1, <1>2, <1>4, <1>5, TmemSame

LEMMA TmemAcquire ==
  ASSUME PipelineTypes, TmemInv, UNCHANGED shape, NEW i \in Acc, MmaAcquire(i)
  PROVE  TmemOf(i)'
<1>1. /\ At(mma(i)) = "acquire" /\ Passed(bar[TEMPTY(i)], Uses(mma(i)) - 1) /\ Moves(mma(i), "run")
      /\ UNCHANGED <<bar, queue>>
  BY AcquireStep
<1>2. Returned(i) = Uses(mma(i)) /\ queue[i] = <<>> /\ Complete(i) = Uses(mma(i)) /\ Uses(mma(i)) \in Nat
  BY <1>1, AcquirePasses, TmemNumbers
<1>3. Uses(mma(i))' = Uses(mma(i)) /\ At(mma(i))' = "run" /\ \A x \in Agent \ {mma(i)} : agent'[x] = agent[x]
  BY <1>1 DEF Moves, Becomes
<1>4. Complete(i)' = Complete(i)
  BY <1>2, <1>3 DEF Complete
<1>5. \A c \in CTA : Back(c, i)' = Back(c, i) /\ Uses(con(c, i))' = Uses(con(c, i))
  <2>1. \A c \in CTA : agent'[con(c, i)] = agent[con(c, i)]
    BY <1>3, AgentNames, Apart
  <2>2. \A c \in CTA : At(con(c, i))' = At(con(c, i)) /\ Uses(con(c, i))' = Uses(con(c, i))
    BY <2>1, Same
  <2>. QED BY <2>2 DEF Back
<1>6. TmemOf(i) /\ TmemBarsKept(i)
  BY <1>1 DEF TmemInv, TmemOf, TmemBarsKept
<1>7. \A c \in CTA : Uses(con(c, i))' <= Complete(i)
  BY <1>5, <1>6 DEF TmemOf
<1>8. Uses(mma(i))' <= Returned(i) + 1 /\ Uses(mma(i))' <= Returned(i)
  BY <1>2, <1>3
<1>. QED BY <1>4, <1>5, <1>6, <1>7, <1>8, TmemKeeps

LEMMA TmemTurn ==
  ASSUME PipelineTypes, WholeLaps, PosInv, LapsInv, RingInv, QueueInv, TmemInv, UNCHANGED shape,
         NEW i \in Acc, MmaStage(i)
  PROVE  TmemOf(i)'
<1>1. /\ UNCHANGED bar /\ At(mma(i)) = "run" /\ Turns(mma(i)) /\ queue'[i] # <<>>
      /\ mma(i)[1] = "mma" /\ FetchPlace(mma(i)) = "idle"
  <2>1. At(mma(i)) = "run" /\ Turns(mma(i)) /\ queue'[i] # <<>>
    BY MmaTurns, QueueTurn
  <2>2. UNCHANGED bar
    BY DEF MmaStage
  <2>3. mma(i)[1] = "mma" /\ FetchPlace(mma(i)) = "idle"
    BY Kinds, Apart DEF FetchPlace
  <2>. QED BY <2>1, <2>2, <2>3
<1>2. /\ Uses(mma(i)) \in Nat /\ Complete(i) = Uses(mma(i)) /\ Returned(i) \in Nat /\ Uses(mma(i)) <= Returned(i)
  <2>1. Uses(mma(i)) \in Nat /\ Returned(i) \in Nat
    BY TmemNumbers
  <2>. QED BY <1>1, <2>1 DEF Complete, TmemInv
<1>3. \/ Uses(mma(i))' = Uses(mma(i)) + 1 /\ At(mma(i))' = "idle"
      \/ Uses(mma(i))' = Uses(mma(i)) /\ At(mma(i))' = "run"
  BY <1>1 DEF Turns, Becomes
<1>4. Complete(i)' = Complete(i)
  <2>1. CASE Uses(mma(i))' = Uses(mma(i)) + 1 /\ At(mma(i))' = "idle"
    <3>1. Complete(i)' = (Uses(mma(i)) + 1) - 1
      BY <1>1, <2>1 DEF Complete
    <3>. QED BY <1>2, <3>1
  <2>2. CASE Uses(mma(i))' = Uses(mma(i)) /\ At(mma(i))' = "run"
    <3>1. Complete(i)' = Uses(mma(i)) - 0
      BY <2>2 DEF Complete
    <3>. QED BY <1>2, <3>1
  <2>. QED BY <1>3, <2>1, <2>2
<1>5. \A c \in CTA : Back(c, i)' = Back(c, i) /\ Uses(con(c, i))' = Uses(con(c, i))
  <2>1. \A c \in CTA : agent'[con(c, i)] = agent[con(c, i)]
    BY <1>1, AgentNames, Apart DEF Turns, Becomes
  <2>2. \A c \in CTA : At(con(c, i))' = At(con(c, i)) /\ Uses(con(c, i))' = Uses(con(c, i))
    BY <2>1, Same
  <2>. QED BY <2>2 DEF Back
<1>6. TmemOf(i) /\ TmemBarsKept(i)
  BY <1>1 DEF TmemInv, TmemOf, TmemBarsKept
<1>7. \A c \in CTA : Uses(con(c, i))' <= Complete(i)
  BY <1>5, <1>6 DEF TmemOf
<1>8. Uses(mma(i))' <= Returned(i) + 1 /\ (At(mma(i))' = "run" => Uses(mma(i))' <= Returned(i))
  BY <1>2, <1>3
<1>. QED BY <1>4, <1>5, <1>6, <1>7, <1>8, TmemKeeps

(* What the tensor core does at the head of a queue.                         *)
LEMMA TmemPops ==
  ASSUME PipelineTypes, PosInv, QueueInv, TmemInv, UNCHANGED <<shape, agent>>, NEW i \in Acc, queue[i] # <<>>,
         queue' = [queue EXCEPT ![i] = Tail(@)]
  PROVE  /\ Complete(i)' = IF Head(queue[i]).op = "done" THEN Complete(i) + 1 ELSE Complete(i)
         /\ Complete(i) \in Nat
<1>1. /\ Head(queue[i]).op = "done" => At(mma(i)) # "run" /\ queue'[i] = <<>>
      /\ Head(queue[i]).op # "done" /\ At(mma(i)) # "run" => queue'[i] # <<>>
  BY QueuePops
<1>2. At(mma(i))' = At(mma(i)) /\ Uses(mma(i))' = Uses(mma(i))
  BY Same
<1>3. Uses(mma(i)) \in Nat /\ Complete(i) \in Int
  BY TmemNumbers
<1>4. Complete(i) \in Nat
  <2>1. 0 \in CTA
    BY AgentNames
  <2>2. Uses(con(0, i)) \in Nat /\ Uses(con(0, i)) <= Complete(i)
    BY <2>1, TmemNumbers
  <2>. QED BY <1>3, <2>2
<1>5. CASE Head(queue[i]).op = "done"
  <2>1. Complete(i)' = Uses(mma(i)) - 0 /\ Complete(i) = Uses(mma(i)) - 1
    BY <1>1, <1>2, <1>5 DEF Complete
  <2>. QED BY <1>3, <1>4, <1>5, <2>1
<1>6. CASE Head(queue[i]).op # "done"
  <2>1. Complete(i)' = Complete(i)
    BY <1>1, <1>2, <1>6 DEF Complete
  <2>. QED BY <1>4, <1>6, <2>1
<1>. QED BY <1>5, <1>6

LEMMA TmemTensor ==
  ASSUME PipelineTypes, PosInv, QueueInv, TmemInv, UNCHANGED shape, NEW i \in Acc, TensorMma(i) \/ TensorCommit(i)
  PROVE  TmemOf(i)'
<1>1. queue[i] # <<>> /\ queue' = [queue EXCEPT ![i] = Tail(@)] /\ UNCHANGED agent
  BY TensorMmaStep, CommitStep
<1>2. /\ Complete(i)' = (IF Head(queue[i]).op = "done" THEN Complete(i) + 1 ELSE Complete(i)) /\ Complete(i) \in Nat
      /\ Head(queue[i]).op \in {"mma", "free", "done"}
      /\ Head(queue[i]).op = "free" => Head(queue[i]).stage \in Stage
  BY <1>1, TmemPops, QueuePops
<1>3. TmemOf(i)
  BY DEF TmemInv, TmemOf
<1>4. \A x : At(x)' = At(x) /\ Uses(x)' = Uses(x)
  BY <1>1 DEF At, Uses
<1>5. \A c \in CTA : Back(c, i)' = Back(c, i) /\ Uses(con(c, i))' = Uses(con(c, i))
  BY <1>4 DEF Back
<1>6. Uses(mma(i))' <= Returned(i) + 1 /\ (At(mma(i))' = "run" => Uses(mma(i))' <= Returned(i))
  BY <1>3, <1>4 DEF TmemOf
<1>7. CASE Head(queue[i]).op # "done"
  <2>1. TmemBarsKept(i)
    <3>1. CASE TensorMma(i)
      BY <3>1, TensorMmaStep DEF TmemBarsKept
    <3>2. CASE TensorCommit(i)
      <4>1. Head(queue[i]).op = "free"
        BY <1>2, <1>7, <3>2, CommitStep
      <4>2. OnlyBars({EMPTY(c, Head(queue[i]).stage) : c \in CTA})
        BY <1>2, <3>2, <4>1, CommitStep
      <4>3. \A b \in {EMPTY(c, Head(queue[i]).stage) : c \in CTA} : b[1] \notin {"tempty", "tfull"}
        BY BarKinds
      <4>. QED BY <4>2, <4>3, TmemOtherBars
    <3>. QED BY <3>1, <3>2
  <2>2. \A c \in CTA : Uses(con(c, i))' <= Complete(i)
    BY <1>3, <1>5 DEF TmemOf
  <2>. QED BY <1>2, <1>3, <1>5, <1>6, <1>7, <2>1, <2>2, TmemKeeps
<1>8. CASE Head(queue[i]).op = "done"
  <2>1. /\ \A c \in CTA : bar'[TFULL(c, i)] = Arrive(bar[TFULL(c, i)])
        /\ OnlyBars({TFULL(c, i) : c \in CTA})
    <3>1. TensorCommit(i)
      BY <1>8, TensorMmaStep
    <3>. QED BY <1>8, <3>1, CommitStep
  <2>2. bar'[TEMPTY(i)] = bar[TEMPTY(i)]
    BY <2>1, BarNames, BarApart DEF OnlyBars
  <2>3. Complete(i)' = Complete(i) + 1
    BY <1>2, <1>8
  <2>4. \A c \in CTA : bar'[TFULL(c, i)] = Bar(Complete(i)', 1, 0, 1)
    <3>1. Complete(i) \in Int /\ 1 \in Int
      BY <1>2
    <3>2. Arrive(Bar(Complete(i), 1, 0, 1)) = Bar(Complete(i) + 1, 1, 0, 1)
      BY <3>1, BarArrives
    <3>. QED BY <1>3, <2>1, <2>3, <3>2 DEF TmemOf
  <2>5. \A c \in CTA : Uses(con(c, i))' <= Complete(i)' /\ Back(c, i)' \in Nat
    <3>1. \A c \in CTA : Uses(con(c, i)) \in Nat /\ Uses(con(c, i)) <= Complete(i) /\ Back(c, i) \in Nat
      BY TmemNumbers
    <3>. QED BY <1>2, <1>5, <2>3, <3>1
  <2>6. Back(0, i)' = Back(0, i) /\ Back(1, i)' = Back(1, i)
    BY <1>5, AgentNames
  <2>7. Returned(i)' = Returned(i)
    BY <2>6 DEF Returned, Least
  <2>8. bar'[TEMPTY(i)] = Bar(Returned(i)', IF Back(0, i)' = Back(1, i)' THEN 2 ELSE 1, 0, 2)
    BY <1>3, <2>2, <2>6, <2>7 DEF TmemOf
  <2>9. Uses(mma(i))' <= Returned(i)' + 1 /\ (At(mma(i))' = "run" => Uses(mma(i))' <= Returned(i)')
    BY <1>6, <2>7
  <2>. QED BY <2>4, <2>5, <2>8, <2>9 DEF TmemOf
<1>. QED BY <1>7, <1>8

LEMMA TmemRead ==
  ASSUME PipelineTypes, TmemInv, UNCHANGED shape, NEW c \in CTA, NEW i \in Acc, ConsumerWait(c, i)
  PROVE  TmemOf(i)' /\ Complete(i) = Uses(con(c, i)) + 1
<1>1. /\ At(con(c, i)) = "wait" /\ Passed(bar[TFULL(c, i)], Uses(con(c, i)))
      /\ Uses(con(c, i))' = Uses(con(c, i)) + 1 /\ At(con(c, i))' = "read"
      /\ \A x \in Agent \ {con(c, i)} : agent'[x] = agent[x]
  BY ReadAgent DEF Becomes
<1>2. UNCHANGED <<bar, queue>>
  BY DEF ConsumerWait
<1>3. Complete(i) = Uses(con(c, i)) + 1
  BY <1>1, ConsumerPasses
<1>4. TmemOf(i) /\ TmemBarsKept(i)
  BY <1>2 DEF TmemInv, TmemOf, TmemBarsKept
<1>5. agent'[mma(i)] = agent[mma(i)]
  BY <1>1, AgentNames, Apart
<1>6. At(mma(i))' = At(mma(i)) /\ Uses(mma(i))' = Uses(mma(i))
  BY <1>5, Same
<1>7. Complete(i)' = Complete(i)
  BY <1>2, <1>6 DEF Complete
<1>8. \A d \in CTA : Back(d, i)' = Back(d, i) /\ Uses(con(d, i))' <= Complete(i)
  <2>. TAKE d \in CTA
  <2>1. CASE d = c
    <3>1. Back(d, i)' = (Uses(con(c, i)) + 1) - 1 /\ Back(d, i) = Uses(con(c, i)) - 0
      BY <1>1, <2>1 DEF Back
    <3>2. Uses(con(c, i)) \in Nat
      BY TmemNumbers
    <3>. QED BY <1>1, <1>3, <2>1, <3>1, <3>2
  <2>2. CASE d # c
    <3>1. agent'[con(d, i)] = agent[con(d, i)]
      BY <1>1, <2>2, AgentNames, Apart
    <3>2. At(con(d, i))' = At(con(d, i)) /\ Uses(con(d, i))' = Uses(con(d, i))
      BY <3>1, Same
    <3>. QED BY <1>4, <3>2 DEF Back, TmemOf
  <2>. QED BY <2>1, <2>2
<1>9. Uses(mma(i))' <= Returned(i) + 1 /\ (At(mma(i))' = "run" => Uses(mma(i))' <= Returned(i))
  BY <1>4, <1>6 DEF TmemOf
<1>. QED BY <1>3, <1>4, <1>7, <1>8, <1>9, TmemKeeps

(* The accumulator goes back once both consumers have read it.               *)
LEMMA TmemDone ==
  ASSUME PipelineTypes, TmemInv, UNCHANGED shape, NEW c \in CTA, NEW i \in Acc, ConsumerDone(c, i)
  PROVE  TmemOf(i)'
<1>. DEFINE d == 1 - c
            r == Returned(i)
            b == Back(c, i)
            e == Back(d, i)
            u == Uses(mma(i))
<1>1. /\ At(con(c, i)) = "read" /\ Moves(con(c, i), "idle") /\ UNCHANGED queue
      /\ bar'[TEMPTY(i)] = Arrive(bar[TEMPTY(i)]) /\ OnlyBars({TEMPTY(i)})
  BY DoneStep
<1>2. d \in CTA /\ d # c /\ ((c = 0 /\ d = 1) \/ (c = 1 /\ d = 0))
  BY AgentNames
<1>. HIDE DEF d
<1>3. /\ u \in Nat /\ r \in Nat /\ b \in Nat /\ e \in Nat /\ r <= b /\ r <= e
      /\ b + 1 <= u /\ e <= u /\ u <= r + 1
  <2>1. /\ u \in Nat /\ r \in Nat /\ Complete(i) \in Int /\ Complete(i) <= u
        /\ b \in Nat /\ r <= b /\ Uses(con(c, i)) \in Nat /\ Uses(con(c, i)) <= Complete(i)
        /\ e \in Nat /\ r <= e /\ Uses(con(d, i)) \in Nat /\ Uses(con(d, i)) <= Complete(i) /\ e <= Uses(con(d, i))
    BY <1>2, TmemNumbers
  <2>2. b = Uses(con(c, i)) - 1
    BY <1>1 DEF Back
  <2>3. u <= r + 1
    BY DEF TmemInv
  <2>. HIDE DEF u, r, b, e
  <2>. QED BY <2>1, <2>2, <2>3
<1>4. b = r /\ e \in {r, r + 1}
  <2>. HIDE DEF u, r, b, e
  <2>. QED BY <1>3
<1>5. /\ At(con(c, i))' = "idle" /\ Uses(con(c, i))' = Uses(con(c, i))
      /\ \A x \in Agent \ {con(c, i)} : agent'[x] = agent[x]
  BY <1>1 DEF Moves, Becomes
<1>6. agent'[con(d, i)] = agent[con(d, i)] /\ agent'[mma(i)] = agent[mma(i)]
  BY <1>2, <1>5, AgentNames, Apart
<1>7. /\ At(con(d, i))' = At(con(d, i)) /\ Uses(con(d, i))' = Uses(con(d, i))
      /\ At(mma(i))' = At(mma(i)) /\ Uses(mma(i))' = Uses(mma(i))
  BY <1>6, Same
<1>8. \A x : x \in CTA => x = c \/ x = d
  BY <1>2, AgentNames
<1>9. \A x \in CTA : Back(x, i)' = IF x = c THEN r + 1 ELSE e
  <2>. TAKE x \in CTA
  <2>1. CASE x = c
    <3>1. Back(x, i)' = Uses(con(c, i)) - 0 /\ b = Uses(con(c, i)) - 1
      BY <1>1, <1>5, <2>1 DEF Back
    <3>2. Uses(con(c, i)) \in Nat
      BY TmemNumbers
    <3>3. Back(x, i)' = r + 1
      <4>. HIDE DEF r, b
      <4>. QED BY <1>3, <1>4, <3>1, <3>2
    <3>. QED BY <2>1, <3>3
  <2>2. CASE x # c
    <3>1. x = d
      BY <1>8, <2>2
    <3>2. Back(x, i)' = e
      BY <1>7, <3>1 DEF Back
    <3>. QED BY <2>2, <3>2
  <2>. QED BY <2>1, <2>2
<1>10. bar[TEMPTY(i)] = Bar(r, IF e = r THEN 2 ELSE 1, 0, 2)
  <2>1. bar[TEMPTY(i)] = Bar(r, IF Back(0, i) = Back(1, i) THEN 2 ELSE 1, 0, 2)
    BY DEF TmemInv
  <2>2. Back(0, i) = Back(1, i) <=> e = b
    BY <1>2
  <2>. QED BY <1>4, <2>1, <2>2
<1>11. /\ e = r => bar'[TEMPTY(i)] = Bar(r, 1, 0, 2)
       /\ e # r => bar'[TEMPTY(i)] = Bar(r + 1, 2, 0, 2)
  <2>1. r \in Int /\ 2 \in Int /\ 1 \in Int /\ 2 # 1 /\ 2 - 1 = 1
    BY <1>3
  <2>2. Arrive(Bar(r, 2, 0, 2)) = Bar(r, 1, 0, 2) /\ Arrive(Bar(r, 1, 0, 2)) = Bar(r + 1, 2, 0, 2)
    <3>1. Arrive(Bar(r, 2, 0, 2)) = Bar(r, 2 - 1, 0, 2)
      BY <2>1, BarArrives
    <3>. QED BY <2>1, <3>1, BarArrives
  <2>. QED BY <1>1, <1>10, <2>2
<1>12. Returned(i)' = IF e = r THEN r ELSE r + 1
  <2>1. Returned(i)' = Least(Back(0, i)', Back(1, i)')
    BY DEF Returned
  <2>2. \/ Back(0, i)' = r + 1 /\ Back(1, i)' = e
        \/ Back(0, i)' = e /\ Back(1, i)' = r + 1
    BY <1>2, <1>9, AgentNames
  <2>. HIDE DEF r, e
  <2>3. Least(r + 1, e) = e /\ Least(e, r + 1) = e
    BY <1>3, <1>4 DEF Least
  <2>. QED BY <1>4, <2>1, <2>2, <2>3
<1>13. Back(0, i)' = Back(1, i)' <=> e # r
  <2>1. \/ Back(0, i)' = r + 1 /\ Back(1, i)' = e
        \/ Back(0, i)' = e /\ Back(1, i)' = r + 1
    BY <1>2, <1>9, AgentNames
  <2>. HIDE DEF r, e
  <2>. QED BY <1>3, <1>4, <2>1
<1>14. bar'[TEMPTY(i)] = Bar(Returned(i)', IF Back(0, i)' = Back(1, i)' THEN 2 ELSE 1, 0, 2)
  BY <1>11, <1>12, <1>13
<1>15. Uses(mma(i))' <= Returned(i)' + 1 /\ (At(mma(i))' = "run" => Uses(mma(i))' <= Returned(i)')
  <2>1. Uses(mma(i)) <= r + 1 /\ (At(mma(i)) = "run" => Uses(mma(i)) <= r)
    BY DEF TmemInv
  <2>. HIDE DEF r, e
  <2>. QED BY <1>3, <1>7, <1>12, <2>1 DEF u
<1>16. Complete(i)' = Complete(i)
  BY <1>1, <1>7 DEF Complete
<1>17. \A x \in CTA : bar'[TFULL(x, i)] = Bar(Complete(i)', 1, 0, 1)
  BY <1>1, <1>16, BarNames, BarApart DEF OnlyBars, TmemInv
<1>18. \A x \in CTA : Uses(con(x, i))' <= Complete(i)' /\ Back(x, i)' \in Nat
  <2>1. \A x \in CTA : Uses(con(x, i))' = Uses(con(x, i))
    BY <1>5, <1>7, <1>8
  <2>2. \A x \in CTA : Back(x, i)' \in Nat
    BY <1>3, <1>9
  <2>. QED BY <1>16, <2>1, <2>2 DEF TmemInv
<1>. QED BY <1>14, <1>15, <1>17, <1>18 DEF TmemOf

LEMMA TmemStep ==
  ASSUME PipelineTypes, WholeLaps, PosInv, LapsInv, RingInv, QueueInv, TmemInv, Step, UNCHANGED shape
  PROVE  TmemInv'
<1>. SUFFICES ASSUME NEW i \in Acc PROVE TmemOf(i)'
  BY DEF TmemInv, TmemOf
<1>1. TmemOf(i) /\ mma(i) \in Agent /\ \A c \in CTA : con(c, i) \in Agent
  BY AgentNames DEF TmemInv, TmemOf
<1>2. ASSUME NEW a \in Agent, \A x \in Agent \ {a} : agent'[x] = agent[x], queue'[i] = queue[i],
             NEW S, OnlyBars(S), TEMPTY(i) \notin S, \A c \in CTA : TFULL(c, i) \notin S,
             a # mma(i), \A c \in CTA : a # con(c, i)
      PROVE  TmemOf(i)'
  BY <1>1, <1>2, TmemBars, TmemOthers
<1>3. ASSUME NEW a \in Agent, Receive(a) PROVE TmemOf(i)'
  BY <1>3, TmemReceive
<1>4. ASSUME Publish PROVE TmemOf(i)'
  <2>1. /\ OnlyBars({P2C(c) : c \in CTA}) /\ UNCHANGED queue /\ tma(0) \in Agent
        /\ \A x \in Agent \ {tma(0)} : agent'[x] = agent[x]
    BY <1>4, PublishStep, AgentNames DEF Moves, Becomes
  <2>2. TEMPTY(i) \notin {P2C(c) : c \in CTA} /\ \A d \in CTA : TFULL(d, i) \notin {P2C(c) : c \in CTA}
    BY BarApart
  <2>. QED BY <1>2, <2>1, <2>2, Apart
<1>5. ASSUME NEW c \in CTA, TmaStage(c) PROVE TmemOf(i)'
  <2>1. /\ OnlyBars({FULL(St(tma(c)))}) /\ UNCHANGED queue /\ tma(c) \in Agent
        /\ \A x \in Agent \ {tma(c)} : agent'[x] = agent[x]
    BY <1>5, TmaStageStep, AgentNames DEF Moves, Turns, Becomes
  <2>2. TEMPTY(i) \notin {FULL(St(tma(c)))} /\ \A d \in CTA : TFULL(d, i) \notin {FULL(St(tma(c)))}
    BY BarApart
  <2>. QED BY <1>2, <2>1, <2>2, Apart
<1>6. ASSUME TmaExpect PROVE TmemOf(i)'
  <2>1. /\ OnlyBars({FULL(St(tma(0)))}) /\ UNCHANGED queue /\ tma(0) \in Agent
        /\ \A x \in Agent \ {tma(0)} : agent'[x] = agent[x]
    BY <1>6, TmaExpectStep, AgentNames DEF Turns, Becomes
  <2>2. TEMPTY(i) \notin {FULL(St(tma(0)))} /\ \A d \in CTA : TFULL(d, i) \notin {FULL(St(tma(0)))}
    BY BarApart
  <2>. QED BY <1>2, <2>1, <2>2, Apart
<1>7. ASSUME NEW t \in loading, Transfer(t) PROVE TmemOf(i)'
  <2>1. OnlyBars({FULL(t[2])}) /\ UNCHANGED <<agent, queue>>
    BY <1>7, TransferStep
  <2>2. TEMPTY(i) \notin {FULL(t[2])} /\ \A d \in CTA : TFULL(d, i) \notin {FULL(t[2])}
    BY BarApart
  <2>. QED BY <1>1, <2>1, <2>2, TmemBars, TmemOthers
<1>8. ASSUME NEW j \in Acc, MmaAcquire(j) PROVE TmemOf(i)'
  <2>1. CASE j = i
    BY <1>8, <2>1, TmemAcquire
  <2>2. CASE j # i
    <3>1. /\ UNCHANGED <<bar, queue>> /\ mma(j) \in Agent
          /\ \A x \in Agent \ {mma(j)} : agent'[x] = agent[x]
      BY <1>8, AcquireStep, AgentNames DEF Moves, Becomes
    <3>. QED BY <1>2, <2>2, <3>1, NoBar, Apart
  <2>. QED BY <2>1, <2>2
<1>9. ASSUME NEW j \in Acc, MmaStage(j) PROVE TmemOf(i)'
  <2>1. CASE j = i
    BY <1>9, <2>1, TmemTurn
  <2>2. CASE j # i
    <3>1. /\ UNCHANGED bar /\ mma(j) \in Agent /\ \A x \in Agent \ {mma(j)} : agent'[x] = agent[x]
      BY <1>9, MmaTurns, AgentNames DEF Turns, Becomes, MmaStage
    <3>2. queue'[i] = queue[i]
      BY <1>9, <2>2, QueueTurn
    <3>. QED BY <1>2, <2>2, <3>1, <3>2, NoBar, Apart
  <2>. QED BY <2>1, <2>2
<1>10. ASSUME NEW j \in Acc, TensorMma(j) \/ TensorCommit(j) PROVE TmemOf(i)'
  <2>1. CASE j = i
    BY <1>10, <2>1, TmemTensor
  <2>2. CASE j # i
    <3>1. UNCHANGED agent /\ queue[j] # <<>> /\ queue' = [queue EXCEPT ![j] = Tail(@)]
      BY <1>10, TensorMmaStep, CommitStep
    <3>2. queue'[i] = queue[i]
      BY <2>2, <3>1 DEF PipelineTypes
    <3>3. TmemBarsKept(i)
      <4>1. CASE TensorMma(j)
        BY <4>1, TensorMmaStep DEF TmemBarsKept
      <4>2. CASE TensorCommit(j) /\ Head(queue[j]).op = "free"
        <5>1. Head(queue[j]).stage \in Stage
          BY <3>1, <4>2, QueuePops
        <5>2. OnlyBars({EMPTY(c, Head(queue[j]).stage) : c \in CTA})
          BY <4>2, <5>1, CommitStep
        <5>3. \A b \in {EMPTY(c, Head(queue[j]).stage) : c \in CTA} : b[1] \notin {"tempty", "tfull"}
          BY BarKinds
        <5>. QED BY <5>2, <5>3, TmemOtherBars
      <4>3. CASE TensorCommit(j) /\ Head(queue[j]).op # "free"
        <5>1. OnlyBars({TFULL(c, j) : c \in CTA})
          BY <4>3, CommitStep
        <5>2. TEMPTY(i) \notin {TFULL(c, j) : c \in CTA} /\ \A d \in CTA : TFULL(d, i) \notin {TFULL(c, j) : c \in CTA}
          BY <2>2, BarApart
        <5>. QED BY <5>1, <5>2, TmemBars
      <4>. QED BY <1>10, <4>1, <4>2, <4>3
    <3>. QED BY <1>1, <3>1, <3>2, <3>3, TmemOthers
  <2>. QED BY <2>1, <2>2
<1>11. ASSUME NEW c \in CTA, NEW j \in Acc, ConsumerWait(c, j) PROVE TmemOf(i)'
  <2>1. CASE j = i
    BY <1>11, <2>1, TmemRead
  <2>2. CASE j # i
    <3>1. con(c, j) \in Agent /\ \A x \in Agent \ {con(c, j)} : agent'[x] = agent[x]
      BY <1>11, ReadAgent, AgentNames DEF Becomes
    <3>2. UNCHANGED <<bar, queue>>
      BY <1>11 DEF ConsumerWait
    <3>. QED BY <1>2, <2>2, <3>1, <3>2, NoBar, Apart
  <2>. QED BY <2>1, <2>2
<1>12. ASSUME NEW c \in CTA, NEW j \in Acc, ConsumerDone(c, j) PROVE TmemOf(i)'
  <2>1. CASE j = i
    BY <1>12, <2>1, TmemDone
  <2>2. CASE j # i
    <3>1. /\ con(c, j) \in Agent /\ \A x \in Agent \ {con(c, j)} : agent'[x] = agent[x]
          /\ OnlyBars({TEMPTY(j)}) /\ UNCHANGED queue
      BY <1>12, DoneStep, AgentNames DEF Moves, Becomes
    <3>2. TEMPTY(i) \notin {TEMPTY(j)} /\ \A d \in CTA : TFULL(d, i) \notin {TEMPTY(j)}
      BY <2>2, BarApart
    <3>. QED BY <1>2, <2>2, <3>1, <3>2, Apart
  <2>. QED BY <2>1, <2>2
<1>. QED BY StepCases, <1>3, <1>4, <1>5, <1>6, <1>7, <1>8, <1>9, <1>10, <1>11, <1>12

----------------------------------------------------------------------------
(* Where it all starts, and steps that change nothing.                       *)
LEMMA RingInit ==
  ASSUME Init, WholeLaps
  PROVE  RingInv /\ QueueInv /\ PosInv /\ LapsInv
<1>1. PipelineTypes /\ CTA = {0, 1} /\ Acc = {0, 1}
  BY TypesInit, AgentNames
<1>2. \A a \in Agent : Pos(a) = 0 /\ Laps(a) = 0 /\ Uses(a) = 0 /\ Got(a) = 0 /\ At(a) \in {"publish", "idle"}
  BY DEF Init, Pos, Laps, Uses, Got, At
<1>3. /\ PIPELINE_DEPTH \in Nat \ {0} /\ K_BLOCKS \in Nat \ {0} /\ LAPS \in Nat \ {0} /\ StageAt(0) = 0
      /\ \A s \in Stage : s \in Nat
  <2>1. shape \in Shapes /\ 0 \in Nat
    BY <1>1 DEF PipelineTypes
  <2>2. PIPELINE_DEPTH \in Nat \ {0} /\ K_BLOCKS \in Nat \ {0} /\ LAPS \in Nat \ {0}
    BY <2>1, Shaped, Whole
  <2>3. StageAt(0) = 0
    BY <2>1, NextStage
  <2>. QED BY <2>2, <2>3 DEF Stage
<1>4. \A a \in Agent : St(a) = 0 /\ \A s \in Stage : Fill(a, s) = 0
  BY <1>2, <1>3 DEF St, Fill
<1>5. /\ \A c \in CTA : \A s \in Stage : Sent(c, s) = 0 /\ Landings(c, s) = 0
      /\ loading = {}
  <2>1. loading = {}
    BY DEF Init
  <2>2. \A c, s : ~Flying(c, s)
    BY <2>1 DEF Flying
  <2>3. \A c \in CTA : \A s \in Stage : Sent(c, s) = 0
    <3>1. \A c \in CTA : tma(c) \in Agent /\ At(tma(c)) # "expect"
      BY <1>2, AgentNames
    <3>. QED BY <1>4, <3>1 DEF Sent
  <2>. QED BY <2>1, <2>2, <2>3 DEF Landings
<1>6. \A i \in Acc : /\ At(mma(i)) # "run" /\ Uses(mma(i)) = 0 /\ Laps(mma(i)) = 0 /\ mma(i) \in Agent /\ queue[i] = <<>>
  <2>1. \A i \in Acc : queue[i] = <<>>
    BY DEF Init
  <2>. QED BY <1>2, <2>1, AgentNames
<1>7. \A i \in Acc : Executed(i) = 2 * K_BLOCKS + 1 /\ High(i) = K_BLOCKS /\ Task(i) = 0 /\ Low(i) = K_BLOCKS
  <2>. TAKE i \in Acc
  <2>1. Executed(i) = 2 * K_BLOCKS + 1
    <3>1. Len(queue[i]) = 0
      BY <1>6
    <3>. QED BY <1>3, <1>6, <3>1 DEF Executed
  <2>2. High(i) = K_BLOCKS /\ Task(i) = 0
    BY <1>6 DEF High, Task
  <2>3. \A k \in Nat : (2 * k + 1) \div 2 = k
    OBVIOUS
  <2>4. Low(i) = K_BLOCKS
    BY <1>3, <2>1, <2>3 DEF Low
  <2>. QED BY <2>1, <2>2, <2>4
<1>8. \A k \in Nat : k .. k - 1 = {}
  OBVIOUS
<1>9. QueueInv
  <2>. SUFFICES ASSUME NEW i \in Acc
                PROVE  /\ Executed(i) \in Nat /\ (Task(i) = 0 => queue[i] = <<>>)
                       /\ \A k \in 1 .. Len(queue[i]) : queue[i][k] = OpAt(Executed(i) + k - 1)
                       /\ \A p \in Low(i) .. High(i) - 1 :
                            p = (Fill(mma(i), StageAt(p)) - 1 - Start(i)) * PIPELINE_DEPTH + StageAt(p)
    BY DEF QueueInv
  <2>1. Len(queue[i]) = 0 /\ 1 .. 0 = {}
    BY <1>6
  <2>2. Low(i) .. High(i) - 1 = {}
    BY <1>3, <1>7, <1>8
  <2>3. Executed(i) \in Nat
    BY <1>3, <1>7
  <2>. QED BY <1>6, <2>1, <2>2, <2>3
<1>10. \A i \in Acc : \A s \in Stage : Freeings(i, s) = 0
  <2>1. \A i \in Acc : Low(i) .. High(i) - 1 = {}
    BY <1>3, <1>7, <1>8
  <2>2. \A i \in Acc : \A s : ~Unfreed(i, s)
    BY <2>1 DEF Unfreed
  <2>. QED BY <1>4, <1>6, <2>2 DEF Freeings
<1>11. \A s \in Stage : bar[FULL(s)] = Bar(0, 1, 0, 1) /\ \A c \in CTA : bar[EMPTY(c, s)] = Bar(0, 2, 0, 2)
  <2>1. \A n : Armed(n) = Bar(0, n, 0, n)
    BY DEF Armed, Bar
  <2>2. \A b \in Barrier : bar[b] = Bar(0, Count(b), 0, Count(b))
    BY <2>1 DEF Init
  <2>3. \A s : Count(FULL(s)) = 1 /\ \A c : Count(EMPTY(c, s)) = 2
    BY BarKinds DEF Count
  <2>. QED BY <2>2, <2>3, BarNames
<1>12. ASSUME NEW s \in Stage PROVE FullInv(s) /\ EmptyInv(s)
  <2>1. Turn(s) = 0 /\ Free(s) = 0
    BY <1>1, <1>11, TurnOf DEF Turn, Free
  <2>2. Announced(s) = 0
    BY <1>1, <1>4, AgentNames DEF Announced
  <2>3. FullInv(s)
    <3>1. \A i \in Acc : Fill(mma(i), s) = 0
      BY <1>4, <1>6
    <3>2. Landings(0, s) = 0 /\ Landings(1, s) = 0
      BY <1>1, <1>5
    <3>. QED BY <1>5, <1>11, <2>1, <2>2, <3>1, <3>2 DEF FullInv
  <2>4. EmptyInv(s)
    <3>1. Freeings(0, s) = 0 /\ Freeings(1, s) = 0
      BY <1>1, <1>10
    <3>. QED BY <1>10, <1>11, <2>1, <3>1 DEF EmptyInv
  <2>. QED BY <2>3, <2>4
<1>13. RingInv
  BY <1>5, <1>12 DEF RingInv, CopiesInv
<1>14. PosInv
  <2>1. \A a \in Ring : a \in Agent
    BY RingMember
  <2>. QED BY <1>2, <2>1 DEF PosInv, Looping
<1>15. LapsInv
  <2>1. 0 * LAPS = 0
    BY <1>3
  <2>. QED BY <1>6, <2>1 DEF LapsInv
<1>. QED BY <1>9, <1>13, <1>14, <1>15

LEMMA TmemInit == ASSUME Init PROVE TmemInv
<1>. SUFFICES ASSUME NEW i \in Acc PROVE TmemOf(i)
  BY DEF TmemInv, TmemOf
<1>1. \A a \in Agent : Uses(a) = 0 /\ At(a) \in {"publish", "idle"}
  BY DEF Init, Uses, At
<1>2. Uses(mma(i)) = 0 /\ At(mma(i)) # "run" /\ queue[i] = <<>>
  <2>1. queue[i] = <<>>
    BY DEF Init
  <2>. QED BY <1>1, <2>1, AgentNames
<1>3. \A c \in CTA : Uses(con(c, i)) = 0 /\ Back(c, i) = 0
  <2>1. \A c \in CTA : Uses(con(c, i)) = 0 /\ At(con(c, i)) # "read"
    BY <1>1, AgentNames
  <2>. QED BY <2>1 DEF Back
<1>4. Complete(i) = 0
  BY <1>2 DEF Complete
<1>5. Back(0, i) = 0 /\ Back(1, i) = 0
  BY <1>3, AgentNames
<1>6. Returned(i) = 0
  BY <1>5 DEF Returned, Least
<1>7. bar[TEMPTY(i)] = Bar(0, 2, 0, 2) /\ \A c \in CTA : bar[TFULL(c, i)] = Bar(0, 1, 0, 1)
  <2>1. \A n : Armed(n) = Bar(0, n, 0, n)
    BY DEF Armed, Bar
  <2>2. \A b \in Barrier : bar[b] = Bar(0, Count(b), 0, Count(b))
    BY <2>1 DEF Init
  <2>3. Count(TEMPTY(i)) = 2 /\ \A c : Count(TFULL(c, i)) = 1
    BY BarKinds DEF Count
  <2>. QED BY <2>2, <2>3, BarNames
<1>. QED BY <1>2, <1>3, <1>4, <1>5, <1>6, <1>7 DEF TmemOf

LEMMA ControlInit == ASSUME Init, WholeLaps PROVE ControlInv
BY TypesInit, PacketInit, RingInit, TmemInit DEF ControlInv

LEMMA ControlStep ==
  ASSUME ControlInv, Step, UNCHANGED shape
  PROVE  ControlInv'
<1>1. PipelineTypes /\ PacketInv /\ WholeLaps /\ PosInv /\ LapsInv /\ RingInv /\ QueueInv /\ TmemInv
  BY DEF ControlInv
<1>2. PipelineTypes' /\ PacketInv' /\ WholeLaps'
  BY <1>1, TypesStep, PacketStep, Fixed
<1>3. PosInv' /\ LapsInv'
  BY <1>1, PosStep, LapsStep
<1>4. RingInv' /\ QueueInv' /\ TmemInv'
  BY <1>1, RingStep, QueueStep, TmemStep
<1>. QED BY <1>2, <1>3, <1>4 DEF ControlInv

LEMMA TypesStill == ASSUME PipelineTypes, UNCHANGED vars PROVE PipelineTypes'
<1>. UNCHANGED <<shape, bar, agent, packet, loading, smem, queue, acc>>
  BY DEF vars
<1>. QED BY Fixed DEF PipelineTypes

LEMMA PacketStill == ASSUME PacketInv, UNCHANGED vars PROVE PacketInv'
<1>1. UNCHANGED <<shape, bar, agent, packet>>
  BY DEF vars
<1>2. PacketBarsKept /\ \A a \in Agent : Got(a)' = Got(a) /\ At(a)' = At(a)
  BY <1>1, Same DEF PacketBarsKept
<1>3. At(tma(0))' = At(tma(0)) /\ \A a \in Agent : At(a)' \in PlacesOf(a)
  BY <1>2, AgentNames DEF PacketInv
<1>. QED BY <1>1, <1>2, <1>3, PacketKept

LEMMA ControlStill == ASSUME ControlInv, UNCHANGED vars PROVE ControlInv'
<1>1. PipelineTypes /\ PacketInv /\ WholeLaps /\ PosInv /\ LapsInv /\ RingInv /\ QueueInv /\ TmemInv
  BY DEF ControlInv
<1>2. UNCHANGED <<shape, bar, agent, packet, loading, smem, queue, acc>>
  BY DEF vars
<1>3. PipelineTypes' /\ PacketInv' /\ WholeLaps'
  BY <1>1, <1>2, TypesStill, PacketStill, Fixed
<1>4. PosInv' /\ LapsInv'
  <2>1. PosInv'
    BY <1>1, <1>2, PosUnmoved
  <2>2. \A i \in Acc : LapsOf(i)'
    BY <1>1, <1>2, LapsSame
  <2>. QED BY <2>1, <2>2 DEF LapsInv, LapsOf
<1>5. QueueInv'
  <2>1. \A i \in Acc : QueueOf(i)
    BY <1>1 DEF QueueInv, QueueOf
  <2>2. \A i \in Acc : QueueOf(i)'
    BY <1>1, <1>2, <2>1, QueueOthers
  <2>. QED BY <2>2 DEF QueueInv, QueueOf
<1>6. RingInv'
  <2>1. OnlyBars({})
    BY <1>1, <1>2, NoBar
  <2>2. \A c \in CTA : /\ Laps(tma(c))' = Laps(tma(c)) /\ Pos(tma(c))' = Pos(tma(c))
                       /\ At(tma(c))' = "expect" <=> At(tma(c)) = "expect"
    BY <1>2, Same
  <2>3. \A i \in Acc : \A s \in Stage : Fill(mma(i), s)' = Fill(mma(i), s) /\ Freeings(i, s)' = Freeings(i, s)
    BY <1>1, <1>2, QueueOthers
  <2>. QED BY <1>1, <1>2, <2>1, <2>2, <2>3, RingQuiet
<1>7. TmemInv'
  <2>1. \A i \in Acc : TmemOf(i) /\ TmemBarsKept(i)
    BY <1>1, <1>2 DEF TmemInv, TmemOf, TmemBarsKept
  <2>2. \A i \in Acc : TmemOf(i)'
    BY <1>2, <2>1, TmemOthers
  <2>. QED BY <2>2 DEF TmemInv, TmemOf
<1>. QED BY <1>3, <1>4, <1>5, <1>6, <1>7 DEF ControlInv

LEMMA Stutters == ASSUME [Next]_vars PROVE (Step /\ UNCHANGED shape) \/ UNCHANGED vars
BY DEF Next, Terminated

----------------------------------------------------------------------------
(* No waiter is ever lapped.                                                 *)
LEMMA LappedNever == ASSUME ControlInv PROVE NeverLapped
<1>1. PipelineTypes /\ PacketInv /\ RingInv /\ TmemInv
  BY DEF ControlInv
<1>. SUFFICES ASSUME NEW a \in Agent, NEW w \in Waits(a) PROVE Unmistaken(bar[w[1]], w[2])
  BY DEF NeverLapped
<1>2. /\ Has(agent[a], At(a), Pos(a), Laps(a), Uses(a), Got(a)) /\ Got(a) \in Nat
      /\ St(a) = StageOf(agent[a]) /\ At(a) \in PlacesOf(a) /\ Got(a) \in {packet.idx - 1, packet.idx}
      /\ packet.idx \in Nat
  BY <1>1, AgentTyped DEF PacketInv, PipelineTypes
<1>3. CASE At(a) = "publish"
  <2>1. w[1] = C2P /\ w[2] = packet.idx - 1
    BY <1>2, <1>3 DEF Waits, Has
  <2>2. bar[C2P].turn \in {packet.idx, packet.idx - 1}
    BY <1>1, TurnOf DEF PacketInv
  <2>. QED BY <1>2, <2>1, <2>2 DEF Unmistaken
<1>4. CASE At(a) = "idle"
  <2>1. w[1] = P2C(CtaOf(a)) /\ w[2] = Got(a) /\ CtaOf(a) \in CTA
    BY <1>2, <1>4, Ctas DEF Waits, Has
  <2>2. bar[P2C(CtaOf(a))].turn = packet.idx
    BY <1>1, <2>1, TurnOf DEF PacketInv
  <2>. QED BY <1>2, <2>1, <2>2 DEF Unmistaken
<1>5. CASE At(a) = "run" /\ a[1] = "tma"
  <2>1. PICK c \in CTA : a = tma(c)
    BY <1>5, KindOf
  <2>2. w[1] = EMPTY(c, St(a)) /\ w[2] = Laps(a) - 1 /\ St(a) \in Stage /\ Laps(a) \in Nat
    <3>1. a[2] = c
      BY <2>1, Kinds
    <3>2. w \in {<<EMPTY(a[2], StageOf(agent[a])), agent[a].laps - 1>>}
      BY <1>2, <1>5 DEF Waits, Has
    <3>. QED BY <1>1, <1>2, <3>1, <3>2, AgentTyped DEF Has
  <2>3. PICK s \in Stage : s = St(a)
    BY <2>2
  <2>4. Fill(a, s) = Laps(a) /\ Sent(c, s) = Laps(a)
    <3>1. Fill(a, s) = Laps(a)
      BY <2>2, <2>3 DEF Fill, Stage
    <3>. QED BY <1>5, <2>1, <2>2, <3>1 DEF Sent
  <2>5. bar[EMPTY(c, s)].turn = Free(s)
    <3>1. bar[EMPTY(c, s)] = Bar(Free(s), IF Freeings(0, s) = Freeings(1, s) THEN 2 ELSE 1, 0, 2)
      BY <1>1 DEF RingInv, EmptyInv
    <3>. QED BY <3>1, TurnOf
  <2>6. Free(s) \in {Laps(a) - 1, Laps(a)}
    <3>1. /\ Sent(c, s) \in {Turn(s), Turn(s) + 1} /\ Sent(c, s) <= Free(s) + 1 /\ Turn(s) \in Nat /\ Free(s) \in Nat
          /\ Fill(mma(0), s) \in {Turn(s) - 1, Turn(s)} /\ Freeings(0, s) <= Fill(mma(0), s)
      BY <1>1, FullNumbers, AgentNames
    <3>2. Freeings(0, s) \in {Free(s), Free(s) + 1}
      BY <1>1, AgentNames DEF RingInv, EmptyInv
    <3>. QED BY <2>2, <2>4, <3>1, <3>2
  <2>. QED BY <2>2, <2>3, <2>5, <2>6 DEF Unmistaken
<1>6. CASE At(a) = "run" /\ a[1] = "mma"
  <2>1. PICK i \in Acc : a = mma(i)
    BY <1>6, KindOf
  <2>2. w[1] = FULL(St(a)) /\ w[2] = Laps(a) /\ St(a) \in Stage /\ Laps(a) \in Nat
    <3>1. w \in {<<FULL(StageOf(agent[a])), agent[a].laps>>}
      BY <1>2, <1>6 DEF Waits, Has
    <3>. QED BY <1>1, <1>2, <3>1, AgentTyped DEF Has
  <2>3. PICK s \in Stage : s = St(a)
    BY <2>2
  <2>4. Fill(a, s) = Laps(a)
    BY <2>2, <2>3 DEF Fill, Stage
  <2>5. Fill(a, s) \in {Turn(s) - 1, Turn(s)} /\ Turn(s) \in Nat
    BY <1>1, <2>1, FullNumbers
  <2>. QED BY <2>2, <2>3, <2>4, <2>5 DEF Unmistaken, Turn
<1>7. CASE At(a) = "acquire"
  <2>1. PICK i \in Acc : a = mma(i)
    <3>1. \A c \in CTA : a # tma(c)
      <4>1. a # tma(0) /\ a # tma(1)
        BY <1>2, <1>7, Places
      <4>. QED BY <4>1, AgentNames
    <3>2. \A c \in CTA, i \in Acc : a # con(c, i)
      BY <1>2, <1>7, Places
    <3>3. a # <<"rest", 1>>
      BY <1>2, <1>7, Places
    <3>. QED BY Zenon, <3>1, <3>2, <3>3, AgentNames
  <2>2. w[1] = TEMPTY(i) /\ w[2] = Uses(a) - 1
    BY <1>2, <1>7, <2>1, Kinds DEF Waits, Has
  <2>3. bar[TEMPTY(i)].turn = Returned(i) /\ Uses(a) <= Returned(i) + 1
    <3>1. bar[TEMPTY(i)] = Bar(Returned(i), IF Back(0, i) = Back(1, i) THEN 2 ELSE 1, 0, 2)
      BY <1>1 DEF TmemInv
    <3>. QED BY <1>1, <2>1, <3>1, TurnOf DEF TmemInv
  <2>4. /\ Uses(a) \in Nat /\ Returned(i) \in Nat /\ Complete(i) \in Int /\ Complete(i) <= Uses(a)
        /\ Returned(i) <= Back(0, i) /\ Back(0, i) \in Nat /\ Uses(con(0, i)) \in Nat
        /\ Back(0, i) <= Uses(con(0, i)) /\ Uses(con(0, i)) <= Complete(i)
    BY <1>1, <2>1, TmemNumbers, AgentNames
  <2>5. Returned(i) \in {Uses(a) - 1, Uses(a)}
    BY <2>3, <2>4
  <2>. QED BY <2>2, <2>3, <2>4, <2>5 DEF Unmistaken
<1>8. CASE At(a) = "wait"
  <2>1. PICK c \in CTA, i \in Acc : a = con(c, i)
    <3>1. \A c \in CTA : a # tma(c)
      <4>1. a # tma(0) /\ a # tma(1)
        BY <1>2, <1>8, Places
      <4>. QED BY <4>1, AgentNames
    <3>2. \A i \in Acc : a # mma(i)
      BY <1>2, <1>8, Places
    <3>3. a # <<"rest", 1>>
      BY <1>2, <1>8, Places
    <3>. QED BY Zenon, <3>1, <3>2, <3>3, AgentNames
  <2>2. w[1] = TFULL(c, i) /\ w[2] = Uses(a)
    BY <1>2, <1>8, <2>1, Kinds DEF Waits, Has
  <2>. QED BY <1>1, <1>8, <2>1, <2>2, ConsumerPasses DEF Unmistaken
<1>9. CASE At(a) \notin {"publish", "idle", "run", "acquire", "wait"} \/ (At(a) = "run" /\ a[1] \notin {"tma", "mma"})
  BY <1>2, <1>9 DEF Waits, Has
<1>. QED BY <1>3, <1>4, <1>5, <1>6, <1>7, <1>8, <1>9

(* The theorem: in tasks that fill their laps, no barrier runs past a thread *)
(* that waits on it, whatever the depth of the ring, the K blocks of a task  *)
(* and the number of tasks, with copies and tensor-core work in flight.      *)
THEOREM WaitersKeepUp == Spec /\ WholeLaps => []NeverLapped
<1>1. Init /\ WholeLaps => ControlInv
  BY ControlInit
<1>2. ControlInv /\ [Next]_vars => ControlInv'
  BY ControlStep, ControlStill, Stutters
<1>3. ControlInv => NeverLapped
  BY LappedNever
<1>. QED BY <1>1, <1>2, <1>3, PTL DEF Spec

----------------------------------------------------------------------------
(* The parts of JobInv that are about one agent.                             *)
FirstOf(p, j) == (IF p \in {"expect", "run", "acquire"} THEN j - 1 ELSE j) * LAPS
JobOf(a, n, pk) ==
  /\ Working(a) => Job(a, n) >= 1 /\ Got(a) = pk[Job(a, n)]
  /\ a \in Ring => LapInv(a, n)
  /\ \A i \in Acc : a = mma(i) => Uses(a) = Job(a, n) - (IF At(a) \in {"acquire", "run"} THEN 1 ELSE 0)
  /\ \A c \in CTA, i \in Acc : a = con(c, i) => Uses(a) = Job(a, n) - (IF At(a) = "wait" THEN 1 ELSE 0)

LEMMA JobParts ==
  ASSUME NEW n, NEW pk, JobInv(n, pk)
  PROVE  /\ packet.type = "GEMM" => n >= 1 /\ pk[n] = packet.idx
         /\ \A a \in Agent : JobOf(a, n, pk)
<1>1. \A a \in Agent : Working(a) => Job(a, n) >= 1 /\ Got(a) = pk[Job(a, n)]
  BY DEF JobInv
<1>2. \A a \in Ring : LapInv(a, n)
  BY DEF JobInv
<1>3. \A a : \A i \in Acc : a = mma(i) => Uses(a) = Job(a, n) - (IF At(a) \in {"acquire", "run"} THEN 1 ELSE 0)
  BY DEF JobInv
<1>4. \A a : \A c \in CTA, i \in Acc : a = con(c, i) => Uses(a) = Job(a, n) - (IF At(a) = "wait" THEN 1 ELSE 0)
  BY DEF JobInv
<1>5. packet.type = "GEMM" => n >= 1 /\ pk[n] = packet.idx
  BY DEF JobInv
<1>. QED BY Zenon, <1>1, <1>2, <1>3, <1>4, <1>5 DEF JobOf

LEMMA JobCollects ==
  ASSUME NEW n, NEW pk, packet'.type = "GEMM" => n >= 1 /\ pk[n] = packet'.idx, \A a \in Agent : JobOf(a, n, pk)'
  PROVE  JobInv(n, pk)'
<1>1. \A a \in Agent : Working(a)' => Job(a, n)' >= 1 /\ Got(a)' = pk[Job(a, n)']
  BY DEF JobOf
<1>2. \A a \in Ring : LapInv(a, n)'
  BY RingMember DEF JobOf
<1>3. \A i \in Acc : Uses(mma(i))' = Job(mma(i), n)' - (IF At(mma(i))' \in {"acquire", "run"} THEN 1 ELSE 0)
  BY AgentNames DEF JobOf
<1>4. \A c \in CTA, i \in Acc : Uses(con(c, i))' = Job(con(c, i), n)' - (IF At(con(c, i))' = "wait" THEN 1 ELSE 0)
  BY AgentNames DEF JobOf
<1>. QED BY Zenon, <1>1, <1>2, <1>3, <1>4 DEF JobInv

(* What an agent has become, and of which task.                              *)
LEMMA JobIs ==
  ASSUME UNCHANGED shape, NEW a \in Agent, NEW n, NEW pk,
         NEW p, NEW k, NEW l, NEW s, NEW u, NEW g, NEW j,
         At(a)' = p, Pos(a)' = k, Laps(a)' = l, St(a)' = s, Uses(a)' = u, Got(a)' = g, Job(a, n)' = j,
         p \in {"expect", "run", "acquire", "wait", "read"} => j >= 1 /\ g = pk[j],
         a \in Ring => /\ k = (l - FirstOf(p, j)) * PIPELINE_DEPTH + s
                       /\ IF p \in {"expect", "run"} THEN FirstOf(p, j) <= l /\ l < FirstOf(p, j) + LAPS
                                                     ELSE l = FirstOf(p, j) /\ k = 0,
         \A i \in Acc : a = mma(i) => u = j - (IF p \in {"acquire", "run"} THEN 1 ELSE 0),
         \A c \in CTA, i \in Acc : a = con(c, i) => u = j - (IF p = "wait" THEN 1 ELSE 0)
  PROVE  JobOf(a, n, pk)'
<1>1. Working(a)' <=> p \in {"expect", "run", "acquire", "wait", "read"}
  BY DEF Working
<1>2. LAPS' = LAPS /\ PIPELINE_DEPTH' = PIPELINE_DEPTH
  BY Fixed
<1>3. First(a, n)' = FirstOf(p, j)
  BY <1>2 DEF First, FirstOf
<1>4. Looping(a)' <=> p \in {"expect", "run"}
  BY DEF Looping
<1>5. a \in Ring => LapInv(a, n)'
  BY Zenon, <1>2, <1>3, <1>4 DEF LapInv
<1>. QED BY Zenon, <1>1, <1>5 DEF JobOf

(* An agent that a step leaves alone.                                        *)
LEMMA JobKeeps ==
  ASSUME UNCHANGED shape, NEW a \in Agent, NEW n, NEW pk, NEW m, NEW qk, JobOf(a, n, pk), agent'[a] = agent[a],
         Job(a, m)' = Job(a, n), Working(a) => qk[Job(a, n)] = pk[Job(a, n)]
  PROVE  JobOf(a, m, qk)'
<1>1. At(a)' = At(a) /\ Pos(a)' = Pos(a) /\ Laps(a)' = Laps(a) /\ Uses(a)' = Uses(a) /\ Got(a)' = Got(a)
      /\ St(a)' = St(a)
  BY Same
<1>2. At(a) \in {"expect", "run", "acquire", "wait", "read"} => Job(a, n) >= 1 /\ Got(a) = qk[Job(a, n)]
  BY DEF JobOf, Working
<1>3. a \in Ring => /\ Pos(a) = (Laps(a) - FirstOf(At(a), Job(a, n))) * PIPELINE_DEPTH + St(a)
                    /\ IF At(a) \in {"expect", "run"}
                       THEN FirstOf(At(a), Job(a, n)) <= Laps(a) /\ Laps(a) < FirstOf(At(a), Job(a, n)) + LAPS
                       ELSE Laps(a) = FirstOf(At(a), Job(a, n)) /\ Pos(a) = 0
  BY Zenon DEF JobOf, LapInv, First, FirstOf, Looping
<1>4. /\ \A i \in Acc : a = mma(i) => Uses(a) = Job(a, n) - (IF At(a) \in {"acquire", "run"} THEN 1 ELSE 0)
      /\ \A c \in CTA, i \in Acc : a = con(c, i) => Uses(a) = Job(a, n) - (IF At(a) = "wait" THEN 1 ELSE 0)
  BY DEF JobOf
<1>5. PICK p, k, l, s, u, g, j :
        p = At(a) /\ k = Pos(a) /\ l = Laps(a) /\ s = St(a) /\ u = Uses(a) /\ g = Got(a) /\ j = Job(a, n)
  OBVIOUS
<1>6. At(a)' = p /\ Pos(a)' = k /\ Laps(a)' = l /\ St(a)' = s /\ Uses(a)' = u /\ Got(a)' = g /\ Job(a, m)' = j
  BY <1>1, <1>5
<1>7. p \in {"expect", "run", "acquire", "wait", "read"} => j >= 1 /\ g = qk[j]
  BY <1>2, <1>5
<1>8. a \in Ring => /\ k = (l - FirstOf(p, j)) * PIPELINE_DEPTH + s
                    /\ IF p \in {"expect", "run"} THEN FirstOf(p, j) <= l /\ l < FirstOf(p, j) + LAPS
                                                  ELSE l = FirstOf(p, j) /\ k = 0
  BY Zenon, <1>3, <1>5
<1>9. /\ \A i \in Acc : a = mma(i) => u = j - (IF p \in {"acquire", "run"} THEN 1 ELSE 0)
      /\ \A c \in CTA, i \in Acc : a = con(c, i) => u = j - (IF p = "wait" THEN 1 ELSE 0)
  BY Zenon, <1>4, <1>5
<1>. QED BY <1>6, <1>7, <1>8, <1>9, JobIs

(* Positions of one turn of the ring, in laps from the first of the task.    *)
LEMMA TurnLaps ==
  ASSUME NEW d \in Nat \ {0}, NEW n \in Nat \ {0}, NEW f \in Int, NEW l \in Int, NEW s \in 0 .. d - 1, NEW p \in Int,
         p = (l - f) * d + s, f <= l, l < f + n, p + 1 <= n * d, NEW m, NEW t,
         m = IF s = d - 1 THEN l + 1 ELSE l, t = IF s = d - 1 THEN 0 ELSE s + 1
  PROVE  /\ p + 1 = (m - f) * d + t /\ f <= m
         /\ p + 1 # n * d => m < f + n
         /\ p + 1 = n * d /\ s = d - 1 => m = f + n
<1>1. PICK q \in Int : q = l - f
  OBVIOUS
<1>2. q * d \in Int /\ (q + 1) * d = q * d + d /\ p = q * d + s
  BY <1>1
<1>3. CASE s = d - 1
  <2>1. m = l + 1 /\ t = 0 /\ m - f = q + 1
    BY <1>1, <1>3
  <2>2. p + 1 = (q + 1) * d
    BY <1>2, <1>3
  <2>3. q + 1 = n => p + 1 = n * d
    BY <2>2
  <2>4. p + 1 = n * d => q + 1 = n
    <3>1. \A x, y \in Int : \A z \in Nat \ {0} : x * z = y * z => x = y
      OBVIOUS
    <3>. QED BY <2>2, <3>1
  <2>5. (m - f) * d + t = (q + 1) * d
    <3>1. (q + 1) * d \in Int
      BY <1>2
    <3>2. (m - f) * d = (q + 1) * d
      BY <2>1
    <3>. QED BY <2>1, <3>1, <3>2
  <2>. QED BY <1>1, <1>3, <2>1, <2>2, <2>3, <2>4, <2>5
<1>4. CASE s # d - 1
  <2>1. m = l /\ t = s + 1 /\ m - f = q
    BY <1>1, <1>4
  <2>2. (m - f) * d = q * d
    BY <2>1
  <2>. QED BY <1>1, <1>2, <1>4, <2>1, <2>2
<1>. QED BY <1>3, <1>4

(* The steps of one agent within a task.                                     *)
LEMMA JobStays ==
  ASSUME UNCHANGED <<shape, packet>>, NEW a, NEW n, Got(a)' = Got(a)
  PROVE  Job(a, n)' = Job(a, n)
BY DEF Job

LEMMA JobTurns ==
  ASSUME PipelineTypes, WholeLaps, PosInv, UNCHANGED <<shape, packet>>, NEW n \in Nat, NEW pk, NEW a \in Ring,
         Turns(a), Looping(a), JobOf(a, n, pk), \A i \in Acc : a = mma(i) => At(a) = "run"
  PROVE  JobOf(a, n, pk)'
<1>1. a \in Agent
  BY RingMember
<1>2. PICK d, w, f, l, s, p, j, u, g :
        /\ d = PIPELINE_DEPTH /\ w = LAPS /\ f = First(a, n) /\ l = Laps(a) /\ s = St(a) /\ p = Pos(a)
        /\ j = Job(a, n) /\ u = Uses(a) /\ g = Got(a)
  OBVIOUS
<1>3. /\ d \in Nat \ {0} /\ w \in Nat \ {0} /\ l \in Nat /\ s \in 0 .. d - 1 /\ p \in Nat /\ u \in Nat /\ g \in Nat
      /\ w * d = K_BLOCKS
  BY <1>1, <1>2, Shaped, Whole, AgentTyped DEF PipelineTypes, Stage
<1>4. j \in Int
  BY <1>2 DEF Job
<1>5. f = FirstOf("run", j) /\ f = FirstOf("expect", j) /\ f = (j - 1) * w /\ \A q \in {"publish", "idle"} : FirstOf(q, j) = j * w
  BY <1>2 DEF First, FirstOf, Looping
<1>6. f \in Int /\ j * w = f + w
  BY <1>3, <1>4, <1>5
<1>7. p = (l - f) * d + s /\ f <= l /\ l < f + w
  BY Zenon, <1>2 DEF JobOf, LapInv
<1>8. PICK m, t : m = (IF s = d - 1 THEN l + 1 ELSE l) /\ t = IF s = d - 1 THEN 0 ELSE s + 1
  OBVIOUS
<1>9. Laps(a)' = m /\ St(a)' = t /\ Pos(a)' = (IF LastTurn(a) THEN 0 ELSE p + 1)
  BY <1>1, <1>2, <1>8, FillTurns DEF LapsOn
<1>10. LastTurn(a) <=> p + 1 = w * d
  BY <1>2 DEF LastTurn
<1>11. p + 1 <= w * d
  <2>1. p < K_BLOCKS
    BY <1>2 DEF PosInv
  <2>. QED BY <1>3, <2>1
<1>12. LastTurn(a) => s = d - 1
  BY <1>1, <1>2, LastStage
<1>13. /\ p + 1 = (m - f) * d + t /\ f <= m
       /\ p + 1 # w * d => m < f + w
       /\ p + 1 = w * d /\ s = d - 1 => m = f + w
  BY <1>3, <1>6, <1>7, <1>8, <1>11, TurnLaps
<1>14. /\ At(a)' = IF LastTurn(a) THEN FetchPlace(a) ELSE "run"
       /\ Uses(a)' = IF LastTurn(a) /\ a[1] = "mma" THEN u + 1 ELSE u
       /\ Got(a)' = g
  BY <1>2 DEF Turns, Becomes
<1>15. Job(a, n)' = j
  BY <1>2, <1>14, JobStays
<1>16. j >= 1 /\ g = pk[j] /\ \A i \in Acc : a = mma(i) => u = j - 1
  <2>1. Working(a)
    BY DEF Looping, Working
  <2>2. Job(a, n) >= 1 /\ Got(a) = pk[Job(a, n)]
    BY <2>1 DEF JobOf
  <2>3. \A i \in Acc : a = mma(i) => Uses(a) = Job(a, n) - 1
    BY DEF JobOf
  <2>. QED BY <1>2, <2>2, <2>3
<1>17. \A i, k \in Acc : \A c \in CTA : (a = mma(i) => a[1] = "mma") /\ a # con(c, k)
  BY Kinds, RingMember
<1>18. CASE LastTurn(a)
  <2>1. PICK q \in {"publish", "idle"} : q = FetchPlace(a)
    BY DEF FetchPlace
  <2>2. PICK v : v = IF a[1] = "mma" THEN u + 1 ELSE u
    OBVIOUS
  <2>3. At(a)' = q /\ Pos(a)' = 0 /\ Uses(a)' = v
    BY <1>9, <1>14, <1>18, <2>1, <2>2
  <2>4. t = 0 /\ m = f + w /\ m = FirstOf(q, j)
    <3>1. s = d - 1 /\ p + 1 = w * d
      BY <1>10, <1>12, <1>18
    <3>2. t = 0 /\ m = f + w
      BY <1>8, <1>13, <3>1
    <3>. QED BY <1>5, <1>6, <3>2
  <2>5. 0 = (m - FirstOf(q, j)) * PIPELINE_DEPTH + t
    <3>1. m \in Int /\ m - m = 0 /\ 0 * d = 0
      BY <1>3, <1>6, <2>4
    <3>. QED BY <1>2, <2>4, <3>1
  <2>6. \A i \in Acc : a = mma(i) => v = j - 0
    <3>1. SUFFICES ASSUME NEW i \in Acc, a = mma(i) PROVE v = j - 0
      OBVIOUS
    <3>2. a[1] = "mma"
      BY Zenon, <3>1, <1>17, AgentNames
    <3>3. u = j - 1 /\ v = u + 1
      BY <1>16, <2>2, <3>1, <3>2
    <3>. QED BY <1>3, <1>4, <3>3
  <2>7. /\ \A i \in Acc : a = mma(i) => v = j - (IF q \in {"acquire", "run"} THEN 1 ELSE 0)
        /\ \A c \in CTA, i \in Acc : a = con(c, i) => v = j - (IF q = "wait" THEN 1 ELSE 0)
    BY <1>17, <2>1, <2>6
  <2>. QED BY <1>1, <1>9, <1>14, <1>15, <2>3, <2>4, <2>5, <2>7, JobIs
<1>19. CASE ~LastTurn(a)
  <2>1. At(a)' = "run" /\ Pos(a)' = p + 1 /\ Uses(a)' = u
    BY <1>9, <1>14, <1>19
  <2>2. p + 1 = (m - FirstOf("run", j)) * PIPELINE_DEPTH + t
    BY <1>2, <1>5, <1>13
  <2>3. FirstOf("run", j) <= m /\ m < FirstOf("run", j) + LAPS
    BY <1>2, <1>5, <1>10, <1>13, <1>19
  <2>4. /\ \A i \in Acc : a = mma(i) => u = j - (IF "run" \in {"acquire", "run"} THEN 1 ELSE 0)
        /\ \A c \in CTA, i \in Acc : a = con(c, i) => u = j - (IF "run" = "wait" THEN 1 ELSE 0)
    BY <1>16, <1>17
  <2>. QED BY <1>1, <1>9, <1>14, <1>15, <1>16, <2>1, <2>2, <2>3, <2>4, JobIs
<1>. QED BY <1>18, <1>19

LEMMA JobHops ==
  ASSUME PipelineTypes, WholeLaps, UNCHANGED shape, NEW n, NEW pk, NEW m, NEW qk, NEW a \in Agent, JobOf(a, n, pk),
         ~Looping(a), NEW p, NEW u, NEW g, NEW j, Job(a, m)' = j,
         a \in Ring => Becomes(a, p, Pos(a), Laps(a), u, g) /\ FirstOf(p, j) = First(a, n) /\ First(a, n) \in Int,
         a \notin Ring => At(a)' = p /\ Uses(a)' = u /\ Got(a)' = g,
         p \in {"expect", "run", "acquire", "wait", "read"} => j >= 1 /\ g = qk[j],
         \A i \in Acc : a = mma(i) => u = j - (IF p \in {"acquire", "run"} THEN 1 ELSE 0),
         \A c \in CTA, i \in Acc : a = con(c, i) => u = j - (IF p = "wait" THEN 1 ELSE 0)
  PROVE  JobOf(a, m, qk)'
<1>1. At(a)' = p /\ Uses(a)' = u /\ Got(a)' = g
  BY DEF Becomes
<1>2. PICK k, l, s : k = Pos(a)' /\ l = Laps(a)' /\ s = St(a)'
  OBVIOUS
<1>3. ASSUME a \in Ring
      PROVE  /\ k = (l - FirstOf(p, j)) * PIPELINE_DEPTH + s
             /\ IF p \in {"expect", "run"} THEN FirstOf(p, j) <= l /\ l < FirstOf(p, j) + LAPS
                                           ELSE l = FirstOf(p, j) /\ k = 0
  <2>1. Pos(a)' = Pos(a) /\ Laps(a)' = Laps(a) /\ St(a)' = St(a)
    <3>1. Pos(a)' = Pos(a) /\ Laps(a)' = Laps(a)
      BY <1>3 DEF Becomes
    <3>2. St(a)' = St(a)
      BY <3>1, Fixed DEF St, StageAt
    <3>. QED BY <3>1, <3>2
  <2>2. k = Pos(a) /\ l = Laps(a) /\ s = St(a)
    BY <1>2, <2>1
  <2>3. /\ Pos(a) = (Laps(a) - First(a, n)) * PIPELINE_DEPTH + St(a)
        /\ Laps(a) = First(a, n) /\ Pos(a) = 0
    BY Zenon, <1>3 DEF JobOf, LapInv
  <2>4. LAPS \in Nat \ {0}
    BY Whole DEF PipelineTypes
  <2>5. PICK f \in Int : f = First(a, n)
    BY <1>3
  <2>6. f <= l /\ l < f + LAPS /\ l = f
    BY <2>2, <2>3, <2>4, <2>5
  <2>7. k = (l - f) * PIPELINE_DEPTH + s
    BY <2>2, <2>3, <2>5
  <2>8. FirstOf(p, j) = f
    BY <1>3, <2>5
  <2>. QED BY <2>2, <2>3, <2>6, <2>7, <2>8
<1>. QED BY <1>1, <1>2, <1>3, JobIs

(* A packet taken: the agent starts its next task, if it has a role in it.   *)
LEMMA JobReceives ==
  ASSUME PipelineTypes, PacketInv, WholeLaps, PosInv, UNCHANGED shape, NEW n \in Nat, NEW pk,
         packet.type = "GEMM" => n >= 1 /\ pk[n] = packet.idx, NEW a \in Agent, JobOf(a, n, pk), Receive(a)
  PROVE  JobOf(a, n, pk)'
<1>1. /\ At(a) = "idle" /\ packet' = packet /\ At(a)' = NextPlace(a) /\ Uses(a)' = Uses(a)
  BY ReceiveAgent, ReceiveStep DEF Becomes
<1>2. Got(a) = packet.idx - 1 /\ Got(a)' = packet.idx /\ packet.idx \in Nat /\ Got(a) \in Nat
  BY PacketReceive, AgentTyped DEF PipelineTypes
<1>3. PICK p, u, g : p = NextPlace(a) /\ u = Uses(a) /\ g = packet.idx
  OBVIOUS
<1>4. Got(a) # packet.idx /\ Got(a) + 1 = packet.idx
  BY <1>2
<1>5. Job(a, n) = (IF packet.type = "GEMM" THEN n - 1 ELSE n) /\ Job(a, n)' = n
  BY <1>1, <1>2, <1>4 DEF Job
<1>6. a \in Ring => Becomes(a, p, Pos(a), Laps(a), u, g)
  BY <1>3, <1>4, ReceivesAt
<1>7. ~Looping(a)
  BY <1>1 DEF Looping
<1>8. First(a, n) = Job(a, n) * LAPS
  BY <1>1 DEF First
<1>9. LAPS \in Nat
  BY Whole DEF PipelineTypes
<1>10. First(a, n) \in Int
  BY <1>5, <1>8, <1>9
<1>11. /\ packet.type # "GEMM" => p \in {"left", "publish", "idle"}
       /\ packet.type = "GEMM" /\ a[1] = "tma" => p = "run"
       /\ packet.type = "GEMM" /\ a[1] = "mma" => p = "acquire"
       /\ packet.type = "GEMM" /\ a[1] = "con" => p = "wait"
       /\ packet.type = "GEMM" /\ a[1] \notin {"tma", "mma", "con"} => p \in {"publish", "idle"}
  BY <1>3 DEF NextPlace, Starts, RolePlace, FetchPlace
<1>12. /\ a \in Ring => a[1] \in {"tma", "mma"}
       /\ \A i \in Acc : a = mma(i) => a[1] = "mma"
       /\ \A c \in CTA, i \in Acc : a = con(c, i) => a[1] = "con"
  BY Kinds DEF Ring
<1>13. a \in Ring => FirstOf(p, n) = First(a, n)
  BY <1>5, <1>8, <1>11, <1>12 DEF FirstOf
<1>14. p \in {"expect", "run", "acquire", "wait", "read"} => n >= 1 /\ g = pk[n]
  BY <1>3, <1>11
<1>15. \A i \in Acc : a = mma(i) => u = n - (IF p \in {"acquire", "run"} THEN 1 ELSE 0)
  <2>1. SUFFICES ASSUME NEW i \in Acc, a = mma(i) PROVE u = n - (IF p \in {"acquire", "run"} THEN 1 ELSE 0)
    OBVIOUS
  <2>2. Uses(a) = Job(a, n) - (IF At(a) \in {"acquire", "run"} THEN 1 ELSE 0)
    BY Zenon, <2>1 DEF JobOf
  <2>3. u = Job(a, n)
    BY <1>1, <1>3, <1>5, <2>2
  <2>4. a[1] = "mma"
    BY Zenon, <1>12, <2>1
  <2>. QED BY <1>5, <1>11, <2>3, <2>4
<1>16. \A c \in CTA, i \in Acc : a = con(c, i) => u = n - (IF p = "wait" THEN 1 ELSE 0)
  <2>1. SUFFICES ASSUME NEW c \in CTA, NEW i \in Acc, a = con(c, i) PROVE u = n - (IF p = "wait" THEN 1 ELSE 0)
    OBVIOUS
  <2>2. Uses(a) = Job(a, n) - (IF At(a) = "wait" THEN 1 ELSE 0)
    BY Zenon, <2>1 DEF JobOf
  <2>3. u = Job(a, n)
    BY <1>1, <1>3, <1>5, <2>2
  <2>4. a[1] = "con"
    BY Zenon, <1>12, <2>1
  <2>. QED BY <1>5, <1>11, <2>3, <2>4
<1>. QED BY <1>1, <1>2, <1>3, <1>5, <1>6, <1>7, <1>10, <1>13, <1>14, <1>15, <1>16, JobHops

LEMMA JobAlone ==
  ASSUME UNCHANGED <<shape, packet>>, NEW n, NEW pk, JobInv(n, pk), NEW a,
         \A x \in Agent \ {a} : agent'[x] = agent[x], a \in Agent => JobOf(a, n, pk)'
  PROVE  JobInv(n, pk)'
<1>1. /\ packet.type = "GEMM" => n >= 1 /\ pk[n] = packet.idx
      /\ \A x \in Agent : JobOf(x, n, pk)
  BY JobParts
<1>2. \A x \in Agent \ {a} : JobOf(x, n, pk)'
  <2>1. SUFFICES ASSUME NEW x \in Agent \ {a} PROVE JobOf(x, n, pk)'
    OBVIOUS
  <2>2. agent'[x] = agent[x] /\ JobOf(x, n, pk)
    BY <1>1
  <2>3. Job(x, n)' = Job(x, n)
    BY <2>2, Same, JobStays
  <2>. QED BY <2>2, <2>3, JobKeeps
<1>. QED BY <1>1, <1>2, JobCollects

LEMMA JobUnmoved == ASSUME UNCHANGED <<shape, packet, agent>>, NEW n, NEW pk, JobInv(n, pk) PROVE JobInv(n, pk)'
<1>1. JobOf(tma(0), n, pk) /\ tma(0) \in Agent
  BY JobParts, AgentNames
<1>2. Job(tma(0), n)' = Job(tma(0), n)
  BY Same, JobStays
<1>3. JobOf(tma(0), n, pk)'
  BY <1>1, <1>2, JobKeeps
<1>. QED BY <1>3, JobAlone

(* A packet published: one more task, of that packet, or none.               *)
LEMMA JobPublish ==
  ASSUME PipelineTypes, PacketInv, WholeLaps, PosInv, UNCHANGED shape, NEW n \in Nat, NEW pk \in [Nat -> Nat],
         JobInv(n, pk), Publish
  PROVE  /\ \A a \in Agent : Job(a, n) = n
         /\ \E m \in Nat, qk \in [Nat -> Nat] : JobInv(m, qk)' /\ \A k \in Nat : k <= n => qk[k] = pk[k]
<1>1. /\ At(tma(0)) = "publish" /\ Moves(tma(0), "idle") /\ packet'.idx = packet.idx + 1
      /\ packet.idx \in Nat /\ Receivers = Agent
  BY PublishStep, PacketPublish DEF PipelineTypes
<1>2. \A a \in Agent : Got(a) = packet.idx
  BY <1>1 DEF Receivers
<1>3. \A a \in Agent : Job(a, n) = n
  BY <1>2 DEF Job
<1>4. PICK m \in Nat, qk \in [Nat -> Nat] :
        /\ m = IF packet'.type = "GEMM" THEN n + 1 ELSE n
        /\ qk = IF packet'.type = "GEMM" THEN [pk EXCEPT ![n + 1] = packet.idx + 1] ELSE pk
  <2>1. [pk EXCEPT ![n + 1] = packet.idx + 1] \in [Nat -> Nat] /\ n + 1 \in Nat
    BY <1>1
  <2>. QED BY <2>1
<1>5. \A k \in Nat : k <= n => qk[k] = pk[k]
  BY <1>4
<1>6. packet'.type = "GEMM" => m >= 1 /\ qk[m] = packet'.idx
  BY <1>1, <1>4
<1>7. \A a \in Agent : Got(a)' = packet.idx
  BY <1>1, <1>2, Same DEF Moves, Becomes
<1>8. \A a \in Agent : Job(a, m)' = n
  <2>1. SUFFICES ASSUME NEW a \in Agent PROVE Job(a, m)' = n
    OBVIOUS
  <2>2. Got(a)' = packet.idx /\ packet'.idx = packet.idx + 1 /\ packet.idx \in Nat
    BY <1>1, <1>7
  <2>3. Job(a, m)' = m - IF packet'.type = "GEMM" THEN 1 ELSE 0
    BY <2>2 DEF Job
  <2>. QED BY <1>4, <2>3
<1>9. /\ packet.type = "GEMM" => n >= 1 /\ pk[n] = packet.idx
      /\ \A x \in Agent : JobOf(x, n, pk)
  BY JobParts
<1>10. \A x \in Agent \ {tma(0)} : JobOf(x, m, qk)'
  <2>1. SUFFICES ASSUME NEW x \in Agent \ {tma(0)} PROVE JobOf(x, m, qk)'
    OBVIOUS
  <2>2. agent'[x] = agent[x] /\ JobOf(x, n, pk)
    BY <1>1, <1>9 DEF Moves, Becomes
  <2>3. Job(x, m)' = Job(x, n) /\ qk[Job(x, n)] = pk[Job(x, n)]
    BY <1>3, <1>5, <1>8
  <2>. QED BY <2>2, <2>3, JobKeeps
<1>11. JobOf(tma(0), m, qk)'
  <2>1. tma(0) \in Agent /\ tma(0) \in Ring /\ ~Looping(tma(0)) /\ JobOf(tma(0), n, pk)
    BY <1>1, <1>9, AgentNames, RingMember DEF Looping
  <2>2. LAPS \in Nat
    BY Whole DEF PipelineTypes
  <2>3. First(tma(0), n) = n * LAPS /\ FirstOf("idle", n) = n * LAPS /\ n * LAPS \in Int
    BY <1>1, <1>3, <2>1, <2>2 DEF First, FirstOf
  <2>4. PICK u, g : u = Uses(tma(0)) /\ g = Got(tma(0))
    OBVIOUS
  <2>5. Becomes(tma(0), "idle", Pos(tma(0)), Laps(tma(0)), u, g)
    BY <1>1, <2>4 DEF Moves
  <2>6. Job(tma(0), m)' = n
    BY <1>8, <2>1
  <2>7. \A c, i : tma(0) # mma(i) /\ tma(0) # con(c, i)
    BY Apart
  <2>8. PICK p : p = "idle"
    OBVIOUS
  <2>9. /\ p \notin {"expect", "run", "acquire", "wait", "read"}
        /\ Becomes(tma(0), p, Pos(tma(0)), Laps(tma(0)), u, g)
        /\ FirstOf(p, n) = First(tma(0), n) /\ First(tma(0), n) \in Int
    BY <2>3, <2>5, <2>8
  <2>. QED BY <2>1, <2>6, <2>7, <2>9, JobHops
<1>12. JobInv(m, qk)'
  BY <1>6, <1>10, <1>11, JobCollects
<1>. QED BY <1>3, <1>5, <1>12

LEMMA JobCopy ==
  ASSUME PipelineTypes, WholeLaps, PosInv, UNCHANGED shape, NEW n \in Nat, NEW pk, JobInv(n, pk),
         NEW c \in CTA, TmaStage(c)
  PROVE  JobInv(n, pk)'
<1>. DEFINE a == tma(c)
<1>1. /\ At(a) = "run" /\ (Moves(a, "expect") \/ Turns(a)) /\ packet' = packet
      /\ a \in Agent /\ a \in Ring /\ \A d \in CTA, i \in Acc : a # mma(i) /\ a # con(d, i)
  BY TmaStageStep, AgentNames, RingMember, Apart
<1>2. JobOf(a, n, pk)
  BY <1>1, JobParts
<1>3. CASE Turns(a)
  <2>1. Looping(a) /\ \A x \in Agent \ {a} : agent'[x] = agent[x]
    BY <1>1, <1>3 DEF Looping, Turns, Becomes
  <2>2. JobOf(a, n, pk)'
    BY <1>1, <1>2, <1>3, <2>1, JobTurns
  <2>. QED BY <1>1, <2>1, <2>2, JobAlone
<1>4. CASE Moves(a, "expect")
  <2>1. PICK k, l, s, u, g, j : k = Pos(a) /\ l = Laps(a) /\ s = St(a) /\ u = Uses(a) /\ g = Got(a) /\ j = Job(a, n)
    OBVIOUS
  <2>2. At(a)' = "expect" /\ Pos(a)' = k /\ Laps(a)' = l /\ Uses(a)' = u /\ Got(a)' = g
        /\ \A x \in Agent \ {a} : agent'[x] = agent[x]
    BY <1>4, <2>1 DEF Moves, Becomes
  <2>3. St(a)' = s
    BY <2>1, <2>2, Fixed DEF St, StageAt
  <2>4. Job(a, n)' = j
    BY <1>1, <2>1, <2>2, JobStays
  <2>5. j >= 1 /\ g = pk[j]
    BY Zenon, <1>1, <1>2, <2>1 DEF JobOf, Working
  <2>6. First(a, n) = FirstOf("expect", j)
    BY <1>1, <2>1 DEF First, FirstOf
  <2>7. Looping(a)
    BY <1>1 DEF Looping
  <2>8. k = (l - FirstOf("expect", j)) * PIPELINE_DEPTH + s /\ FirstOf("expect", j) <= l /\ l < FirstOf("expect", j) + LAPS
    BY Zenon, <1>1, <1>2, <2>1, <2>6, <2>7 DEF JobOf, LapInv
  <2>9. JobOf(a, n, pk)'
    BY <1>1, <2>2, <2>3, <2>4, <2>5, <2>8, JobIs
  <2>. QED BY <1>1, <2>2, <2>9, JobAlone
<1>. QED BY <1>1, <1>3, <1>4

LEMMA JobRound ==
  ASSUME PipelineTypes, WholeLaps, PosInv, UNCHANGED <<shape, packet>>, NEW n \in Nat, NEW pk, JobInv(n, pk),
         NEW a \in Ring, Turns(a), Looping(a), \A i \in Acc : a = mma(i) => At(a) = "run"
  PROVE  JobInv(n, pk)'
<1>1. JobOf(a, n, pk) /\ \A x \in Agent \ {a} : agent'[x] = agent[x]
  BY JobParts, RingMember DEF Turns, Becomes
<1>2. JobOf(a, n, pk)'
  BY <1>1, JobTurns
<1>. QED BY <1>1, <1>2, JobAlone

LEMMA JobAcquire ==
  ASSUME PipelineTypes, WholeLaps, PosInv, UNCHANGED shape, NEW n \in Nat, NEW pk, JobInv(n, pk),
         NEW i \in Acc, MmaAcquire(i)
  PROVE  JobInv(n, pk)'
<1>. DEFINE a == mma(i)
<1>1. /\ At(a) = "acquire" /\ Moves(a, "run") /\ packet' = packet /\ a \in Agent /\ a \in Ring
      /\ \A c, j : a # con(c, j)
  BY AcquireStep, AgentNames, RingMember, Apart
<1>2. JobOf(a, n, pk) /\ \A x \in Agent \ {a} : agent'[x] = agent[x]
  BY <1>1, JobParts DEF Moves, Becomes
<1>3. PICK p, u, g, j : p = "run" /\ u = Uses(a) /\ g = Got(a) /\ j = Job(a, n)
  OBVIOUS
<1>4. Becomes(a, p, Pos(a), Laps(a), u, g) /\ ~Looping(a)
  BY <1>1, <1>3 DEF Moves, Looping
<1>5. Job(a, n)' = j
  BY <1>1, <1>3, JobStays DEF Moves, Becomes
<1>6. j >= 1 /\ g = pk[j]
  BY Zenon, <1>1, <1>2, <1>3 DEF JobOf, Working
<1>7. First(a, n) = FirstOf(p, j)
  BY <1>1, <1>3 DEF First, FirstOf
<1>8. First(a, n) \in Int
  <2>1. LAPS \in Nat /\ j \in Int /\ First(a, n) = (j - 1) * LAPS
    BY Whole, <1>1, <1>3 DEF PipelineTypes, First, Job
  <2>. QED BY <2>1
<1>9. \A k \in Acc : a = mma(k) => u = j - (IF p \in {"acquire", "run"} THEN 1 ELSE 0)
  <2>1. Uses(a) = Job(a, n) - (IF At(a) \in {"acquire", "run"} THEN 1 ELSE 0)
    BY Zenon, <1>2 DEF JobOf
  <2>. QED BY <1>1, <1>3, <2>1
<1>10. JobOf(a, n, pk)'
  BY <1>1, <1>2, <1>4, <1>5, <1>6, <1>7, <1>8, <1>9, JobHops
<1>. QED BY <1>1, <1>2, <1>10, JobAlone

LEMMA JobReads ==
  ASSUME PipelineTypes, WholeLaps, PosInv, UNCHANGED shape, NEW n \in Nat, NEW pk, JobInv(n, pk),
         NEW c \in CTA, NEW i \in Acc, ConsumerWait(c, i) \/ ConsumerDone(c, i)
  PROVE  JobInv(n, pk)'
<1>. DEFINE a == con(c, i)
<1>1. /\ a \in Agent /\ a \notin Ring /\ \A j : a # mma(j)
      /\ \A d, j : a = con(d, j) => d = c /\ j = i
  BY AgentNames, RingMember, Apart
<1>2. JobOf(a, n, pk)
  BY <1>1, JobParts
<1>3. PICK u, g, j : u = Uses(a) /\ g = Got(a) /\ j = Job(a, n)
  OBVIOUS
<1>4. j \in Int /\ u \in Nat
  BY <1>1, <1>3, AgentTyped DEF Job
<1>5. Uses(a) = Job(a, n) - (IF At(a) = "wait" THEN 1 ELSE 0)
  BY Zenon, <1>2 DEF JobOf
<1>6. CASE ConsumerWait(c, i)
  <2>1. At(a) = "wait" /\ Becomes(a, "read", Pos(a), Laps(a), Uses(a) + 1, Got(a))
    BY <1>6, ReadAgent
  <2>2. packet' = packet
    BY <1>6 DEF ConsumerWait
  <2>3. PICK p, v : p = "read" /\ v = u + 1
    OBVIOUS
  <2>4. At(a)' = p /\ Uses(a)' = v /\ Got(a)' = g /\ ~Looping(a) /\ \A x \in Agent \ {a} : agent'[x] = agent[x]
    BY <1>3, <2>1, <2>3 DEF Becomes, Looping
  <2>5. Job(a, n)' = j
    BY <1>3, <2>1, <2>2, JobStays DEF Becomes
  <2>6. j >= 1 /\ g = pk[j]
    BY Zenon, <1>2, <1>3, <2>1 DEF JobOf, Working
  <2>7. v = j
    BY <1>3, <1>4, <1>5, <2>1, <2>3
  <2>8. \A d \in CTA, k \in Acc : a = con(d, k) => v = j - (IF p = "wait" THEN 1 ELSE 0)
    BY <1>4, <2>3, <2>7
  <2>9. JobOf(a, n, pk)'
    BY <1>1, <1>2, <2>4, <2>5, <2>6, <2>8, JobHops
  <2>. QED BY <1>1, <2>2, <2>4, <2>9, JobAlone
<1>7. CASE ConsumerDone(c, i)
  <2>1. At(a) = "read" /\ Moves(a, "idle") /\ packet' = packet
    BY <1>7, DoneStep
  <2>3. PICK p : p = "idle"
    OBVIOUS
  <2>4. At(a)' = p /\ Uses(a)' = u /\ Got(a)' = g /\ ~Looping(a) /\ \A x \in Agent \ {a} : agent'[x] = agent[x]
    BY <1>3, <2>1, <2>3 DEF Moves, Becomes, Looping
  <2>5. Job(a, n)' = j
    BY <1>3, <2>1, JobStays DEF Moves, Becomes
  <2>7. u = j
    BY <1>3, <1>4, <1>5, <2>1
  <2>8. \A d \in CTA, k \in Acc : a = con(d, k) => u = j - (IF p = "wait" THEN 1 ELSE 0)
    BY <1>4, <2>3, <2>7
  <2>9. JobOf(a, n, pk)'
    BY <1>1, <1>2, <2>3, <2>4, <2>5, <2>8, JobHops
  <2>. QED BY <1>1, <2>1, <2>4, <2>9, JobAlone
<1>. QED BY <1>6, <1>7

(* Any other step leaves the tasks as they are.                              *)
LEMMA JobStep ==
  ASSUME PipelineTypes, PacketInv, WholeLaps, PosInv, UNCHANGED shape, NEW n \in Nat, NEW pk, JobInv(n, pk),
         Step, ~Publish
  PROVE  JobInv(n, pk)'
<1>1. ASSUME NEW a \in Agent, Receive(a) PROVE JobInv(n, pk)'
  <2>1. /\ packet.type = "GEMM" => n >= 1 /\ pk[n] = packet.idx
        /\ JobOf(a, n, pk)
    BY JobParts
  <2>2. packet' = packet /\ \A x \in Agent \ {a} : agent'[x] = agent[x]
    BY <1>1, ReceiveStep, ReceiveAgent DEF Becomes
  <2>3. JobOf(a, n, pk)'
    BY <1>1, <2>1, JobReceives
  <2>. QED BY <2>2, <2>3, JobAlone
<1>2. ASSUME NEW c \in CTA, TmaStage(c) PROVE JobInv(n, pk)'
  BY <1>2, JobCopy
<1>3. ASSUME TmaExpect PROVE JobInv(n, pk)'
  <2>1. /\ At(tma(0)) = "expect" /\ Turns(tma(0)) /\ tma(0) \in Ring /\ packet' = packet
        /\ \A i : tma(0) # mma(i)
    BY <1>3, TmaExpectStep, RingMember, AgentNames, Apart
  <2>2. Looping(tma(0))
    BY <2>1 DEF Looping
  <2>. QED BY <2>1, <2>2, JobRound
<1>4. ASSUME NEW t \in loading, Transfer(t) PROVE JobInv(n, pk)'
  BY <1>4, TransferStep, JobUnmoved
<1>5. ASSUME NEW i \in Acc, MmaAcquire(i) PROVE JobInv(n, pk)'
  BY <1>5, JobAcquire
<1>6. ASSUME NEW i \in Acc, MmaStage(i) PROVE JobInv(n, pk)'
  <2>1. At(mma(i)) = "run" /\ Turns(mma(i)) /\ mma(i) \in Ring
    BY <1>6, MmaTurns, RingMember
  <2>2. packet' = packet
    BY <1>6 DEF MmaStage
  <2>3. Looping(mma(i))
    BY <2>1 DEF Looping
  <2>. QED BY <2>1, <2>2, <2>3, JobRound
<1>7. ASSUME NEW i \in Acc, TensorMma(i) \/ TensorCommit(i) PROVE JobInv(n, pk)'
  BY <1>7, TensorMmaStep, CommitStep, JobUnmoved
<1>8. ASSUME NEW c \in CTA, NEW i \in Acc, ConsumerWait(c, i) \/ ConsumerDone(c, i) PROVE JobInv(n, pk)'
  BY <1>8, JobReads
<1>. QED BY StepCases, <1>1, <1>2, <1>3, <1>4, <1>5, <1>6, <1>7, <1>8

----------------------------------------------------------------------------
(* How many laps a stage of a CTA has been filled: no more than the tasks    *)
(* its copying thread has taken.                                             *)
LEMMA LapsLess ==
  ASSUME NEW w \in Nat \ {0}, NEW n \in Nat, NEW m \in Nat, m < n * w
  PROVE  m \div w \in Nat /\ m \div w + 1 <= n
<1>1. PICK q \in Nat, r \in 0 .. w - 1 : q = m \div w /\ m = q * w + r
  BY DivNat
<1>2. q * w \in Nat /\ q * w < n * w
  BY <1>1
<1>3. ~(q >= n)
  <2>1. \A x, k \in Nat : (x + k) * w = x * w + k * w /\ k * w >= 0
    OBVIOUS
  <2>2. SUFFICES ASSUME q >= n PROVE FALSE
    OBVIOUS
  <2>3. PICK k \in Nat : q = n + k
    BY <2>2
  <2>. QED BY <1>2, <2>1, <2>3
<1>. QED BY <1>1, <1>3

LEMMA JobNat ==
  ASSUME PipelineTypes, NEW n \in Nat, NEW pk, JobInv(n, pk), NEW a \in Agent
  PROVE  Job(a, n) \in Nat /\ Job(a, n) <= n
BY JobParts DEF Job

LEMMA LapNumbers ==
  ASSUME PipelineTypes, WholeLaps, NEW n \in Nat, NEW pk, JobInv(n, pk), NEW a \in Ring
  PROVE  /\ First(a, n) \in Int /\ Pos(a) = (Laps(a) - First(a, n)) * PIPELINE_DEPTH + St(a)
         /\ IF Looping(a) THEN /\ First(a, n) = (Job(a, n) - 1) * LAPS /\ First(a, n) + LAPS = Job(a, n) * LAPS
                               /\ First(a, n) <= Laps(a) /\ Laps(a) < First(a, n) + LAPS
                               /\ Job(a, n) >= 1 /\ Got(a) = pk[Job(a, n)]
                          ELSE Laps(a) = First(a, n) /\ Pos(a) = 0 /\ St(a) = 0
         /\ At(a) # "acquire" /\ ~Looping(a) => First(a, n) = Job(a, n) * LAPS
<1>1. a \in Agent /\ LapInv(a, n) /\ JobOf(a, n, pk)
  BY RingMember, JobParts DEF JobOf
<1>2. PICK j \in Nat, w \in Nat \ {0} : j = Job(a, n) /\ w = LAPS
  BY <1>1, JobNat, Whole DEF PipelineTypes
<1>3. First(a, n) = IF At(a) \in {"expect", "run", "acquire"} THEN (j - 1) * w ELSE j * w
  BY <1>2 DEF First
<1>4. (j - 1) * w \in Int /\ j * w \in Int /\ (j - 1) * w + w = j * w
  BY <1>2
<1>5. Looping(a) => Job(a, n) >= 1 /\ Got(a) = pk[Job(a, n)]
  BY Zenon, <1>1 DEF JobOf, Working, Looping
<1>6. /\ Pos(a) = (Laps(a) - First(a, n)) * PIPELINE_DEPTH + St(a)
      /\ IF Looping(a) THEN First(a, n) <= Laps(a) /\ Laps(a) < First(a, n) + LAPS
                       ELSE Laps(a) = First(a, n) /\ Pos(a) = 0
  BY Zenon, <1>1 DEF LapInv
<1>7. Looping(a) <=> At(a) \in {"expect", "run"}
  BY DEF Looping
<1>8. Pos(a) = 0 => St(a) = 0
  BY NextStage DEF PipelineTypes, St
<1>9. First(a, n) \in Int
  BY <1>3, <1>4
<1>10. Looping(a) => First(a, n) = (Job(a, n) - 1) * LAPS /\ First(a, n) + LAPS = Job(a, n) * LAPS
  BY <1>2, <1>3, <1>4, <1>7
<1>11. At(a) # "acquire" /\ ~Looping(a) => First(a, n) = Job(a, n) * LAPS
  BY <1>2, <1>3, <1>7
<1>. QED BY Zenon, <1>5, <1>6, <1>8, <1>9, <1>10, <1>11

LEMMA SentBounded ==
  ASSUME PipelineTypes, PacketInv, WholeLaps, RingInv, NEW n \in Nat, NEW pk, JobInv(n, pk),
         NEW c \in CTA, NEW s \in Stage
  PROVE  /\ Sent(c, s) \in Nat /\ Sent(c, s) <= n * LAPS /\ Landings(c, s) \in Int /\ Landings(c, s) <= Sent(c, s)
         /\ Flying(c, s) => Sent(c, s) >= 1
<1>. DEFINE a == tma(c)
<1>1. a \in Ring /\ a \in Agent /\ At(a) # "acquire"
  <2>1. At(a) \in PlacesOf(a)
    BY AgentNames DEF PacketInv
  <2>. QED BY <2>1, AgentNames, RingMember, Places
<1>2. /\ Sent(c, s) \in Nat /\ Landings(c, s) \in Int /\ Landings(c, s) <= Sent(c, s)
      /\ Flying(c, s) => Sent(c, s) >= 1
  BY RingNumbers, FullNumbers
<1>3. Sent(c, s) <= Job(a, n) * LAPS
  <2>1. PICK j \in Nat, w \in Nat \ {0}, l \in Nat, z \in Nat, f \in Int :
          j = Job(a, n) /\ w = LAPS /\ l = Laps(a) /\ z = St(a) /\ f = First(a, n) /\ s \in Nat
    <3>1. Job(a, n) \in Nat /\ LAPS \in Nat \ {0} /\ Laps(a) \in Nat
      BY <1>1, JobNat, Whole, AgentTyped DEF PipelineTypes
    <3>2. St(a) \in Nat /\ s \in Nat
      BY <1>1, AgentTyped, Shaped DEF PipelineTypes, Stage
    <3>3. First(a, n) \in Int
      BY <1>1, LapNumbers
    <3>. QED BY <3>1, <3>2, <3>3
  <2>2. j * w \in Nat
    BY <2>1
  <2>3. Sent(c, s) = (l + (IF s < z THEN 1 ELSE 0)) + (IF At(a) = "expect" /\ z = s THEN 1 ELSE 0)
    BY <2>1 DEF Sent, Fill
  <2>4. CASE Looping(a)
    <3>1. f + w = j * w /\ l < f + w
      BY Zenon, <1>1, <2>1, <2>4, LapNumbers
    <3>2. Sent(c, s) <= l + 1
      BY <2>1, <2>3
    <3>3. Sent(c, s) <= j * w
      BY <1>2, <2>1, <2>2, <3>1, <3>2
    <3>. QED BY <2>1, <3>3
  <2>5. CASE ~Looping(a)
    <3>1. l = f /\ z = 0 /\ f = j * w
      BY Zenon, <1>1, <2>1, <2>5, LapNumbers
    <3>2. At(a) # "expect"
      BY <2>5 DEF Looping
    <3>3. Sent(c, s) = l
      BY <2>1, <2>3, <3>1, <3>2
    <3>4. Sent(c, s) <= j * w
      BY <2>2, <3>1, <3>3
    <3>. QED BY <2>1, <3>4
  <2>. QED BY <2>4, <2>5
<1>4. Job(a, n) * LAPS <= n * LAPS /\ Job(a, n) * LAPS \in Nat /\ n * LAPS \in Nat
  <2>1. PICK j \in Nat, w \in Nat, k \in Nat : j = Job(a, n) /\ w = LAPS /\ n = j + k
    <3>1. Job(a, n) \in Nat /\ Job(a, n) <= n /\ LAPS \in Nat
      BY <1>1, JobNat, Whole DEF PipelineTypes
    <3>2. \E k \in Nat : n = Job(a, n) + k
      <4>1. n - Job(a, n) \in Nat /\ n = Job(a, n) + (n - Job(a, n))
        BY <3>1
      <4>. QED BY <4>1
    <3>. QED BY <3>1, <3>2
  <2>2. \A x, y \in Nat : (x + y) * w = x * w + y * w /\ y * w \in Nat /\ x * w \in Nat
    OBVIOUS
  <2>. QED BY <2>1, <2>2
<1>. QED BY <1>2, <1>3, <1>4

(* What the copies in flight and the stages hold after a step.               *)
LEMMA BlocksAre ==
  ASSUME UNCHANGED shape, NEW pk,
         \A x \in loading' : \A m : Sent(x[1], x[2])' = m => x[3] = BlockOf(pk, m - 1, x[2]),
         \A c \in CTA : \A s \in Stage : \A m :
           Landings(c, s)' = m /\ m >= 1 => smem'[c][s] = BlockOf(pk, m - 1, s)
  PROVE  BlocksInv(pk)'
<1>1. LAPS' = LAPS /\ PIPELINE_DEPTH' = PIPELINE_DEPTH /\ Stage' = Stage
  BY Fixed
<1>2. \A x \in loading' : x[3] = BlockOf(pk, Sent(x[1], x[2]) - 1, x[2])'
  BY <1>1 DEF BlockOf
<1>3. \A c \in CTA, s \in Stage : Landings(c, s)' >= 1 => smem'[c][s] = BlockOf(pk, Landings(c, s) - 1, s)'
  BY <1>1 DEF BlockOf
<1>. QED BY <1>1, <1>2, <1>3 DEF BlocksInv

LEMMA BlocksSame ==
  ASSUME PipelineTypes, UNCHANGED <<shape, loading, smem>>, NEW pk, BlocksInv(pk),
         \A c \in CTA : \A s \in Stage : Sent(c, s)' = Sent(c, s) /\ Landings(c, s)' = Landings(c, s)
  PROVE  BlocksInv(pk)'
<1>1. \A x \in loading : x[1] \in CTA /\ x[2] \in Stage
  BY DEF PipelineTypes
<1>2. \A x \in loading' : \A m : Sent(x[1], x[2])' = m => x[3] = BlockOf(pk, m - 1, x[2])
  BY <1>1 DEF BlocksInv
<1>3. \A c \in CTA : \A s \in Stage : \A m : Landings(c, s)' = m /\ m >= 1 => smem'[c][s] = BlockOf(pk, m - 1, s)
  BY DEF BlocksInv
<1>. QED BY <1>2, <1>3, BlocksAre

LEMMA BlockAgrees ==
  ASSUME PipelineTypes, WholeLaps, NEW n \in Nat, NEW pk, NEW qk, \A k \in Nat : k <= n => qk[k] = pk[k],
         NEW m \in Int, m >= 1, m <= n * LAPS
  PROVE  \A s : BlockOf(qk, m - 1, s) = BlockOf(pk, m - 1, s)
<1>1. PICK w \in Nat \ {0} : w = LAPS
  BY Whole DEF PipelineTypes
<1>2. n * w \in Nat /\ m - 1 \in Nat
  BY <1>1
<1>3. m - 1 < n * w
  BY <1>1, <1>2
<1>4. (m - 1) \div w \in Nat /\ (m - 1) \div w + 1 <= n
  BY <1>2, <1>3, LapsLess
<1>5. (m - 1) \div LAPS + 1 \in Nat /\ (m - 1) \div LAPS + 1 <= n
  BY <1>1, <1>4
<1>. QED BY <1>5 DEF BlockOf

LEMMA BlocksPublish ==
  ASSUME PipelineTypes, PacketInv, WholeLaps, RingInv, UNCHANGED <<shape, loading, smem>>,
         NEW n \in Nat, NEW pk, JobInv(n, pk), BlocksInv(pk), NEW qk, \A k \in Nat : k <= n => qk[k] = pk[k],
         \A c \in CTA : \A s \in Stage : Sent(c, s)' = Sent(c, s) /\ Landings(c, s)' = Landings(c, s)
  PROVE  BlocksInv(qk)'
<1>1. \A x \in loading : x[1] \in CTA /\ x[2] \in Stage /\ Flying(x[1], x[2])
  BY DEF PipelineTypes, Flying
<1>2. \A x \in loading : x[3] = BlockOf(pk, Sent(x[1], x[2]) - 1, x[2])
  BY DEF BlocksInv
<1>3. \A c \in CTA, s \in Stage : Landings(c, s) >= 1 => smem[c][s] = BlockOf(pk, Landings(c, s) - 1, s)
  BY DEF BlocksInv
<1>4. \A c \in CTA : \A s \in Stage : \A m : m \in Int /\ m >= 1 /\ m <= Sent(c, s) =>
         BlockOf(qk, m - 1, s) = BlockOf(pk, m - 1, s)
  <2>1. SUFFICES ASSUME NEW c \in CTA, NEW s \in Stage, NEW m \in Int, m >= 1, m <= Sent(c, s)
                 PROVE  BlockOf(qk, m - 1, s) = BlockOf(pk, m - 1, s)
    OBVIOUS
  <2>2. Sent(c, s) \in Nat /\ Sent(c, s) <= n * LAPS /\ LAPS \in Nat
    BY SentBounded, Whole DEF PipelineTypes
  <2>3. n * LAPS \in Nat
    BY <2>2
  <2>4. m <= n * LAPS
    BY <2>1, <2>2, <2>3
  <2>. QED BY <2>1, <2>4, BlockAgrees
<1>5. \A x \in loading' : \A m : Sent(x[1], x[2])' = m => x[3] = BlockOf(qk, m - 1, x[2])
  <2>1. SUFFICES ASSUME NEW x \in loading, NEW m, Sent(x[1], x[2]) = m PROVE x[3] = BlockOf(qk, m - 1, x[2])
    BY <1>1
  <2>2. m \in Nat /\ m >= 1 /\ m <= Sent(x[1], x[2])
    BY <1>1, <2>1, SentBounded
  <2>. QED BY <1>1, <1>2, <1>4, <2>1, <2>2
<1>6. \A c \in CTA : \A s \in Stage : \A m : Landings(c, s)' = m /\ m >= 1 => smem'[c][s] = BlockOf(qk, m - 1, s)
  <2>1. SUFFICES ASSUME NEW c \in CTA, NEW s \in Stage, NEW m, Landings(c, s) = m, m >= 1
                 PROVE  smem[c][s] = BlockOf(qk, m - 1, s)
    OBVIOUS
  <2>2. m \in Int /\ m <= Sent(c, s)
    BY <2>1, SentBounded
  <2>. QED BY <1>3, <1>4, <2>1, <2>2
<1>. QED BY <1>5, <1>6, BlocksAre

(* The block of a stage in a lap of the j-th task.                           *)
LEMMA LapBlock ==
  ASSUME PipelineTypes, WholeLaps, NEW j \in Nat, j >= 1, NEW l \in Nat, NEW f \in Int,
         f = (j - 1) * LAPS, f <= l, l < f + LAPS, NEW pk
  PROVE  \A s : BlockOf(pk, l, s) = <<pk[j], (l - f) * PIPELINE_DEPTH + s>>
<1>1. PICK w \in Nat \ {0} : w = LAPS
  BY Whole DEF PipelineTypes
<1>2. PICK r \in 0 .. w - 1 : r = l - f
  <2>1. l - f \in 0 .. w - 1
    BY <1>1
  <2>. QED BY <2>1
<1>3. PICK q \in Nat : q = j - 1
  <2>1. j - 1 \in Nat
    OBVIOUS
  <2>. QED BY <2>1
<1>4. l = q * w + r
  BY <1>1, <1>2, <1>3
<1>5. l \div w = q /\ l % w = r
  BY <1>4, DivOf
<1>6. l \div LAPS + 1 = j /\ l % LAPS = l - f
  BY <1>1, <1>2, <1>3, <1>5
<1>. QED BY <1>6 DEF BlockOf

LEMMA BlocksCopy ==
  ASSUME PipelineTypes, WholeLaps, PosInv, RingInv, UNCHANGED shape, NEW n \in Nat, NEW pk,
         JobInv(n, pk), BlocksInv(pk), NEW c \in CTA, TmaStage(c)
  PROVE  BlocksInv(pk)'
<1>. DEFINE a == tma(c)
<1>1. a \in Ring /\ a \in Agent /\ At(a) = "run" /\ Looping(a) /\ UNCHANGED smem
  <2>1. At(a) = "run" /\ UNCHANGED smem
    BY TmaStageStep
  <2>. QED BY <2>1, RingMember, AgentNames DEF Looping
<1>2. /\ ~Flying(c, St(a))
      /\ \A s \in Stage : Sent(c, s)' = IF s = St(a) THEN Laps(a) + 1 ELSE Sent(c, s)
      /\ loading' = loading \cup {<<c, St(a), <<Got(a), Pos(a)>>>>}
      /\ \A d \in CTA : \A s \in Stage : Landings(d, s)' = Landings(d, s)
      /\ \A d \in CTA : \A s \in Stage : d # c \/ s # St(a) => Sent(d, s)' = Sent(d, s)
  BY RingCopy
<1>3. PICK z \in Stage, l \in Nat, j \in Nat, f \in Int :
        z = St(a) /\ l = Laps(a) /\ j = Job(a, n) /\ f = First(a, n)
  <2>1. St(a) \in Stage /\ Laps(a) \in Nat
    BY <1>1, AgentTyped
  <2>2. Job(a, n) \in Nat
    BY <1>1, JobNat
  <2>3. First(a, n) \in Int
    BY <1>1, LapNumbers
  <2>. QED BY <2>1, <2>2, <2>3
<1>4. <<Got(a), Pos(a)>> = BlockOf(pk, l, z)
  <2>1. /\ Pos(a) = (Laps(a) - First(a, n)) * PIPELINE_DEPTH + St(a)
        /\ First(a, n) = (Job(a, n) - 1) * LAPS /\ First(a, n) <= Laps(a) /\ Laps(a) < First(a, n) + LAPS
        /\ Job(a, n) >= 1 /\ Got(a) = pk[Job(a, n)]
    BY Zenon, <1>1, LapNumbers
  <2>2. Pos(a) = (l - f) * PIPELINE_DEPTH + z /\ Got(a) = pk[j]
    BY Zenon, <1>3, <2>1
  <2>3. f = (j - 1) * LAPS /\ f <= l /\ l < f + LAPS /\ j >= 1
    BY <1>3, <2>1
  <2>4. BlockOf(pk, l, z) = <<pk[j], (l - f) * PIPELINE_DEPTH + z>>
    BY <2>3, LapBlock
  <2>. QED BY <2>2, <2>4
<1>5. \A x \in loading' : \A m : Sent(x[1], x[2])' = m => x[3] = BlockOf(pk, m - 1, x[2])
  <2>1. SUFFICES ASSUME NEW x \in loading', NEW m, Sent(x[1], x[2])' = m PROVE x[3] = BlockOf(pk, m - 1, x[2])
    OBVIOUS
  <2>2. CASE x \in loading
    <3>1. x[1] \in CTA /\ x[2] \in Stage /\ Flying(x[1], x[2])
      BY <2>2 DEF PipelineTypes, Flying
    <3>2. x[1] # c \/ x[2] # St(a)
      BY <1>2, <3>1
    <3>3. m = Sent(x[1], x[2])
      BY <1>2, <2>1, <3>1, <3>2
    <3>. QED BY <2>2, <3>3 DEF BlocksInv
  <2>3. CASE x = <<c, St(a), <<Got(a), Pos(a)>>>>
    <3>1. x[1] = c /\ x[2] = z /\ x[3] = BlockOf(pk, l, z)
      BY <1>3, <1>4, <2>3
    <3>2. Sent(c, z)' = l + 1
      BY <1>2, <1>3
    <3>3. m = l + 1
      BY <2>1, <3>1, <3>2
    <3>4. m - 1 = l
      BY <3>3
    <3>. QED BY Zenon, <3>1, <3>4
  <2>. QED BY <1>2, <2>2, <2>3
<1>6. \A d \in CTA : \A s \in Stage : \A m : Landings(d, s)' = m /\ m >= 1 => smem'[d][s] = BlockOf(pk, m - 1, s)
  BY <1>1, <1>2 DEF BlocksInv
<1>. QED BY <1>5, <1>6, BlocksAre

LEMMA BlocksLand ==
  ASSUME PipelineTypes, RingInv, UNCHANGED shape, NEW pk, BlocksInv(pk), NEW t \in loading, Transfer(t)
  PROVE  BlocksInv(pk)'
<1>1. /\ t[1] \in CTA /\ t[2] \in Stage /\ loading' = loading \ {t}
      /\ smem' = [smem EXCEPT ![t[1]][t[2]] = t[3]]
  BY TransferStep
<1>2. /\ Landings(t[1], t[2]) = Sent(t[1], t[2]) - 1
      /\ \A d \in CTA : \A s \in Stage :
           /\ Sent(d, s)' = Sent(d, s)
           /\ Landings(d, s)' = IF d = t[1] /\ s = t[2] THEN Landings(d, s) + 1 ELSE Landings(d, s)
  BY RingLand
<1>3. PICK c \in CTA, z \in Stage : c = t[1] /\ z = t[2]
  BY <1>1
<1>4. \A d \in CTA : \A s \in Stage : smem'[d][s] = IF d = c /\ s = z THEN t[3] ELSE smem[d][s]
  <2>1. smem = [d \in CTA |-> [s \in Stage |-> smem[d][s]]]
    BY DEF PipelineTypes
  <2>2. smem' = [smem EXCEPT ![c][z] = t[3]]
    BY <1>1, <1>3
  <2>. QED BY <2>1, <2>2
<1>5. t[3] = BlockOf(pk, Sent(c, z) - 1, z)
  BY <1>3 DEF BlocksInv
<1>6. Sent(c, z) \in Nat
  BY RingNumbers
<1>7. \A x \in loading' : \A m : Sent(x[1], x[2])' = m => x[3] = BlockOf(pk, m - 1, x[2])
  <2>1. \A x \in loading : x[1] \in CTA /\ x[2] \in Stage
    BY DEF PipelineTypes
  <2>. QED BY <1>1, <1>2, <2>1 DEF BlocksInv
<1>8. \A d \in CTA : \A s \in Stage : \A m : Landings(d, s)' = m /\ m >= 1 => smem'[d][s] = BlockOf(pk, m - 1, s)
  <2>1. SUFFICES ASSUME NEW d \in CTA, NEW s \in Stage, NEW m, Landings(d, s)' = m, m >= 1
                 PROVE  smem'[d][s] = BlockOf(pk, m - 1, s)
    OBVIOUS
  <2>2. CASE d = c /\ s = z
    <3>1. Landings(c, z) = Sent(c, z) - 1 /\ Landings(c, z)' = Landings(c, z) + 1
      BY <1>2, <1>3
    <3>2. m = Landings(c, z) + 1
      BY <2>1, <2>2, <3>1
    <3>3. m = Sent(c, z)
      BY <1>6, <3>1, <3>2
    <3>. QED BY <1>4, <1>5, <2>2, <3>3
  <2>3. CASE ~(d = c /\ s = z)
    <3>1. Landings(d, s)' = Landings(d, s) /\ smem'[d][s] = smem[d][s]
      BY <1>2, <1>3, <1>4, <2>3
    <3>. QED BY <2>1, <3>1 DEF BlocksInv
  <2>. QED BY <2>2, <2>3
<1>. QED BY <1>7, <1>8, BlocksAre

(* Every other step leaves the counts of copies as they are.                 *)
CopiesKept ==
  /\ UNCHANGED <<loading, smem>>
  /\ \A c \in CTA : \A s \in Stage : Sent(c, s)' = Sent(c, s) /\ Landings(c, s)' = Landings(c, s)

LEMMA CopiesMoved ==
  ASSUME UNCHANGED <<shape, loading, smem>>, NEW a, \A x \in Agent \ {a} : agent'[x] = agent[x],
         \A c \in CTA : a = tma(c) => /\ Laps(a)' = Laps(a) /\ Pos(a)' = Pos(a)
                                      /\ At(a)' # "expect" /\ At(a) # "expect"
  PROVE  CopiesKept
<1>1. SUFFICES ASSUME NEW c \in CTA
               PROVE  \A s \in Stage : Sent(c, s)' = Sent(c, s) /\ Landings(c, s)' = Landings(c, s)
  BY DEF CopiesKept
<1>2. CASE a = tma(c)
  BY <1>2, SentSame
<1>3. CASE a # tma(c)
  <2>1. agent'[tma(c)] = agent[tma(c)]
    BY <1>3, AgentNames
  <2>. QED BY <2>1, SentStays
<1>. QED BY <1>2, <1>3

LEMMA CopiesPublish == ASSUME PipelineTypes, UNCHANGED shape, Publish PROVE CopiesKept
<1>1. At(tma(0)) = "publish" /\ Moves(tma(0), "idle") /\ UNCHANGED <<loading, smem>>
  BY PublishStep
<1>2. /\ \A x \in Agent \ {tma(0)} : agent'[x] = agent[x]
      /\ At(tma(0))' = "idle" /\ Pos(tma(0))' = Pos(tma(0)) /\ Laps(tma(0))' = Laps(tma(0))
  BY <1>1 DEF Moves, Becomes
<1>. QED BY <1>1, <1>2, CopiesMoved

LEMMA CopiesReceive ==
  ASSUME PipelineTypes, PosInv, UNCHANGED shape, NEW a \in Agent, Receive(a)
  PROVE  CopiesKept
<1>1. /\ At(a) = "idle" /\ UNCHANGED <<loading, smem>> /\ At(a)' # "expect"
      /\ \A x \in Agent \ {a} : agent'[x] = agent[x]
  <2>1. At(a) = "idle" /\ UNCHANGED <<loading, smem>>
    BY ReceiveAgent, ReceiveStep
  <2>2. \A x \in Agent \ {a} : agent'[x] = agent[x]
    BY ReceiveAgent DEF Becomes
  <2>3. At(a)' = NextPlace(a)
    BY ReceiveAgent DEF Becomes
  <2>4. NextPlace(a) \in {"left", "run", "acquire", "wait", "publish", "idle"}
    BY ReceivesAt
  <2>. QED BY <2>1, <2>2, <2>3, <2>4
<1>2. \A c \in CTA : a = tma(c) => Laps(a)' = Laps(a) /\ Pos(a)' = Pos(a)
  BY ReceivesAt, RingMember DEF Becomes
<1>. QED BY <1>1, <1>2, CopiesMoved

LEMMA BlocksStep ==
  ASSUME PipelineTypes, PacketInv, WholeLaps, PosInv, RingInv, UNCHANGED shape, NEW n \in Nat, NEW pk,
         JobInv(n, pk), BlocksInv(pk), Step, ~Publish
  PROVE  BlocksInv(pk)'
<1>0. ASSUME CopiesKept PROVE BlocksInv(pk)'
  BY <1>0, BlocksSame DEF CopiesKept
<1>1. ASSUME NEW a \in Agent, Receive(a) PROVE BlocksInv(pk)'
  BY <1>0, <1>1, CopiesReceive
<1>2. ASSUME NEW c \in CTA, TmaStage(c) PROVE BlocksInv(pk)'
  BY <1>2, BlocksCopy
<1>3. ASSUME TmaExpect PROVE BlocksInv(pk)'
  <2>1. \A d \in CTA : \A s \in Stage : Sent(d, s)' = Sent(d, s) /\ Landings(d, s)' = Landings(d, s)
    BY <1>3, RingExpect
  <2>2. UNCHANGED <<loading, smem>>
    BY <1>3, TmaExpectStep
  <2>. QED BY <1>0, <2>1, <2>2 DEF CopiesKept
<1>4. ASSUME NEW t \in loading, Transfer(t) PROVE BlocksInv(pk)'
  BY <1>4, BlocksLand
<1>5. ASSUME NEW i \in Acc, MmaAcquire(i) \/ MmaStage(i) \/ TensorMma(i) \/ TensorCommit(i) PROVE BlocksInv(pk)'
  <2>1. UNCHANGED <<loading, smem>> /\ \A x \in Agent \ {mma(i)} : agent'[x] = agent[x]
    <3>1. CASE MmaAcquire(i)
      BY <3>1, AcquireStep DEF Moves, Becomes
    <3>2. CASE MmaStage(i)
      <4>1. Turns(mma(i))
        BY <3>2, MmaTurns
      <4>2. UNCHANGED <<loading, smem>>
        BY <3>2 DEF MmaStage
      <4>. QED BY <4>1, <4>2 DEF Turns, Becomes
    <3>3. CASE TensorMma(i)
      BY <3>3, TensorMmaStep
    <3>4. CASE TensorCommit(i)
      BY <3>4, CommitStep
    <3>. QED BY <1>5, <3>1, <3>2, <3>3, <3>4
  <2>2. \A c \in CTA : mma(i) # tma(c)
    BY Apart
  <2>3. CopiesKept
    BY <2>1, <2>2, CopiesMoved
  <2>. QED BY <1>0, <2>3
<1>6. ASSUME NEW c \in CTA, NEW i \in Acc, ConsumerWait(c, i) \/ ConsumerDone(c, i) PROVE BlocksInv(pk)'
  <2>1. UNCHANGED <<loading, smem>> /\ \A x \in Agent \ {con(c, i)} : agent'[x] = agent[x]
    <3>1. CASE ConsumerWait(c, i)
      <4>1. Becomes(con(c, i), "read", Pos(con(c, i)), Laps(con(c, i)), Uses(con(c, i)) + 1, Got(con(c, i)))
        BY <3>1, ReadAgent
      <4>2. UNCHANGED <<loading, smem>>
        BY <3>1 DEF ConsumerWait
      <4>. QED BY <4>1, <4>2 DEF Becomes
    <3>2. CASE ConsumerDone(c, i)
      BY <3>2, DoneStep DEF Moves, Becomes
    <3>. QED BY <1>6, <3>1, <3>2
  <2>2. \A d \in CTA : con(c, i) # tma(d)
    BY Apart
  <2>3. CopiesKept
    BY <2>1, <2>2, CopiesMoved
  <2>. QED BY <1>0, <2>3
<1>. QED BY StepCases, <1>1, <1>2, <1>3, <1>4, <1>5, <1>6

----------------------------------------------------------------------------
(* The sums: the block a tensor-core operation reads is still the one of its *)
(* K position, since the stage is not freed before.                         *)
Halves(pk, j, m) == <<<<pk[j], m>>, <<pk[j], m>>>>
SumIs(i, pk, j, x) ==
  j >= 1 /\ x >= 1 => acc[i] = [k \in 1 .. Least(K_BLOCKS, (x + 1) \div 2) |-> Halves(pk, j, k - 1)]

LEMMA SumParts == ASSUME NEW pk, SumInv(pk) PROVE \A i \in Acc : SumIs(i, pk, Task(i), Executed(i))
BY Zenon DEF SumInv, SumIs, Summed, Halves

LEMMA SumCollects ==
  ASSUME UNCHANGED shape, NEW pk,
         \A i \in Acc : \A j, x : Task(i)' = j /\ Executed(i)' = x => SumIs(i, pk, j, x)'
  PROVE  SumInv(pk)'
<1>1. \A i \in Acc : Task(i)' >= 1 /\ Executed(i)' >= 1 =>
        acc'[i] = [k \in 1 .. Least(K_BLOCKS', (Executed(i)' + 1) \div 2) |-> Halves(pk, Task(i)', k - 1)]
  BY DEF SumIs
<1>. QED BY Zenon, <1>1 DEF SumInv, Summed, Least, Halves

LEMMA SumKeeps ==
  ASSUME UNCHANGED shape, NEW i, acc'[i] = acc[i], NEW pk, NEW j, NEW x, SumIs(i, pk, j, x)
  PROVE  SumIs(i, pk, j, x)'
BY Fixed DEF SumIs, Least

LEMMA TaskBounded ==
  ASSUME PipelineTypes, NEW n \in Nat, NEW pk, JobInv(n, pk), NEW i \in Acc
  PROVE  Task(i) \in Nat /\ Task(i) <= n
<1>1. mma(i) \in Agent /\ Job(mma(i), n) \in Nat /\ Job(mma(i), n) <= n
  BY AgentNames, JobNat
<1>2. Uses(mma(i)) \in Nat
  BY <1>1, AgentTyped
<1>3. Uses(mma(i)) = Job(mma(i), n) - (IF At(mma(i)) \in {"acquire", "run"} THEN 1 ELSE 0)
  BY DEF JobInv
<1>. QED BY <1>1, <1>2, <1>3 DEF Task

LEMMA SumOthers ==
  ASSUME PipelineTypes, UNCHANGED <<shape, queue, acc>>, NEW pk, SumInv(pk),
         \A i \in Acc : agent'[mma(i)] = agent[mma(i)]
  PROVE  SumInv(pk)'
<1>1. \A i \in Acc : Task(i)' = Task(i) /\ Executed(i)' = Executed(i)
  BY QueueOthers
<1>2. \A i \in Acc : SumIs(i, pk, Task(i), Executed(i))
  BY SumParts
<1>3. SUFFICES ASSUME NEW i \in Acc, NEW j, NEW x, Task(i)' = j, Executed(i)' = x PROVE SumIs(i, pk, j, x)'
  BY SumCollects
<1>4. SumIs(i, pk, j, x)
  BY <1>1, <1>2, <1>3
<1>. QED BY <1>4, SumKeeps

LEMMA SumPublish ==
  ASSUME PipelineTypes, UNCHANGED <<shape, queue, acc>>, NEW n \in Nat, NEW pk, JobInv(n, pk), SumInv(pk), NEW qk,
         \A k \in Nat : k <= n => qk[k] = pk[k], \A i \in Acc : agent'[mma(i)] = agent[mma(i)]
  PROVE  SumInv(qk)'
<1>1. \A i \in Acc : Task(i)' = Task(i) /\ Executed(i)' = Executed(i)
  BY QueueOthers
<1>2. \A i \in Acc : SumIs(i, pk, Task(i), Executed(i)) /\ qk[Task(i)] = pk[Task(i)]
  BY SumParts, TaskBounded
<1>3. SUFFICES ASSUME NEW i \in Acc, NEW j, NEW x, Task(i)' = j, Executed(i)' = x PROVE SumIs(i, qk, j, x)'
  BY SumCollects
<1>4. SumIs(i, pk, j, x) /\ qk[j] = pk[j]
  BY <1>1, <1>2, <1>3
<1>5. SumIs(i, qk, j, x)
  BY <1>4 DEF SumIs, Halves
<1>. QED BY <1>5, SumKeeps

(* What a stage holds until it is freed.                                     *)
LEMMA UnfreedHolds ==
  ASSUME PipelineTypes, RingInv, NEW i \in Acc, NEW s \in Stage, Unfreed(i, s)
  PROVE  Fill(mma(i), s) \in Nat /\ Fill(mma(i), s) >= 1 /\ \A c \in CTA : Landings(c, s) = Fill(mma(i), s)
<1>1. Freeings(i, s) = Fill(mma(i), s) - 1
  BY DEF Freeings
<1>2. Fill(mma(i), s) \in Nat /\ Freeings(i, s) \in {Free(s), Free(s) + 1}
  BY RingNumbers DEF RingInv, EmptyInv
<1>3. /\ Turn(s) \in Nat /\ Free(s) \in Nat
      /\ \A c \in CTA : /\ Landings(c, s) \in {Turn(s), Turn(s) + 1} /\ Sent(c, s) \in {Turn(s), Turn(s) + 1}
                        /\ Sent(c, s) <= Free(s) + 1 /\ Landings(c, s) <= Sent(c, s)
      /\ Fill(mma(i), s) \in {Turn(s) - 1, Turn(s)}
  BY FullNumbers
<1>4. Fill(mma(i), s) >= 1
  BY <1>1, <1>2, <1>3
<1>5. \A c \in CTA : Landings(c, s) = Fill(mma(i), s)
  <2>1. SUFFICES ASSUME NEW c \in CTA PROVE Landings(c, s) = Fill(mma(i), s)
    OBVIOUS
  <2>2. Landings(c, s) \in {Turn(s), Turn(s) + 1} /\ Sent(c, s) \in {Turn(s), Turn(s) + 1}
        /\ Sent(c, s) <= Free(s) + 1 /\ Landings(c, s) <= Sent(c, s)
    BY <1>3
  <2>. QED BY <1>1, <1>2, <1>3, <2>2
<1>. QED BY <1>2, <1>4, <1>5

LEMMA HeadBlock ==
  ASSUME PipelineTypes, WholeLaps, PosInv, RingInv, QueueInv, NEW n \in Nat, NEW pk, JobInv(n, pk), BlocksInv(pk),
         NEW i \in Acc, queue[i] # <<>>, NEW x, x = Head(queue[i]), x.op = "mma"
  PROVE  LET m == Executed(i) \div 2 IN
         /\ m \in Nat /\ m < K_BLOCKS /\ Executed(i) = 2 * m /\ (x.first <=> m = 0) /\ Task(i) >= 1
         /\ <<smem[0][x.stage], smem[1][x.stage]>> = Halves(pk, Task(i), m)
<1>1. /\ Executed(i) \in Nat /\ Executed(i) <= 2 * K_BLOCKS /\ x = OpAt(Executed(i))
      /\ Len(queue[i]) \in Nat /\ Len(queue[i]) >= 1
      /\ Executed(i) + Len(queue[i]) = IF At(mma(i)) = "run" THEN 2 * Pos(mma(i)) ELSE 2 * K_BLOCKS + 1
      /\ Task(i) # 0
  BY HeadOp
<1>2. PICK m : m = Executed(i) \div 2
  OBVIOUS
<1>3. /\ m \in Nat /\ Executed(i) = 2 * m /\ m < K_BLOCKS /\ x.stage = StageAt(m) /\ (x.first <=> m = 0)
  BY <1>1, <1>2, OpNumber
<1>4. K_BLOCKS \in Nat /\ PIPELINE_DEPTH \in Nat \ {0} /\ LAPS \in Nat \ {0} /\ LAPS * PIPELINE_DEPTH = K_BLOCKS
  BY Shaped, Whole DEF PipelineTypes
<1>5. mma(i) \in Agent /\ Pos(mma(i)) \in Nat
  BY AgentNames, AgentTyped
<1>6. High(i) \in Nat /\ m \in Low(i) .. High(i) - 1
  <2>1. High(i) \in Nat /\ m < High(i)
    <3>1. CASE At(mma(i)) = "run"
      <4>1. High(i) = Pos(mma(i)) /\ Executed(i) + Len(queue[i]) = 2 * Pos(mma(i))
        BY <1>1, <3>1 DEF High
      <4>2. PICK k \in Nat, p \in Nat : k = Len(queue[i]) /\ k >= 1 /\ p = Pos(mma(i))
        BY <1>1, <1>5
      <4>3. 2 * m + k = 2 * p
        BY <1>3, <4>1, <4>2
      <4>4. m < p
        <5>1. \A u, v, w \in Nat : w >= 1 /\ 2 * u + w = 2 * v => u < v
          OBVIOUS
        <5>2. m \in Nat
          BY <1>3
        <5>. QED BY <4>2, <4>3, <5>1, <5>2
      <4>. QED BY <4>1, <4>2, <4>4
    <3>2. CASE At(mma(i)) # "run"
      BY <1>3, <1>4, <3>2 DEF High
    <3>. QED BY <3>1, <3>2
  <2>. QED BY <1>2, <1>3, <2>1 DEF Low
<1>7. PICK s \in Stage : s = StageAt(m)
  BY <1>3, NextStage DEF PipelineTypes
<1>8. Unfreed(i, s)
  BY <1>6, <1>7 DEF Unfreed
<1>9. m = (Fill(mma(i), s) - 1 - Start(i)) * PIPELINE_DEPTH + s
  BY <1>6, <1>7 DEF QueueInv
<1>10. Fill(mma(i), s) \in Nat /\ Fill(mma(i), s) >= 1 /\ \A c \in CTA : Landings(c, s) = Fill(mma(i), s)
  BY <1>8, UnfreedHolds
<1>11. Task(i) \in Nat /\ Task(i) >= 1
  BY <1>1, TaskBounded
<1>12. PICK l \in Nat, j \in Nat, f \in Int : l = Fill(mma(i), s) - 1 /\ j = Task(i) /\ f = Start(i) /\ f = (j - 1) * LAPS
  <2>1. Fill(mma(i), s) - 1 \in Nat
    BY <1>10
  <2>2. Start(i) \in Int /\ Start(i) = (Task(i) - 1) * LAPS
    BY <1>4, <1>11 DEF Start
  <2>. QED BY <1>11, <2>1, <2>2
<1>13. m = (l - f) * PIPELINE_DEPTH + s
  BY <1>9, <1>12
<1>14. f <= l /\ l < f + LAPS
  <2>1. PICK d \in Nat \ {0}, w \in Nat \ {0}, q \in Int, r \in Nat :
          d = PIPELINE_DEPTH /\ w = LAPS /\ q = l - f /\ r = s /\ r \in 0 .. d - 1
    <3>1. s \in 0 .. PIPELINE_DEPTH - 1
      BY DEF Stage
    <3>2. l - f \in Int
      OBVIOUS
    <3>. QED BY <1>4, <3>1, <3>2
  <2>2. m = q * d + r
    BY <1>13, <2>1
  <2>3. m \div d \in Nat /\ m % d \in 0 .. d - 1 /\ m = (m \div d) * d + (m % d)
    BY <1>3, DivNat
  <2>4. q = m \div d
    <3>1. PICK p \in Nat, t \in 0 .. d - 1 : p = m \div d /\ m = p * d + t
      BY Zenon, <2>3
    <3>2. q * d + r = p * d + t
      BY <2>2, <3>1
    <3>3. q = p
      BY <2>1, <3>1, <3>2, DivUnique
    <3>. QED BY <3>1, <3>3
  <2>5. m < w * d
    BY <1>3, <1>4, <2>1
  <2>6. q \in Nat /\ q + 1 <= w
    BY <1>3, <2>3, <2>4, <2>5, LapsLess
  <2>. QED BY <2>1, <2>6
<1>15. BlockOf(pk, l, s) = <<pk[j], m>>
  BY <1>11, <1>12, <1>13, <1>14, LapBlock
<1>16. \A c \in CTA : smem[c][s] = <<pk[j], m>>
  <2>1. SUFFICES ASSUME NEW c \in CTA PROVE smem[c][s] = <<pk[j], m>>
    OBVIOUS
  <2>2. Landings(c, s) >= 1 /\ Landings(c, s) - 1 = l
    BY <1>10, <1>12
  <2>3. smem[c][s] = BlockOf(pk, Landings(c, s) - 1, s)
    BY <2>2 DEF BlocksInv
  <2>. QED BY Zenon, <1>15, <2>2, <2>3
<1>17. <<smem[0][s], smem[1][s]>> = Halves(pk, j, m)
  <2>1. 0 \in CTA /\ 1 \in CTA
    BY AgentNames
  <2>. QED BY <1>16, <2>1 DEF Halves
<1>. QED BY <1>2, <1>3, <1>7, <1>11, <1>12, <1>17

(* One more block on top of the m summed before it, or the first of all.     *)
LEMMA OneMore ==
  ASSUME NEW m \in Nat, NEW F(_), NEW a, m >= 1 => a = [k \in 1 .. m |-> F(k)]
  PROVE  (IF m = 0 THEN <<>> ELSE a) \o <<F(m + 1)>> = [k \in 1 .. m + 1 |-> F(k)]
<1>1. PICK b : b = [k \in 1 .. m |-> F(k)]
  OBVIOUS
<1>2. b \in Seq({F(k) : k \in 1 .. m + 1}) /\ Len(b) = m /\ \A k \in 1 .. m : b[k] = F(k)
  BY <1>1
<1>3. (IF m = 0 THEN <<>> ELSE a) = b
  BY <1>1
<1>. QED BY <1>2, <1>3

LEMMA SumMma ==
  ASSUME PipelineTypes, WholeLaps, PosInv, RingInv, QueueInv, UNCHANGED shape, NEW n \in Nat, NEW pk,
         JobInv(n, pk), BlocksInv(pk), SumInv(pk), NEW i \in Acc, TensorMma(i)
  PROVE  SumInv(pk)'
<1>1. PICK x : x = Head(queue[i])
  OBVIOUS
<1>2. /\ queue[i] # <<>> /\ x.op = "mma" /\ queue' = [queue EXCEPT ![i] = Tail(@)]
      /\ acc' = [acc EXCEPT ![i] = (IF x.first THEN <<>> ELSE @) \o <<<<smem[0][x.stage], smem[1][x.stage]>>>>]
      /\ UNCHANGED agent
  BY <1>1, TensorMmaStep
<1>3. PICK m \in Nat : /\ m < K_BLOCKS /\ Executed(i) = 2 * m /\ (x.first <=> m = 0) /\ Task(i) >= 1
                       /\ <<smem[0][x.stage], smem[1][x.stage]>> = Halves(pk, Task(i), m)
  BY <1>1, <1>2, HeadBlock
<1>4. Task(i)' = Task(i) /\ Executed(i)' = Executed(i) + 1 /\ \A j \in Acc \ {i} : queue'[j] = queue[j]
  BY <1>2, QueuePops
<1>5. \A j \in Acc : SumIs(j, pk, Task(j), Executed(j))
  BY SumParts
<1>6. SUFFICES ASSUME NEW j \in Acc, NEW t, NEW y, Task(j)' = t, Executed(j)' = y PROVE SumIs(j, pk, t, y)'
  BY SumCollects
<1>7. acc = [k \in Acc |-> acc[k]]
  BY DEF PipelineTypes
<1>8. CASE j # i
  <2>1. Task(j)' = Task(j) /\ Executed(j)' = Executed(j)
    BY <1>2, <1>4, <1>8, QueueOthers
  <2>2. acc'[j] = acc[j]
    BY <1>2, <1>7, <1>8
  <2>3. SumIs(j, pk, t, y)
    BY <1>5, <1>6, <2>1
  <2>. QED BY <2>2, <2>3, SumKeeps
<1>9. CASE j = i
  <2>1. K_BLOCKS \in Nat /\ K_BLOCKS' = K_BLOCKS
    BY Shaped, Fixed DEF PipelineTypes
  <2>2. t = Task(i) /\ y = 2 * m + 1
    BY <1>3, <1>4, <1>6, <1>9
  <2>3. acc'[i] = (IF m = 0 THEN <<>> ELSE acc[i]) \o <<Halves(pk, t, m)>>
    BY <1>2, <1>3, <1>7, <2>2
  <2>4. m >= 1 => acc[i] = [k \in 1 .. m |-> Halves(pk, t, k - 1)]
    <3>1. SUFFICES ASSUME m >= 1 PROVE acc[i] = [k \in 1 .. m |-> Halves(pk, t, k - 1)]
      OBVIOUS
    <3>2. (2 * m + 1) \div 2 = m /\ 2 * m >= 1
      BY <3>1
    <3>3. Least(K_BLOCKS, (2 * m + 1) \div 2) = m
      BY <1>3, <2>1, <3>2 DEF Least
    <3>4. SumIs(i, pk, t, 2 * m) /\ t >= 1
      BY <1>3, <1>5, <2>2
    <3>. QED BY Zenon, <3>2, <3>3, <3>4 DEF SumIs
  <2>5. acc'[i] = [k \in 1 .. m + 1 |-> Halves(pk, t, k - 1)]
    <3>. DEFINE F(k) == Halves(pk, t, k - 1)
    <3>1. Halves(pk, t, m) = F(m + 1)
      <4>1. (m + 1) - 1 = m
        OBVIOUS
      <4>. QED BY Zenon, <4>1
    <3>2. m >= 1 => acc[i] = [k \in 1 .. m |-> F(k)]
      BY <2>4
    <3>. HIDE DEF F
    <3>3. (IF m = 0 THEN <<>> ELSE acc[i]) \o <<F(m + 1)>> = [k \in 1 .. m + 1 |-> F(k)]
      BY <3>2, OneMore
    <3>4. acc'[i] = [k \in 1 .. m + 1 |-> F(k)]
      BY Zenon, <2>3, <3>1, <3>3
    <3>. QED BY Zenon, <3>4 DEF F
  <2>6. Least(K_BLOCKS', (y + 1) \div 2) = m + 1
    <3>1. (y + 1) \div 2 = m + 1
      BY <2>2
    <3>. QED BY <1>3, <2>1, <3>1 DEF Least
  <2>7. Least(K_BLOCKS, (y + 1) \div 2)' = m + 1
    BY Zenon, <2>6 DEF Least
  <2>. QED BY Zenon, <1>9, <2>5, <2>7 DEF SumIs
<1>. QED BY <1>8, <1>9

LEMMA SumCommit ==
  ASSUME PipelineTypes, PosInv, QueueInv, UNCHANGED shape, NEW pk, SumInv(pk), NEW i \in Acc, TensorCommit(i)
  PROVE  SumInv(pk)'
<1>1. PICK x, e : x = Head(queue[i]) /\ e = Executed(i)
  OBVIOUS
<1>2. queue[i] # <<>> /\ x.op # "mma" /\ queue' = [queue EXCEPT ![i] = Tail(@)] /\ UNCHANGED <<agent, acc>>
  BY <1>1, CommitStep
<1>3. /\ Task(i)' = Task(i) /\ Executed(i)' = e + 1 /\ e \in Nat /\ e <= 2 * K_BLOCKS /\ x = OpAt(e)
      /\ \A j \in Acc \ {i} : queue'[j] = queue[j]
  BY <1>1, <1>2, QueuePops
<1>4. \A j \in Acc : SumIs(j, pk, Task(j), Executed(j))
  BY SumParts
<1>5. SUFFICES ASSUME NEW j \in Acc, NEW t, NEW y, Task(j)' = t, Executed(j)' = y PROVE SumIs(j, pk, t, y)'
  BY SumCollects
<1>6. CASE j # i
  <2>1. Task(j)' = Task(j) /\ Executed(j)' = Executed(j)
    BY <1>2, <1>3, <1>6, QueueOthers
  <2>2. SumIs(j, pk, t, y)
    BY <1>4, <1>5, <2>1
  <2>. QED BY <1>2, <2>2, SumKeeps
<1>7. CASE j = i
  <2>1. K_BLOCKS \in Nat \ {0}
    BY Shaped DEF PipelineTypes
  <2>2. PICK m : m = e \div 2
    OBVIOUS
  <2>3. /\ m \in Nat
        /\ \/ e = 2 * m + 1 /\ m < K_BLOCKS
           \/ e = 2 * K_BLOCKS
    <3>1. x.op \in {"free", "done"}
      BY <1>2, <1>3, OpNumber
    <3>. QED BY <1>3, <2>2, <3>1, OpNumber
  <2>4. e >= 1 /\ Least(K_BLOCKS, (e + 1) \div 2) = Least(K_BLOCKS, (e + 1 + 1) \div 2)
    <3>1. CASE e = 2 * m + 1 /\ m < K_BLOCKS
      <4>1. (e + 1) \div 2 = m + 1 /\ (e + 1 + 1) \div 2 = m + 1
        BY <2>3, <3>1
      <4>. QED BY <2>3, <3>1, <4>1
    <3>2. CASE e = 2 * K_BLOCKS
      <4>1. PICK k \in Nat \ {0} : k = K_BLOCKS
        BY <2>1
      <4>2. (e + 1) \div 2 = k /\ (e + 1 + 1) \div 2 = k + 1
        BY <3>2, <4>1
      <4>. QED BY <3>2, <4>1, <4>2 DEF Least
    <3>. QED BY <2>3, <3>1, <3>2
  <2>5. t = Task(i) /\ y = e + 1
    BY <1>3, <1>5, <1>7
  <2>6. SumIs(i, pk, t, e)
    BY <1>1, <1>4, <2>5
  <2>7. SumIs(i, pk, t, y)
    BY Zenon, <2>4, <2>5, <2>6 DEF SumIs
  <2>. QED BY <1>2, <1>7, <2>7, SumKeeps
<1>. QED BY <1>6, <1>7

LEMMA SumHolds ==
  ASSUME UNCHANGED <<shape, acc>>, NEW pk, SumInv(pk),
         \A i \in Acc : Executed(i)' = 0 \/ (Task(i)' = Task(i) /\ Executed(i)' = Executed(i))
  PROVE  SumInv(pk)'
<1>1. SUFFICES ASSUME NEW i \in Acc, NEW j, NEW x, Task(i)' = j, Executed(i)' = x PROVE SumIs(i, pk, j, x)'
  BY SumCollects
<1>2. CASE Task(i)' = Task(i) /\ Executed(i)' = Executed(i)
  <2>1. SumIs(i, pk, j, x)
    BY <1>1, <1>2, SumParts
  <2>. QED BY <2>1, SumKeeps
<1>3. CASE Executed(i)' = 0
  <2>1. ~(x >= 1)
    BY <1>1, <1>3
  <2>. QED BY <2>1 DEF SumIs
<1>. QED BY <1>2, <1>3

LEMMA SumReceive ==
  ASSUME PipelineTypes, PosInv, UNCHANGED shape, NEW pk, SumInv(pk), NEW a \in Agent, Receive(a)
  PROVE  SumInv(pk)'
<1>1. UNCHANGED <<queue, acc>> /\ At(a) = "idle" /\ \A x \in Agent \ {a} : agent'[x] = agent[x]
  BY ReceiveStep, ReceiveAgent DEF Becomes
<1>2. ASSUME NEW i \in Acc PROVE Task(i)' = Task(i) /\ Executed(i)' = Executed(i)
  <2>1. CASE a = mma(i)
    <3>1. a \in Ring
      BY <2>1, RingMember
    <3>2. Pos(a)' = Pos(a) /\ Laps(a)' = Laps(a) /\ Uses(a)' = Uses(a) /\ At(a)' = NextPlace(a)
      BY <3>1, ReceivesAt DEF Becomes
    <3>3. NextPlace(a) # "run"
      <4>1. a[1] = "mma"
        BY <2>1, Kinds
      <4>. QED BY <4>1 DEF NextPlace, Starts, RolePlace, FetchPlace
    <3>4. /\ At(mma(i))' = "run" <=> At(mma(i)) = "run"
          /\ Pos(mma(i))' = Pos(mma(i)) /\ Laps(mma(i))' = Laps(mma(i)) /\ Uses(mma(i))' = Uses(mma(i))
      BY <1>1, <2>1, <3>2, <3>3
    <3>. QED BY <1>1, <3>4, QueueSame
  <2>2. CASE a # mma(i)
    <3>1. agent'[mma(i)] = agent[mma(i)]
      BY <1>1, <2>2, AgentNames
    <3>. QED BY <1>1, <3>1, QueueOthers
  <2>. QED BY <2>1, <2>2
<1>. QED BY <1>1, <1>2, SumHolds

LEMMA SumStep ==
  ASSUME ControlInv, UNCHANGED shape, NEW n \in Nat, NEW pk, JobInv(n, pk), BlocksInv(pk), SumInv(pk), Step, ~Publish
  PROVE  SumInv(pk)'
<1>0. PipelineTypes /\ WholeLaps /\ PosInv /\ LapsInv /\ RingInv /\ QueueInv /\ TmemInv
  BY DEF ControlInv
<1>1. ASSUME NEW a \in Agent, Receive(a) PROVE SumInv(pk)'
  BY <1>0, <1>1, SumReceive
<1>2. ASSUME NEW c \in CTA, \A x \in Agent \ {tma(c)} : agent'[x] = agent[x], UNCHANGED <<queue, acc>>
      PROVE  SumInv(pk)'
  <2>1. \A i \in Acc : agent'[mma(i)] = agent[mma(i)]
    BY <1>2, AgentNames, Apart
  <2>. QED BY <1>0, <1>2, <2>1, SumOthers
<1>3. ASSUME NEW c \in CTA, TmaStage(c) PROVE SumInv(pk)'
  <2>1. UNCHANGED <<queue, acc>> /\ (Moves(tma(c), "expect") \/ Turns(tma(c)))
    BY <1>0, <1>3, TmaStageStep
  <2>2. \A x \in Agent \ {tma(c)} : agent'[x] = agent[x]
    BY <2>1 DEF Turns, Moves, Becomes
  <2>. QED BY <1>2, <2>1, <2>2
<1>4. ASSUME TmaExpect PROVE SumInv(pk)'
  <2>1. UNCHANGED <<queue, acc>> /\ Turns(tma(0)) /\ 0 \in CTA
    BY <1>0, <1>4, TmaExpectStep, AgentNames
  <2>2. \A x \in Agent \ {tma(0)} : agent'[x] = agent[x]
    BY <2>1 DEF Turns, Becomes
  <2>. QED BY <1>2, <2>1, <2>2
<1>5. ASSUME NEW t \in loading, Transfer(t) PROVE SumInv(pk)'
  BY <1>0, <1>5, TransferStep, SumOthers
<1>6. ASSUME NEW i \in Acc, MmaAcquire(i) PROVE SumInv(pk)'
  <2>1. UNCHANGED <<queue, acc>> /\ \A x \in Agent \ {mma(i)} : agent'[x] = agent[x]
    BY <1>0, <1>6, AcquireStep DEF Moves, Becomes
  <2>2. Executed(i)' = 0
    BY <1>0, <1>6, QueueAcquire
  <2>3. \A j \in Acc \ {i} : Task(j)' = Task(j) /\ Executed(j)' = Executed(j)
    <3>1. \A j \in Acc \ {i} : agent'[mma(j)] = agent[mma(j)]
      BY <2>1, AgentNames, Apart
    <3>. QED BY <1>0, <2>1, <3>1, QueueOthers
  <2>. QED BY <2>1, <2>2, <2>3, SumHolds
<1>7. ASSUME NEW i \in Acc, MmaStage(i) PROVE SumInv(pk)'
  <2>1. \A x \in Agent \ {mma(i)} : agent'[x] = agent[x]
    BY <1>0, <1>7, MmaTurns DEF Turns, Becomes
  <2>2. UNCHANGED acc
    BY <1>7 DEF MmaStage
  <2>3. Task(i)' = Task(i) /\ Executed(i)' = Executed(i) /\ \A j \in Acc \ {i} : queue'[j] = queue[j]
    BY <1>0, <1>7, QueueTurn
  <2>4. \A j \in Acc \ {i} : Task(j)' = Task(j) /\ Executed(j)' = Executed(j)
    <3>1. \A j \in Acc \ {i} : agent'[mma(j)] = agent[mma(j)]
      BY <2>1, AgentNames, Apart
    <3>. QED BY <1>0, <2>3, <3>1, QueueOthers
  <2>. QED BY <2>2, <2>3, <2>4, SumHolds
<1>8. ASSUME NEW i \in Acc, TensorMma(i) PROVE SumInv(pk)'
  BY <1>0, <1>8, SumMma
<1>9. ASSUME NEW i \in Acc, TensorCommit(i) PROVE SumInv(pk)'
  BY <1>0, <1>9, SumCommit
<1>10. ASSUME NEW c \in CTA, NEW i \in Acc, ConsumerWait(c, i) \/ ConsumerDone(c, i) PROVE SumInv(pk)'
  <2>1. UNCHANGED <<queue, acc>>
    BY <1>10 DEF ConsumerWait, ConsumerDone
  <2>2. \A x \in Agent \ {con(c, i)} : agent'[x] = agent[x]
    <3>1. CASE ConsumerWait(c, i)
      <4>1. Becomes(con(c, i), "read", Pos(con(c, i)), Laps(con(c, i)), Uses(con(c, i)) + 1, Got(con(c, i)))
        BY <1>0, <3>1, ReadAgent
      <4>. QED BY <4>1 DEF Becomes
    <3>2. CASE ConsumerDone(c, i)
      BY <1>0, <3>2, DoneStep DEF Moves, Becomes
    <3>. QED BY <1>10, <3>1, <3>2
  <2>3. \A j \in Acc : agent'[mma(j)] = agent[mma(j)]
    BY <2>2, AgentNames, Apart
  <2>. QED BY <1>0, <2>1, <2>3, SumOthers
<1>. QED BY StepCases, <1>1, <1>3, <1>4, <1>5, <1>6, <1>7, <1>8, <1>9, <1>10

----------------------------------------------------------------------------
LEMMA TaskInit == ASSUME Init, WholeLaps PROVE TaskInv
<1>1. PipelineTypes /\ shape \in Shapes
  BY TypesInit DEF PipelineTypes
<1>2. \A a \in Agent : /\ At(a) = (IF a = tma(0) THEN "publish" ELSE "idle")
                       /\ Pos(a) = 0 /\ Laps(a) = 0 /\ Uses(a) = 0 /\ Got(a) = 0
  <2>1. agent = [a \in Agent |-> [place |-> IF a = tma(0) THEN "publish" ELSE "idle",
                                pos |-> 0, laps |-> 0, uses |-> 0, packets |-> 0]]
    BY DEF Init, tma
  <2>. QED BY <2>1 DEF At, Pos, Laps, Uses, Got
<1>3. packet.type = "none" /\ loading = {} /\ queue = [i \in Acc |-> <<>>]
  BY DEF Init
<1>4. LAPS \in Nat \ {0} /\ PIPELINE_DEPTH \in Nat \ {0} /\ K_BLOCKS \in Nat \ {0}
  BY <1>1, Whole, Shaped
<1>5. \A a \in Agent : ~Working(a) /\ ~Looping(a) /\ Job(a, 0) = 0 /\ First(a, 0) = 0 /\ St(a) = 0
  <2>1. SUFFICES ASSUME NEW a \in Agent
                 PROVE  ~Working(a) /\ ~Looping(a) /\ Job(a, 0) = 0 /\ First(a, 0) = 0 /\ St(a) = 0
    OBVIOUS
  <2>2. At(a) \in {"publish", "idle"} /\ Pos(a) = 0
    BY <1>2
  <2>3. Job(a, 0) = 0
    BY <1>3 DEF Job
  <2>4. First(a, 0) = 0 * LAPS
    BY <2>2, <2>3 DEF First
  <2>5. St(a) = 0
    BY <1>1, <2>2, NextStage DEF St
  <2>. QED BY <1>4, <2>2, <2>3, <2>4, <2>5 DEF Working, Looping
<1>6. PICK pk \in [Nat -> Nat] : pk = [k \in Nat |-> 0]
  OBVIOUS
<1>7. JobInv(0, pk)
  <2>1. \A a \in Ring : LapInv(a, 0)
    <3>1. SUFFICES ASSUME NEW a \in Ring PROVE LapInv(a, 0)
      OBVIOUS
    <3>2. Pos(a) = 0 /\ Laps(a) = 0 /\ St(a) = 0 /\ First(a, 0) = 0 /\ ~Looping(a)
      BY <1>2, <1>5, RingMember
    <3>3. 0 = (0 - 0) * PIPELINE_DEPTH + 0
      BY <1>4
    <3>. QED BY <3>2, <3>3 DEF LapInv
  <2>2. \A i \in Acc : Uses(mma(i)) = 0 /\ Job(mma(i), 0) = 0 /\ At(mma(i)) \notin {"acquire", "run"}
    BY <1>2, <1>5, AgentNames
  <2>3. \A c \in CTA, i \in Acc : Uses(con(c, i)) = 0 /\ Job(con(c, i), 0) = 0 /\ At(con(c, i)) # "wait"
    BY <1>2, <1>5, AgentNames
  <2>. QED BY <1>3, <1>5, <2>1, <2>2, <2>3 DEF JobInv
<1>8. BlocksInv(pk)
  <2>1. \A c \in CTA, s \in Stage : Landings(c, s) = 0
    <3>1. SUFFICES ASSUME NEW c \in CTA, NEW s \in Stage PROVE Landings(c, s) = 0
      OBVIOUS
    <3>2. Laps(tma(c)) = 0 /\ St(tma(c)) = 0 /\ At(tma(c)) # "expect" /\ s \in Nat
      BY <1>2, <1>4, <1>5, AgentNames DEF Stage
    <3>3. Fill(tma(c), s) = 0
      BY <3>2 DEF Fill
    <3>. QED BY <1>3, <3>2, <3>3 DEF Landings, Sent, Flying
  <2>. QED BY <1>3, <2>1 DEF BlocksInv
<1>9. SumInv(pk)
  <2>1. \A i \in Acc : Task(i) = 0
    BY <1>2, AgentNames, Apart DEF Task
  <2>. QED BY <2>1 DEF SumInv
<1>. QED BY <1>6, <1>7, <1>8, <1>9 DEF TaskInv

LEMMA TaskStep ==
  ASSUME ControlInv, TaskInv, Step, UNCHANGED shape
  PROVE  TaskInv'
<1>1. PICK n \in Nat, pk \in [Nat -> Nat] : JobInv(n, pk) /\ BlocksInv(pk) /\ SumInv(pk)
  BY DEF TaskInv
<1>2. PipelineTypes /\ PacketInv /\ WholeLaps /\ PosInv /\ RingInv
  BY DEF ControlInv
<1>3. CASE ~Publish
  <2>1. JobInv(n, pk)' /\ BlocksInv(pk)' /\ SumInv(pk)'
    BY <1>1, <1>2, <1>3, JobStep, BlocksStep, SumStep
  <2>. QED BY <2>1 DEF TaskInv
<1>4. CASE Publish
  <2>1. PICK m \in Nat, qk \in [Nat -> Nat] : JobInv(m, qk)' /\ \A k \in Nat : k <= n => qk[k] = pk[k]
    BY <1>1, <1>2, <1>4, JobPublish
  <2>2. UNCHANGED <<loading, smem, queue, acc>> /\ \A i \in Acc : agent'[mma(i)] = agent[mma(i)]
    <3>1. UNCHANGED <<loading, smem, queue, acc>> /\ \A x \in Agent \ {tma(0)} : agent'[x] = agent[x]
      BY <1>2, <1>4, PublishStep DEF Moves, Becomes
    <3>. QED BY <3>1, AgentNames, Apart
  <2>3. BlocksInv(qk)'
    BY <1>1, <1>2, <1>4, <2>1, <2>2, CopiesPublish, BlocksPublish DEF CopiesKept
  <2>4. SumInv(qk)'
    BY <1>1, <1>2, <2>1, <2>2, SumPublish
  <2>. QED BY <2>1, <2>3, <2>4 DEF TaskInv
<1>. QED BY <1>3, <1>4

LEMMA TaskStill == ASSUME ControlInv, TaskInv, UNCHANGED vars PROVE TaskInv'
<1>1. PICK n \in Nat, pk \in [Nat -> Nat] : JobInv(n, pk) /\ BlocksInv(pk) /\ SumInv(pk)
  BY DEF TaskInv
<1>2. UNCHANGED <<shape, bar, agent, packet, loading, smem, queue, acc>> /\ PipelineTypes
  BY DEF vars, ControlInv
<1>3. JobInv(n, pk)'
  BY <1>1, <1>2, JobUnmoved
<1>4. BlocksInv(pk)'
  <2>1. \A c \in CTA : \A s \in Stage : Sent(c, s)' = Sent(c, s) /\ Landings(c, s)' = Landings(c, s)
    BY <1>2, SentStays
  <2>. QED BY <1>1, <1>2, <2>1, BlocksSame
<1>5. SumInv(pk)'
  BY <1>1, <1>2, SumOthers
<1>. QED BY <1>3, <1>4, <1>5 DEF TaskInv

(* What a consumer reads: its task is complete, and the next one waits.      *)
LEMMA SumIntact == ASSUME ControlInv, TaskInv PROVE AccumulatorIntact
<1>1. PICK n \in Nat, pk \in [Nat -> Nat] : JobInv(n, pk) /\ BlocksInv(pk) /\ SumInv(pk)
  BY DEF TaskInv
<1>2. SUFFICES ASSUME NEW c \in CTA, NEW i \in Acc, agent[<<"con", c, i>>].place = "read"
               PROVE  LET g == agent[<<"con", c, i>>].packets IN
                      acc[i] = [k \in 1 .. K_BLOCKS |-> <<<<g, k - 1>>, <<g, k - 1>>>>]
  BY DEF AccumulatorIntact
<1>3. PipelineTypes /\ TmemInv
  BY DEF ControlInv
<1>4. At(con(c, i)) = "read"
  BY <1>2 DEF At, con
<1>5. PICK a, u : a = con(c, i) /\ u = Uses(con(c, i))
  OBVIOUS
<1>6. a \in Agent /\ JobOf(a, n, pk)
  BY <1>1, <1>5, JobParts, AgentNames
<1>7. u = Job(a, n) /\ u >= 1 /\ Got(a) = pk[u]
  <2>1. Job(a, n) >= 1 /\ Got(a) = pk[Job(a, n)]
    BY Zenon, <1>4, <1>5, <1>6 DEF JobOf, Working
  <2>2. Uses(a) = Job(a, n) - (IF At(a) = "wait" THEN 1 ELSE 0)
    BY Zenon, <1>5, <1>6 DEF JobOf
  <2>3. Job(a, n) \in Nat
    BY <1>1, <1>3, <1>6, JobNat
  <2>4. u = Job(a, n)
    BY <1>4, <1>5, <2>2, <2>3
  <2>. QED BY <2>1, <2>4
<1>8. /\ u \in Nat /\ Uses(mma(i)) \in Nat /\ Returned(i) \in Nat /\ Complete(i) \in Int
      /\ Complete(i) <= Uses(mma(i)) /\ u <= Complete(i) /\ Returned(i) <= Back(c, i)
  BY <1>3, <1>5, TmemNumbers
<1>9. Back(c, i) = u - 1
  BY <1>4, <1>5 DEF Back
<1>10. Uses(mma(i)) <= Returned(i) + 1 /\ (At(mma(i)) = "run" => Uses(mma(i)) <= Returned(i))
  BY <1>3 DEF TmemInv
<1>11. Uses(mma(i)) = u /\ Complete(i) = Uses(mma(i)) /\ At(mma(i)) # "run"
  BY <1>8, <1>9, <1>10
<1>12. queue[i] = <<>>
  <2>1. SUFFICES ASSUME queue[i] # <<>> PROVE FALSE
    OBVIOUS
  <2>2. Complete(i) = Uses(mma(i)) - 1
    BY <1>11, <2>1 DEF Complete
  <2>. QED BY <1>8, <1>11, <2>2
<1>13. K_BLOCKS \in Nat \ {0}
  BY <1>3, Shaped DEF PipelineTypes
<1>14. Task(i) = u /\ Executed(i) = 2 * K_BLOCKS + 1
  <2>1. Task(i) = u
    BY <1>8, <1>11 DEF Task
  <2>2. Len(queue[i]) = 0
    BY <1>12
  <2>3. Executed(i) = (2 * K_BLOCKS + 1) - Len(queue[i])
    BY <1>11 DEF Executed
  <2>. QED BY <1>13, <2>1, <2>2, <2>3
<1>15. SumIs(i, pk, u, 2 * K_BLOCKS + 1)
  BY <1>1, <1>14, SumParts
<1>16. Least(K_BLOCKS, (2 * K_BLOCKS + 1 + 1) \div 2) = K_BLOCKS /\ 2 * K_BLOCKS + 1 >= 1
  <2>1. PICK k \in Nat \ {0} : k = K_BLOCKS
    BY <1>13
  <2>2. (2 * k + 1 + 1) \div 2 = k + 1 /\ 2 * k + 1 >= 1
    OBVIOUS
  <2>. QED BY <2>1, <2>2 DEF Least
<1>17. acc[i] = [k \in 1 .. K_BLOCKS |-> Halves(pk, u, k - 1)]
  BY Zenon, <1>7, <1>15, <1>16 DEF SumIs
<1>18. pk[u] = agent[<<"con", c, i>>].packets
  BY <1>5, <1>7 DEF Got, con
<1>. QED BY <1>17, <1>18 DEF Halves

LEMMA PipelineNext == PipelineInv /\ [Next]_vars => PipelineInv'
<1>. SUFFICES ASSUME PipelineInv, [Next]_vars PROVE PipelineInv'
  OBVIOUS
<1>1. CASE Step /\ UNCHANGED shape
  BY <1>1, ControlStep, TaskStep DEF PipelineInv
<1>2. CASE UNCHANGED vars
  BY <1>2, ControlStill, TaskStill DEF PipelineInv
<1>. QED BY <1>1, <1>2, Stutters

(* What a consumer warpgroup reads out of its accumulator is every block of  *)
(* its own task, in order and once, each half copied for the same block:     *)
(* AccumulatorIntact, whatever the depth of the ring, the blocks of a task   *)
(* and the number of tasks, as long as tasks take whole laps.               *)
THEOREM SumsAreWhole == Spec /\ WholeLaps => []AccumulatorIntact
<1>1. Init /\ WholeLaps => PipelineInv
  BY ControlInit, TaskInit DEF PipelineInv
<1>2. PipelineInv /\ [Next]_vars => PipelineInv'
  BY PipelineNext
<1>3. PipelineInv => AccumulatorIntact
  BY SumIntact DEF PipelineInv
<1>. QED BY <1>1, <1>2, <1>3, PTL DEF Spec

----------------------------------------------------------------------------
(* The packet's hand-over is that of BroadcastCells.                         *)
PacketShown == InSight(Received, Agent, [x \in {C2P} |-> packet])

LEMMA PacketSeen ==
  /\ Received = [x \in {C2P} |-> Receivers]
  /\ PacketShown = [x \in {C2P} |-> IF Receivers = Agent THEN "none" ELSE packet]
<1>1. Received = [x \in {C2P} |-> Receivers]
  BY DEF Received, Receivers, Got
<1>. QED BY <1>1 DEF PacketShown, InSight

LEMMA PacketSeenNext ==
  /\ Received' = [x \in {C2P} |-> Receivers']
  /\ PacketShown' = [x \in {C2P} |-> IF Receivers' = Agent THEN "none" ELSE packet']
<1>1. Received' = [x \in {C2P} |-> Receivers']
  BY DEF Received, Receivers, Got
<1>. QED BY <1>1 DEF PacketShown, InSight

LEMMA PacketCellPut ==
  ASSUME PipelineTypes, PacketInv, UNCHANGED shape, Publish
  PROVE  PacketCell!Next
<1>1. PacketInv' /\ Receivers = Agent
  BY PacketPublish
<1>2. /\ Moves(tma(0), "idle") /\ packet'.idx = packet.idx + 1 /\ packet.idx \in Nat
      /\ packet' \in [type : {"GEMM", "RS", "exit"}, idx : Nat]
  <2>1. packet.idx \in Nat
    BY DEF PipelineTypes
  <2>2. PICK t \in {"GEMM", "RS", "exit"} : packet' = [type |-> t, idx |-> packet.idx + 1]
    BY DEF Publish, Fetched
  <2>. QED BY <2>1, <2>2, PublishStep
<1>3. Receivers' = {} /\ Agent # {}
  <2>1. \A a \in Agent : Got(a) = packet.idx
    BY <1>1 DEF Receivers
  <2>2. \A a \in Agent : Got(a)' = Got(a)
    BY <1>2, Same DEF Moves, Becomes
  <2>. QED BY <1>2, <2>1, <2>2, AgentNames DEF Receivers
<1>4. Received = [x \in {C2P} |-> Agent] /\ Received' = [x \in {C2P} |-> {}]
  BY <1>1, <1>3, PacketSeen, PacketSeenNext
<1>5. PacketShown = [x \in {C2P} |-> "none"] /\ PacketShown' = [x \in {C2P} |-> packet']
  BY <1>1, <1>3, PacketSeen, PacketSeenNext
<1>6. Received' = [Received EXCEPT ![C2P] = {}] /\ Received[C2P] = Agent /\ Received' # Received
  <2>1. Received[C2P] = Agent /\ Received'[C2P] = {}
    BY <1>4
  <2>. QED BY <1>3, <1>4, <2>1
<1>7. PacketShown' = [PacketShown EXCEPT ![C2P] = PacketShown'[C2P]] /\ PacketShown'[C2P] = packet'
  BY <1>5
<1>8. PacketCell!Put(C2P)
  BY <1>2, <1>6, <1>7 DEF PacketCell!Put, PacketShown
<1>. QED BY <1>6, <1>8 DEF PacketCell!Next

LEMMA PacketCellTake ==
  ASSUME PipelineTypes, PacketInv, UNCHANGED shape, NEW a \in Agent, Receive(a)
  PROVE  PacketCell!Next
<1>1. /\ Got(a) = packet.idx - 1 /\ Got(a)' = packet.idx /\ packet' = packet /\ packet.idx \in Nat
      /\ \A x \in Agent \ {a} : Got(x)' = Got(x)
  <2>1. PICK k : Becomes(a, NextPlace(a), k, Laps(a), Uses(a), Got(a) + 1)
    BY ReceiveAgent
  <2>2. \A x \in Agent \ {a} : Got(x)' = Got(x)
    BY <2>1, Same DEF Becomes
  <2>. QED BY <2>2, PacketReceive, ReceiveStep DEF PipelineTypes
<1>2. a \notin Receivers /\ Receivers' = Receivers \cup {a} /\ Receivers # Agent
  BY <1>1 DEF Receivers
<1>3. Received = [x \in {C2P} |-> Receivers] /\ Received' = [x \in {C2P} |-> Receivers \cup {a}]
  BY <1>2, PacketSeen, PacketSeenNext
<1>4. /\ PacketShown = [x \in {C2P} |-> packet]
      /\ PacketShown' = [x \in {C2P} |-> IF Receivers \cup {a} = Agent THEN "none" ELSE packet]
  BY <1>1, <1>2, PacketSeen, PacketSeenNext
<1>5. /\ Received' = [Received EXCEPT ![C2P] = @ \cup {a}] /\ a \notin Received[C2P] /\ Received' # Received
      /\ Received'[C2P] = Receivers \cup {a}
  <2>1. Received[C2P] = Receivers /\ Received'[C2P] = Receivers \cup {a}
    BY <1>3
  <2>. QED BY <1>2, <1>3, <2>1
<1>6. PacketShown' = IF Received'[C2P] = Agent THEN [PacketShown EXCEPT ![C2P] = "none"] ELSE PacketShown
  BY <1>4, <1>5
<1>7. PacketCell!Take(C2P, a)
  BY <1>5, <1>6 DEF PacketCell!Take, PacketShown
<1>. QED BY <1>5, <1>7 DEF PacketCell!Next

LEMMA PacketCellStill ==
  ASSUME UNCHANGED packet, \A a \in Agent : Got(a)' = Got(a)
  PROVE  UNCHANGED <<PacketShown, Received>>
<1>1. Receivers' = Receivers
  BY DEF Receivers
<1>. QED BY <1>1, PacketSeen, PacketSeenNext

LEMMA PacketCellStep ==
  ASSUME PipelineTypes, PacketInv, UNCHANGED shape, Step
  PROVE  PacketCell!Next \/ UNCHANGED <<PacketShown, Received>>
<1>1. ASSUME NEW x \in Agent, NEW p, NEW k, NEW l, NEW u, Becomes(x, p, k, l, u, Got(x)), UNCHANGED packet
      PROVE  UNCHANGED <<PacketShown, Received>>
  <2>1. \A a \in Agent : Got(a)' = Got(a)
    BY <1>1, Same DEF Becomes
  <2>. QED BY <1>1, <2>1, PacketCellStill
<1>2. ASSUME UNCHANGED <<packet, agent>> PROVE UNCHANGED <<PacketShown, Received>>
  BY <1>2, Same, PacketCellStill
<1>3. ASSUME NEW x \in Agent, Turns(x), UNCHANGED packet PROVE UNCHANGED <<PacketShown, Received>>
  <2>1. PICK p, k, l, u : Becomes(x, p, k, l, u, Got(x))
    BY <1>3 DEF Turns
  <2>. QED BY <1>1, <1>3, <2>1
<1>4. ASSUME NEW c \in CTA, TmaStage(c) PROVE UNCHANGED <<PacketShown, Received>>
  <2>1. UNCHANGED packet /\ IF Loads(c) /\ c = 0 THEN Moves(tma(c), "expect") ELSE Turns(tma(c))
    BY <1>4, TmaStageStep
  <2>2. tma(c) \in Agent
    BY AgentNames
  <2>. QED BY <1>1, <1>3, <2>1, <2>2 DEF Moves
<1>5. ASSUME TmaExpect PROVE UNCHANGED <<PacketShown, Received>>
  BY <1>3, <1>5, TmaExpectStep, AgentNames
<1>6. ASSUME NEW t \in loading, Transfer(t) PROVE UNCHANGED <<PacketShown, Received>>
  BY <1>2, <1>6, TransferStep
<1>7. ASSUME NEW i \in Acc, MmaAcquire(i) PROVE UNCHANGED <<PacketShown, Received>>
  BY <1>1, <1>7, AcquireStep, AgentNames DEF Moves
<1>8. ASSUME NEW i \in Acc, MmaStage(i) PROVE UNCHANGED <<PacketShown, Received>>
  <2>1. Turns(mma(i)) /\ UNCHANGED packet
    BY <1>8, MmaTurns DEF MmaStage
  <2>. QED BY <1>3, <2>1, AgentNames
<1>9. ASSUME NEW i \in Acc, TensorMma(i) PROVE UNCHANGED <<PacketShown, Received>>
  BY <1>2, <1>9, TensorMmaStep
<1>10. ASSUME NEW i \in Acc, TensorCommit(i) PROVE UNCHANGED <<PacketShown, Received>>
  BY <1>2, <1>10 DEF TensorCommit
<1>11. ASSUME NEW c \in CTA, NEW i \in Acc, ConsumerWait(c, i) PROVE UNCHANGED <<PacketShown, Received>>
  <2>1. /\ UNCHANGED packet /\ con(c, i) \in Agent
        /\ Becomes(con(c, i), "read", Pos(con(c, i)), Laps(con(c, i)), Uses(con(c, i)) + 1, Got(con(c, i)))
    BY <1>11, ReadAgent, AgentNames DEF ConsumerWait
  <2>. QED BY <1>1, <2>1
<1>12. ASSUME NEW c \in CTA, NEW i \in Acc, ConsumerDone(c, i) PROVE UNCHANGED <<PacketShown, Received>>
  <2>1. UNCHANGED packet /\ Moves(con(c, i), "idle")
    BY <1>12, DoneStep
  <2>. QED BY <1>1, <2>1, AgentNames DEF Moves
<1>. QED BY StepCases, PacketCellPut, PacketCellTake, <1>4, <1>5, <1>6, <1>7, <1>8, <1>9, <1>10, <1>11, <1>12

(* Every packet published is received once by every agent of the cluster,    *)
(* and only then is the next one published, whatever the tasks.              *)
THEOREM PacketsReachAll == Spec => PacketsBroadcast
<1>1. Init => PipelineTypes /\ PacketInv
  BY TypesInit, PacketInit
<1>2. PipelineTypes /\ PacketInv /\ [Next]_vars => (PipelineTypes /\ PacketInv)'
  BY TypesStep, PacketStep, TypesStill, PacketStill, Stutters
<1>3. Init => PacketCell!Init
  <2>. SUFFICES ASSUME Init PROVE PacketCell!Init
    OBVIOUS
  <2>1. \A a \in Agent : agent[a].packets = packet.idx
    BY DEF Init
  <2>2. Receivers = Agent
    BY <2>1 DEF Receivers, Got
  <2>3. Received = [x \in {C2P} |-> Agent] /\ PacketShown = [x \in {C2P} |-> "none"]
    BY <2>2, PacketSeen
  <2>. QED BY <2>3 DEF PacketCell!Init, PacketShown
<1>4. ASSUME PipelineTypes, PacketInv, [Next]_vars
      PROVE  PacketCell!Next \/ UNCHANGED <<PacketShown, Received>>
  <2>1. CASE Step /\ UNCHANGED shape
    BY <1>4, <2>1, PacketCellStep
  <2>2. CASE UNCHANGED vars
    <3>1. UNCHANGED <<shape, packet, agent>>
      BY <2>2 DEF vars
    <3>. QED BY <3>1, Same, PacketCellStill
  <2>. QED BY <1>4, <2>1, <2>2, Stutters
<1>5. PipelineTypes /\ PacketInv /\ [Next]_vars =>
        [PacketCell!Next /\ UNCHANGED [x \in {C2P} |-> Agent]]_<<
           [x \in {C2P} |-> Agent], InSight(Received, Agent, [x \in {C2P} |-> packet]), Received>>
  <2>1. [x \in {C2P} |-> Agent]' = [x \in {C2P} |-> Agent]
    OBVIOUS
  <2>. QED BY <1>4, <2>1 DEF PacketShown
<1>. QED BY <1>1, <1>2, <1>3, <1>5, PTL DEF Spec, PacketsBroadcast, PacketCell!Spec

----------------------------------------------------------------------------
(* The stages. Freed, which counts what an MMA warp has not freed in its     *)
(* queue, is Freeings, which looks for a position: there is at most one.     *)
Pending(i, s) == {k \in 1 .. Len(queue[i]) : queue[i][k].op = "free" /\ queue[i][k].stage = s}

LEMMA PendingPosition ==
  ASSUME PipelineTypes, PosInv, QueueInv, NEW i \in Acc, NEW s \in Stage, NEW k \in Pending(i, s)
  PROVE  \E p \in Low(i) .. High(i) - 1 : StageAt(p) = s /\ k = 2 * p + 2 - Executed(i)
<1>. DEFINE x == Executed(i)
            n == Len(queue[i])
            e == High(i)
<1>1. k \in 1 .. n /\ n \in Nat /\ queue[i][k].op = "free" /\ queue[i][k].stage = s /\ queue[i] # <<>>
  <2>1. queue[i] \in Seq(Op)
    BY DEF PipelineTypes
  <2>2. Len(queue[i]) \in Nat /\ (queue[i] = <<>> => Len(queue[i]) = 0)
    BY <2>1
  <2>3. k \in 1 .. Len(queue[i]) /\ queue[i][k].op = "free" /\ queue[i][k].stage = s
    BY DEF Pending
  <2>. QED BY <2>2, <2>3
<1>2. /\ x \in Nat /\ queue[i][k] = OpAt(x + k - 1)
      /\ x + n = IF At(mma(i)) = "run" THEN 2 * Pos(mma(i)) ELSE 2 * K_BLOCKS + 1
  BY <1>1, HeadOp DEF QueueInv
<1>3. /\ e = (IF At(mma(i)) = "run" THEN Pos(mma(i)) ELSE K_BLOCKS) /\ K_BLOCKS \in Nat /\ Pos(mma(i)) \in Nat
      /\ At(mma(i)) = "run" => Pos(mma(i)) < K_BLOCKS
  <2>1. mma(i) \in Agent /\ mma(i) \in Ring
    BY AgentNames, RingMember
  <2>2. Pos(mma(i)) \in Nat /\ K_BLOCKS \in Nat
    BY <2>1, AgentTyped, Shaped DEF PipelineTypes
  <2>3. At(mma(i)) = "run" => Pos(mma(i)) < K_BLOCKS
    BY <2>1 DEF PosInv, Looping
  <2>. QED BY <2>2, <2>3 DEF High
<1>4. Low(i) = x \div 2 /\ x \div 2 \in Nat /\ 2 * (x \div 2) <= x
  <2>1. \A y \in Nat : y \div 2 \in Nat /\ 2 * (y \div 2) <= y
    OBVIOUS
  <2>. QED BY <1>2, <2>1 DEF Low
<1>. DEFINE y == x + k - 1
            p == y \div 2
<1>5. y \in Nat /\ y <= 2 * K_BLOCKS /\ x <= y /\ y < x + n
  <2>1. k \in Int /\ n \in Nat /\ 1 <= k /\ k <= n /\ x \in Nat
    BY <1>1, <1>2
  <2>2. x + n <= 2 * K_BLOCKS + 1 /\ K_BLOCKS \in Nat
    <3>. HIDE DEF x, n
    <3>. QED BY <1>2, <1>3
  <2>. HIDE DEF x, n
  <2>. QED BY <2>1, <2>2
<1>6. y = 2 * p + 1 /\ p \in Nat /\ p < K_BLOCKS /\ StageAt(p) = s
  <2>. HIDE DEF y
  <2>1. queue[i][k] = OpAt(y)
    BY <1>2 DEF y
  <2>. QED BY <1>1, <1>5, <2>1, OpNumber
<1>7. p \in Low(i) .. e - 1 /\ k = 2 * p + 2 - x
  <2>. DEFINE l == x \div 2
  <2>1. l \in Nat /\ 2 * l <= x /\ Low(i) = l
    BY <1>4
  <2>2. k \in Int
    BY <1>1
  <2>3. x + k - 1 = 2 * p + 1 /\ x \in Nat
    BY <1>2, <1>6
  <2>. HIDE DEF x, n, e, p, l
  <2>4. p < e
    BY <1>1, <1>2, <1>3, <1>5, <1>6, <2>2, <2>3
  <2>5. l <= p
    BY <1>1, <1>6, <2>1, <2>2, <2>3
  <2>. QED BY <1>3, <1>6, <2>1, <2>2, <2>3, <2>4, <2>5
<1>. QED BY <1>6, <1>7

LEMMA PositionPending ==
  ASSUME PipelineTypes, PosInv, QueueInv, NEW i \in Acc, NEW s \in Stage, NEW p \in Low(i) .. High(i) - 1,
         StageAt(p) = s
  PROVE  2 * p + 2 - Executed(i) \in Pending(i, s)
<1>. DEFINE x == Executed(i)
            n == Len(queue[i])
            e == High(i)
            k == 2 * p + 2 - x
<1>1. /\ x = (IF At(mma(i)) = "run" THEN 2 * Pos(mma(i)) ELSE 2 * K_BLOCKS + 1) - n /\ x \in Nat /\ n \in Nat
      /\ e = (IF At(mma(i)) = "run" THEN Pos(mma(i)) ELSE K_BLOCKS) /\ K_BLOCKS \in Nat /\ Pos(mma(i)) \in Nat
      /\ At(mma(i)) = "run" => Pos(mma(i)) < K_BLOCKS
  <2>1. mma(i) \in Agent /\ mma(i) \in Ring
    BY AgentNames, RingMember
  <2>2. Pos(mma(i)) \in Nat /\ K_BLOCKS \in Nat
    BY <2>1, AgentTyped, Shaped DEF PipelineTypes
  <2>3. At(mma(i)) = "run" => Pos(mma(i)) < K_BLOCKS
    BY <2>1 DEF PosInv, Looping
  <2>4. queue[i] \in Seq(Op)
    BY DEF PipelineTypes
  <2>5. n \in Nat
    BY <2>4
  <2>6. x \in Nat
    BY DEF QueueInv
  <2>. QED BY <2>2, <2>3, <2>5, <2>6 DEF High, Executed
<1>2. Low(i) = x \div 2 /\ x \div 2 \in Nat /\ x <= 2 * (x \div 2) + 1
  <2>1. \A y \in Nat : y \div 2 \in Nat /\ y <= 2 * (y \div 2) + 1
    OBVIOUS
  <2>. QED BY <1>1, <2>1 DEF Low
<1>3. p \in Nat /\ x <= 2 * p + 1 /\ p < e
  <2>. DEFINE l == x \div 2
  <2>1. l \in Nat /\ x <= 2 * l + 1 /\ p \in l .. e - 1
    BY <1>2
  <2>. HIDE DEF x, n, e, l
  <2>. QED BY <1>1, <2>1
<1>4. k \in 1 .. n /\ x + k - 1 = 2 * p + 1 /\ 2 * p + 1 # 2 * K_BLOCKS
  <2>. HIDE DEF x, n, e
  <2>. QED BY <1>1, <1>3
<1>5. OpAt(2 * p + 1) = [op |-> "free", stage |-> s]
  <2>1. (2 * p + 1) % 2 # 0 /\ (2 * p + 1) \div 2 = p
    BY <1>3
  <2>. QED BY <1>4, <2>1 DEF OpAt
<1>6. queue[i][k] = OpAt(2 * p + 1)
  <2>1. \A j \in 1 .. Len(queue[i]) : queue[i][j] = OpAt(Executed(i) + j - 1)
    BY DEF QueueInv
  <2>. HIDE DEF k
  <2>. QED BY <1>4, <2>1
<1>7. queue[i][k].op = "free" /\ queue[i][k].stage = s
  <2>. HIDE DEF k
  <2>. QED BY <1>5, <1>6
<1>. QED BY <1>4, <1>7 DEF Pending

LEMMA FreedIs ==
  ASSUME PipelineTypes, PosInv, QueueInv, NEW i \in Acc, NEW s \in Stage
  PROVE  Freed(i, s) = Freeings(i, s)
<1>1. Freed(i, s) = Fill(mma(i), s) - Cardinality(Pending(i, s))
  <2>. DEFINE u == Laps(mma(i))
              v == IF s < St(mma(i)) THEN 1 ELSE 0
              w == Cardinality(Pending(i, s))
  <2>1. Freed(i, s) = u + v - w
    BY DEF Freed, Pending, mma, Laps, St, StageAt, Pos, StageOf
  <2>2. u \in Nat /\ v \in Nat
    BY AgentNames, AgentTyped
  <2>3. w \in Nat
    <3>1. queue[i] \in Seq(Op)
      BY DEF PipelineTypes
    <3>2. IsFiniteSet(1 .. Len(queue[i])) /\ Pending(i, s) \subseteq 1 .. Len(queue[i])
      BY <3>1, FS_Interval DEF Pending
    <3>. QED BY <3>2, FS_Subset, FS_CardinalityType
  <2>4. Fill(mma(i), s) = u + v
    BY DEF Fill
  <2>. HIDE DEF u, v, w
  <2>5. Freed(i, s) = Fill(mma(i), s) - w
    BY <2>1, <2>2, <2>3, <2>4
  <2>. QED BY <2>5 DEF w
<1>2. CASE ~Unfreed(i, s)
  <2>1. Pending(i, s) = {}
    BY <1>2, PendingPosition DEF Unfreed
  <2>. QED BY <1>1, <1>2, <2>1, FS_EmptySet DEF Freeings
<1>3. CASE Unfreed(i, s)
  <2>1. PICK p \in Low(i) .. High(i) - 1 : StageAt(p) = s
    BY <1>3 DEF Unfreed
  <2>. DEFINE k == 2 * p + 2 - Executed(i)
  <2>2. k \in Pending(i, s)
    BY <2>1, PositionPending
  <2>3. ASSUME NEW j \in Pending(i, s) PROVE j = k
    <3>1. PICK o \in Low(i) .. High(i) - 1 : StageAt(o) = s /\ j = 2 * o + 2 - Executed(i)
      BY PendingPosition
    <3>2. \A m \in Low(i) .. High(i) - 1 :
            StageAt(m) = s => m = (Fill(mma(i), s) - 1 - Start(i)) * PIPELINE_DEPTH + s
      BY DEF QueueInv
    <3>3. o = p
      BY <2>1, <3>1, <3>2, Zenon
    <3>. QED BY <3>1, <3>3
  <2>4. Pending(i, s) = {k}
    BY <2>2, <2>3
  <2>5. Cardinality(Pending(i, s)) = 1
    BY <2>4, FS_Singleton
  <2>. QED BY <1>1, <1>3, <2>5 DEF Freeings
<1>. QED BY <1>2, <1>3

(* A stage's turn counts its fillings, and an MMA warp has freed all of them *)
(* but the last. While a copy into a stage is under way, both have freed it. *)
StageTakers(s) == {i \in Acc : Freeings(i, s) = Turn(s)}
StageItem(s) == <<smem[0][s], smem[1][s]>>
StagesShown == InSight(Consumed, Acc, [s \in Stage |-> <<smem[0][s], smem[1][s]>>])

LEMMA StagesSeen ==
  PipelineTypes /\ PosInv /\ QueueInv =>
    /\ Consumed = [s \in Stage |-> StageTakers(s)]
    /\ StagesShown = [s \in Stage |-> IF StageTakers(s) = Acc THEN "none" ELSE StageItem(s)]
<1>. SUFFICES ASSUME PipelineTypes, PosInv, QueueInv
              PROVE  /\ Consumed = [s \in Stage |-> StageTakers(s)]
                     /\ StagesShown = [s \in Stage |-> IF StageTakers(s) = Acc THEN "none" ELSE StageItem(s)]
  OBVIOUS
<1>1. \A s \in Stage : {i \in Acc : Freed(i, s) = bar[FULL(s)].turn} = StageTakers(s)
  BY FreedIs DEF StageTakers, Turn
<1>2. Consumed = [s \in Stage |-> StageTakers(s)]
  BY <1>1 DEF Consumed
<1>. QED BY <1>2 DEF StagesShown, InSight, StageItem

StageTurned(s) ==
  /\ Turn(s) \in Nat /\ \A i \in Acc : Freeings(i, s) \in {Turn(s) - 1, Turn(s)}
  /\ \A c \in CTA : Sent(c, s) = Turn(s) + 1 => \A i \in Acc : Freeings(i, s) = Turn(s)

LEMMA StageTurns == ControlInv => \A s \in Stage : StageTurned(s)
<1>. SUFFICES ASSUME ControlInv, NEW s \in Stage PROVE StageTurned(s)
  OBVIOUS
<1>1. PipelineTypes /\ RingInv
  BY DEF ControlInv
<1>2. /\ Turn(s) \in Nat /\ Free(s) \in Nat
      /\ \A c \in CTA : Sent(c, s) \in {Turn(s), Turn(s) + 1} /\ Sent(c, s) <= Free(s) + 1
      /\ \A i \in Acc : Fill(mma(i), s) \in {Turn(s) - 1, Turn(s)} /\ Freeings(i, s) <= Fill(mma(i), s)
  BY <1>1, FullNumbers
<1>3. \A i \in Acc : Freeings(i, s) \in {Free(s), Free(s) + 1}
  BY <1>1 DEF RingInv, EmptyInv
<1>4. 0 \in CTA
  BY AgentNames
<1>5. ASSUME NEW i \in Acc
      PROVE  /\ Freeings(i, s) \in {Turn(s) - 1, Turn(s)}
             /\ \A c \in CTA : Sent(c, s) = Turn(s) + 1 => Freeings(i, s) = Turn(s)
  <2>1. Freeings(i, s) \in {Free(s), Free(s) + 1} /\ Freeings(i, s) <= Turn(s)
    BY <1>2, <1>3
  <2>2. Freeings(i, s) \in {Turn(s) - 1, Turn(s)}
    BY <1>2, <1>4, <2>1
  <2>3. ASSUME NEW c \in CTA, Sent(c, s) = Turn(s) + 1 PROVE Freeings(i, s) = Turn(s)
    BY <1>2, <2>1, <2>3
  <2>. QED BY <2>2, <2>3
<1>. QED BY <1>2, <1>5 DEF StageTurned

LEMMA StageItems ==
  PipelineInv => \A s \in Stage : Turn(s) >= 1 => StageItem(s) \in (Nat \X Nat) \X (Nat \X Nat)
<1>. SUFFICES ASSUME PipelineInv, NEW s \in Stage, Turn(s) >= 1
              PROVE  StageItem(s) \in (Nat \X Nat) \X (Nat \X Nat)
  OBVIOUS
<1>1. PICK n \in Nat, pk \in [Nat -> Nat] : JobInv(n, pk) /\ BlocksInv(pk) /\ SumInv(pk)
  BY DEF PipelineInv, TaskInv
<1>2. PipelineTypes /\ RingInv /\ LAPS \in Nat \ {0} /\ PIPELINE_DEPTH \in Nat /\ s \in Nat
  <2>1. PipelineTypes /\ RingInv /\ WholeLaps /\ shape \in Shapes
    BY DEF PipelineInv, ControlInv, PipelineTypes
  <2>. QED BY <2>1, Whole, Shaped DEF Stage
<1>3. ASSUME NEW c \in CTA PROVE smem[c][s] \in Nat \X Nat
  <2>1. Turn(s) \in Nat /\ Landings(c, s) \in {Turn(s), Turn(s) + 1}
    BY <1>2, FullNumbers
  <2>2. PICK m \in Nat : m = Landings(c, s) - 1
    BY <2>1
  <2>3. smem[c][s] = BlockOf(pk, m, s)
    BY <1>1, <2>1, <2>2 DEF BlocksInv
  <2>4. m \div LAPS \in Nat /\ m % LAPS \in Nat
    <3>1. m \div LAPS \in Nat /\ m % LAPS \in 0 .. LAPS - 1
      BY <1>2, DivNat
    <3>. QED BY <3>1
  <2>5. (m % LAPS) * PIPELINE_DEPTH + s \in Nat
    BY <1>2, <2>4
  <2>6. pk[m \div LAPS + 1] \in Nat
    BY <2>4
  <2>. QED BY <2>3, <2>5, <2>6 DEF BlockOf
<1>. QED BY <1>3, AgentNames DEF StageItem

LEMMA StagesSeenNext ==
  ASSUME UNCHANGED shape, ControlInv'
  PROVE  /\ Consumed' = [s \in Stage |-> StageTakers(s)']
         /\ StagesShown' = [s \in Stage |-> IF StageTakers(s)' = Acc THEN "none" ELSE StageItem(s)']
<1>1. PipelineTypes' /\ PosInv' /\ QueueInv'
  BY DEF ControlInv
<1>2. (PipelineTypes /\ PosInv /\ QueueInv)' =>
        (/\ Consumed = [s \in Stage |-> StageTakers(s)]
         /\ StagesShown = [s \in Stage |-> IF StageTakers(s) = Acc THEN "none" ELSE StageItem(s)])'
  BY StagesSeen, PTL
<1>. QED BY <1>1, <1>2, Fixed

LEMMA StageCellPut ==
  ASSUME PipelineInv, PipelineInv', UNCHANGED shape, NEW z \in Stage,
         StageTakers(z) = Acc, StageTakers(z)' = {}, Turn(z)' >= 1,
         \A s \in Stage \ {z} : StageTakers(s)' = StageTakers(s) /\ StageItem(s)' = StageItem(s)
  PROVE  StageCell!Next
<1>1. PipelineTypes /\ PosInv /\ QueueInv /\ ControlInv'
  BY DEF PipelineInv, ControlInv
<1>2. /\ Consumed = [s \in Stage |-> StageTakers(s)]
      /\ StagesShown = [s \in Stage |-> IF StageTakers(s) = Acc THEN "none" ELSE StageItem(s)]
      /\ Consumed' = [s \in Stage |-> StageTakers(s)']
      /\ StagesShown' = [s \in Stage |-> IF StageTakers(s)' = Acc THEN "none" ELSE StageItem(s)']
  BY <1>1, StagesSeen, StagesSeenNext
<1>3. Acc # {}
  BY AgentNames
<1>4. StageItem(z)' \in (Nat \X Nat) \X (Nat \X Nat)
  <2>1. PipelineInv' =>
          (\A s \in Stage : Turn(s) >= 1 => StageItem(s) \in (Nat \X Nat) \X (Nat \X Nat))'
    BY StageItems, PTL
  <2>. QED BY <2>1, Fixed
<1>5. Consumed[z] = Acc /\ Consumed'[z] = {} /\ Consumed' = [Consumed EXCEPT ![z] = {}] /\ Consumed' # Consumed
  <2>1. Consumed[z] = Acc /\ Consumed'[z] = {}
    BY <1>2
  <2>2. \A s \in Stage \ {z} : Consumed'[s] = Consumed[s]
    BY <1>2
  <2>3. Consumed' = [Consumed EXCEPT ![z] = {}]
    BY <1>2, <2>1, <2>2
  <2>. QED BY <1>3, <2>1, <2>3
<1>6. StagesShown'[z] = StageItem(z)' /\ StagesShown' = [StagesShown EXCEPT ![z] = StagesShown'[z]]
  <2>1. StagesShown'[z] = StageItem(z)'
    BY <1>2, <1>3
  <2>2. \A s \in Stage \ {z} : StagesShown'[s] = StagesShown[s]
    BY <1>2
  <2>. QED BY <1>2, <2>1, <2>2
<1>7. StageCell!Put(z)
  BY <1>4, <1>5, <1>6 DEF StageCell!Put, StagesShown
<1>. QED BY <1>5, <1>7 DEF StageCell!Next

LEMMA StageCellTake ==
  ASSUME PipelineInv, ControlInv', UNCHANGED shape, NEW z \in Stage, NEW i \in Acc,
         i \notin StageTakers(z), StageTakers(z)' = StageTakers(z) \cup {i},
         \A s \in Stage : StageItem(s)' = StageItem(s), \A s \in Stage \ {z} : StageTakers(s)' = StageTakers(s)
  PROVE  StageCell!Next
<1>1. PipelineTypes /\ PosInv /\ QueueInv
  BY DEF PipelineInv, ControlInv
<1>2. /\ Consumed = [s \in Stage |-> StageTakers(s)]
      /\ StagesShown = [s \in Stage |-> IF StageTakers(s) = Acc THEN "none" ELSE StageItem(s)]
      /\ Consumed' = [s \in Stage |-> StageTakers(s)']
      /\ StagesShown' = [s \in Stage |-> IF StageTakers(s)' = Acc THEN "none" ELSE StageItem(s)']
  BY <1>1, StagesSeen, StagesSeenNext
<1>3. /\ Consumed[z] = StageTakers(z) /\ Consumed'[z] = StageTakers(z) \cup {i}
      /\ Consumed' = [Consumed EXCEPT ![z] = @ \cup {i}] /\ i \notin Consumed[z] /\ Consumed' # Consumed
  <2>1. Consumed[z] = StageTakers(z) /\ Consumed'[z] = StageTakers(z) \cup {i}
    BY <1>2
  <2>2. \A s \in Stage \ {z} : Consumed'[s] = Consumed[s]
    BY <1>2
  <2>3. Consumed' = [Consumed EXCEPT ![z] = @ \cup {i}]
    BY <1>2, <2>1, <2>2
  <2>4. i \notin Consumed[z] /\ Consumed'[z] # Consumed[z]
    BY <2>1
  <2>. QED BY <2>1, <2>3, <2>4
<1>4. StagesShown' = IF Consumed'[z] = Acc THEN [StagesShown EXCEPT ![z] = "none"] ELSE StagesShown
  <2>0. StageTakers(z) # Acc
    OBVIOUS
  <2>1. \A s \in Stage \ {z} : StagesShown'[s] = StagesShown[s]
    BY <1>2
  <2>2. StagesShown'[z] = IF Consumed'[z] = Acc THEN "none" ELSE StagesShown[z]
    BY <1>2, <1>3, <2>0
  <2>3. CASE Consumed'[z] = Acc
    BY <1>2, <2>1, <2>2, <2>3
  <2>4. CASE Consumed'[z] # Acc
    <3>1. \A s \in Stage : StagesShown'[s] = StagesShown[s]
      BY <2>1, <2>2, <2>4
    <3>2. StagesShown' = StagesShown
      BY <1>2, <3>1
    <3>. QED BY <2>4, <3>2
  <2>. QED BY <2>3, <2>4
<1>5. StageCell!Take(z, i)
  BY <1>3, <1>4 DEF StageCell!Take, StagesShown
<1>. QED BY <1>3, <1>5 DEF StageCell!Next

LEMMA StageCellStill ==
  ASSUME PipelineInv, ControlInv', UNCHANGED shape,
         \A s \in Stage : StageTakers(s)' = StageTakers(s)
                          /\ (StageTakers(s) = Acc \/ StageItem(s)' = StageItem(s))
  PROVE  UNCHANGED <<StagesShown, Consumed>>
<1>1. PipelineTypes /\ PosInv /\ QueueInv
  BY DEF PipelineInv, ControlInv
<1>2. /\ Consumed = [s \in Stage |-> StageTakers(s)]
      /\ StagesShown = [s \in Stage |-> IF StageTakers(s) = Acc THEN "none" ELSE StageItem(s)]
      /\ Consumed' = [s \in Stage |-> StageTakers(s)']
      /\ StagesShown' = [s \in Stage |-> IF StageTakers(s)' = Acc THEN "none" ELSE StageItem(s)']
  BY <1>1, StagesSeen, StagesSeenNext
<1>3. Consumed' = Consumed
  BY <1>2
<1>4. StagesShown' = StagesShown
  BY <1>2
<1>. QED BY <1>3, <1>4

(* What a step does to a stage: no more than its turn, or than one freeing.  *)
FreeingsKept == \A i \in Acc : \A s \in Stage : Freeings(i, s)' = Freeings(i, s)

LEMMA StageKept ==
  ASSUME PipelineInv, ControlInv', UNCHANGED <<shape, smem>>, FreeingsKept,
         \A s \in Stage : bar'[FULL(s)] = bar[FULL(s)]
  PROVE  UNCHANGED <<StagesShown, Consumed>>
<1>1. \A s \in Stage : StageTakers(s)' = StageTakers(s) /\ StageItem(s)' = StageItem(s)
  <2>. SUFFICES ASSUME NEW s \in Stage PROVE StageTakers(s)' = StageTakers(s) /\ StageItem(s)' = StageItem(s)
    OBVIOUS
  <2>1. Turn(s)' = Turn(s)
    BY DEF Turn, FULL
  <2>2. StageTakers(s)' = StageTakers(s)
    BY <2>1 DEF FreeingsKept, StageTakers
  <2>. QED BY <2>2 DEF StageItem
<1>. QED BY <1>1, StageCellStill

LEMMA StageFills ==
  ASSUME PipelineInv, PipelineInv', UNCHANGED shape, FreeingsKept, NEW z \in Stage, NEW c \in CTA,
         Sent(c, z) = Turn(z) + 1, Turn(z)' \in {Turn(z), Turn(z) + 1},
         \A s \in Stage \ {z} : Turn(s)' = Turn(s) /\ StageItem(s)' = StageItem(s)
  PROVE  StageCell!Next \/ UNCHANGED <<StagesShown, Consumed>>
<1>1. ControlInv /\ ControlInv'
  BY DEF PipelineInv
<1>2. Turn(z) \in Nat /\ \A i \in Acc : Freeings(i, z) = Turn(z) /\ Freeings(i, z)' = Turn(z)
  BY <1>1, StageTurns DEF FreeingsKept, StageTurned
<1>3. StageTakers(z) = Acc
  BY <1>2 DEF StageTakers
<1>4. \A s \in Stage \ {z} : StageTakers(s)' = StageTakers(s)
  BY DEF StageTakers, FreeingsKept
<1>5. CASE Turn(z)' = Turn(z)
  <2>1. StageTakers(z)' = Acc
    BY <1>2, <1>5 DEF StageTakers
  <2>2. \A s \in Stage : StageTakers(s)' = StageTakers(s)
                          /\ (StageTakers(s) = Acc \/ StageItem(s)' = StageItem(s))
    BY <1>3, <1>4, <2>1
  <2>. QED BY <1>1, <2>2, StageCellStill
<1>6. CASE Turn(z)' = Turn(z) + 1
  <2>1. \A i \in Acc : Freeings(i, z)' # Turn(z)'
    BY <1>2, <1>6
  <2>2. StageTakers(z)' = {}
    BY <2>1 DEF StageTakers
  <2>3. Turn(z)' >= 1
    BY <1>2, <1>6
  <2>. QED BY <1>3, <1>4, <2>2, <2>3, StageCellPut
<1>. QED BY <1>5, <1>6

LEMMA StageLands ==
  ASSUME PipelineInv, PipelineInv', UNCHANGED shape, NEW t \in loading, Transfer(t)
  PROVE  StageCell!Next \/ UNCHANGED <<StagesShown, Consumed>>
<1>1. PipelineTypes /\ RingInv
  BY DEF PipelineInv, ControlInv
<1>. DEFINE z == t[2]
<1>2. /\ t[1] \in CTA /\ z \in Stage /\ smem' = [smem EXCEPT ![t[1]][z] = t[3]]
      /\ bar'[FULL(z)] = Landed(bar[FULL(z)]) /\ OnlyBars({FULL(z)}) /\ UNCHANGED <<agent, queue>>
  BY <1>1, TransferStep
<1>. HIDE DEF z
<1>3. FreeingsKept
  BY <1>1, <1>2, QueueOthers DEF FreeingsKept
<1>4. Sent(t[1], z) = Turn(z) + 1
  <2>1. Flying(t[1], z)
    BY DEF Flying, z
  <2>. QED BY <1>1, <1>2, <2>1, FullNumbers
<1>5. Turn(z)' \in {Turn(z), Turn(z) + 1}
  <2>1. /\ Turn(z) \in Int /\ Announced(z) \in Int /\ Landings(0, z) \in Int /\ Landings(1, z) \in Int
        /\ bar[FULL(z)] = Bar(Turn(z), 1 - (Announced(z) - Turn(z)),
                              2 * Announced(z) - Landings(0, z) - Landings(1, z), 1)
    BY <1>1, <1>2, FullNumbers, RingNumbers, AgentNames
  <2>2. PICK p \in Int : p = 1 - (Announced(z) - Turn(z))
    BY <2>1
  <2>3. PICK x \in Int : x = 2 * Announced(z) - Landings(0, z) - Landings(1, z)
    BY <2>1
  <2>4. bar'[FULL(z)] = Landed(Bar(Turn(z), p, x, 1))
    BY <1>2, <2>1, <2>2, <2>3
  <2>5. bar'[FULL(z)] \in {Bar(Turn(z) + 1, 1, 0, 1), Bar(Turn(z), p, x - 1, 1)}
    BY <2>1, <2>4, BarLands
  <2>6. bar'[FULL(z)].turn \in {Turn(z), Turn(z) + 1}
    BY <2>5, TurnOf
  <2>. QED BY <2>6 DEF Turn, FULL
<1>6. ASSUME NEW s \in Stage \ {z} PROVE Turn(s)' = Turn(s) /\ StageItem(s)' = StageItem(s)
  <2>1. FULL(s) \notin {FULL(z)} /\ FULL(s) \in Barrier
    BY BarApart, BarNames
  <2>2. bar'[FULL(s)] = bar[FULL(s)]
    BY <1>2, <2>1 DEF OnlyBars
  <2>3. \A d \in CTA : smem'[d][s] = smem[d][s]
    BY <1>1, <1>2 DEF PipelineTypes
  <2>. QED BY <2>2, <2>3, AgentNames DEF Turn, FULL, StageItem
<1>. QED BY <1>2, <1>3, <1>4, <1>5, <1>6, StageFills

LEMMA StageExpects ==
  ASSUME PipelineInv, PipelineInv', UNCHANGED shape, TmaExpect
  PROVE  StageCell!Next \/ UNCHANGED <<StagesShown, Consumed>>
<1>1. PipelineTypes /\ RingInv /\ PosInv
  BY DEF PipelineInv, ControlInv
<1>2. PICK z \in Stage : z = St(tma(0))
  BY <1>1, AgentNames, AgentTyped
<1>3. /\ At(tma(0)) = "expect" /\ Turns(tma(0)) /\ UNCHANGED <<smem, queue>>
      /\ bar'[FULL(z)] = ArriveExpect(bar[FULL(z)], 2) /\ OnlyBars({FULL(z)})
  BY <1>1, <1>2, TmaExpectStep
<1>4. FreeingsKept
  <2>1. \A x \in Agent \ {tma(0)} : agent'[x] = agent[x]
    BY <1>3 DEF Turns, Becomes
  <2>2. \A i \in Acc : agent'[mma(i)] = agent[mma(i)]
    BY <2>1, AgentNames, Apart
  <2>. QED BY <1>1, <1>3, <2>2, QueueOthers DEF FreeingsKept
<1>5. /\ Turn(z) \in Nat /\ Announced(z) = Turn(z) /\ Sent(0, z) = Turn(z) + 1 /\ 0 \in CTA
      /\ bar[FULL(z)] = Bar(Turn(z), 1 - (Announced(z) - Turn(z)),
                            2 * Announced(z) - Landings(0, z) - Landings(1, z), 1)
  <2>1. /\ Turn(z) \in Nat /\ Announced(z) \in {Turn(z), Turn(z) + 1} /\ Sent(0, z) \in {Turn(z), Turn(z) + 1}
        /\ bar[FULL(z)] = Bar(Turn(z), 1 - (Announced(z) - Turn(z)),
                              2 * Announced(z) - Landings(0, z) - Landings(1, z), 1)
    BY <1>1, FullNumbers, AgentNames
  <2>2. Sent(0, z) = Announced(z) + 1
    BY <1>2, <1>3 DEF Sent, Announced
  <2>. QED BY <2>1, <2>2, AgentNames
<1>6. Turn(z)' \in {Turn(z), Turn(z) + 1}
  <2>1. Landings(0, z) \in Int /\ Landings(1, z) \in Int /\ Announced(z) \in Int
    BY <1>1, RingNumbers, AgentNames
  <2>2. PICK x \in Int : x = 2 * Announced(z) - Landings(0, z) - Landings(1, z)
    BY <2>1
  <2>3. bar[FULL(z)] = Bar(Turn(z), 1, x, 1)
    <3>1. 1 - (Announced(z) - Turn(z)) = 1
      BY <1>5
    <3>. QED BY <1>5, <2>2, <3>1
  <2>4. bar'[FULL(z)] = ArriveExpect(Bar(Turn(z), 1, x, 1), 2)
    BY <1>3, <2>3
  <2>5. bar'[FULL(z)] \in {Bar(Turn(z) + 1, 1, 0, 1), Bar(Turn(z), 0, x + 2, 1)}
    BY <1>5, <2>4, BarLands
  <2>6. bar'[FULL(z)].turn \in {Turn(z), Turn(z) + 1}
    BY <2>5, TurnOf
  <2>. QED BY <2>6 DEF Turn, FULL
<1>7. ASSUME NEW s \in Stage \ {z} PROVE Turn(s)' = Turn(s) /\ StageItem(s)' = StageItem(s)
  <2>1. FULL(s) \notin {FULL(z)} /\ FULL(s) \in Barrier
    BY BarApart, BarNames
  <2>2. bar'[FULL(s)] = bar[FULL(s)]
    BY <1>3, <2>1 DEF OnlyBars
  <2>. QED BY <1>3, <2>2 DEF Turn, FULL, StageItem
<1>. QED BY <1>4, <1>5, <1>6, <1>7, StageFills

LEMMA StageQuiet ==
  ASSUME PipelineInv, ControlInv', UNCHANGED <<shape, smem>>, FreeingsKept,
         NEW S, OnlyBars(S), \A b \in S : b[1] # "full"
  PROVE  UNCHANGED <<StagesShown, Consumed>>
<1>1. \A s \in Stage : FULL(s) \in Barrier \ S
  BY BarNames, BarKinds
<1>2. \A s \in Stage : bar'[FULL(s)] = bar[FULL(s)]
  BY <1>1 DEF OnlyBars
<1>. QED BY <1>2, StageKept

LEMMA FreeingsStay ==
  ASSUME PipelineTypes, UNCHANGED <<shape, queue>>, NEW a \in Agent, \A i \in Acc : a # mma(i),
         \A x \in Agent \ {a} : agent'[x] = agent[x]
  PROVE  FreeingsKept
<1>1. \A i \in Acc : agent'[mma(i)] = agent[mma(i)]
  BY AgentNames
<1>. QED BY <1>1, QueueOthers DEF FreeingsKept

LEMMA StageReceives ==
  ASSUME PipelineInv, ControlInv', UNCHANGED shape, NEW a \in Agent, Receive(a)
  PROVE  UNCHANGED <<StagesShown, Consumed>>
<1>1. PipelineTypes /\ PosInv
  BY DEF PipelineInv, ControlInv
<1>2. OnlyBars({C2P}) /\ UNCHANGED <<smem, queue>> /\ At(a) = "idle" /\ \A x \in Agent \ {a} : agent'[x] = agent[x]
  BY <1>1, ReceiveStep, ReceiveAgent DEF Becomes
<1>3. ASSUME NEW i \in Acc PROVE \A s \in Stage : Freeings(i, s)' = Freeings(i, s)
  <2>1. CASE a = mma(i)
    <3>1. Becomes(a, NextPlace(a), Pos(a), Laps(a), Uses(a), Got(a) + 1)
      BY <1>1, <2>1, ReceivesAt, RingMember
    <3>2. NextPlace(a) # "run"
      BY <2>1, Kinds DEF NextPlace, Starts, RolePlace, FetchPlace
    <3>3. /\ Laps(mma(i))' = Laps(mma(i)) /\ Pos(mma(i))' = Pos(mma(i)) /\ Uses(mma(i))' = Uses(mma(i))
          /\ At(mma(i))' = "run" <=> At(mma(i)) = "run"
      BY <1>2, <2>1, <3>1, <3>2 DEF Becomes
    <3>. QED BY <1>1, <1>2, <3>3, QueueSame
  <2>2. CASE a # mma(i)
    BY <1>1, <1>2, <2>2, AgentNames, QueueOthers
  <2>. QED BY <2>1, <2>2
<1>4. FreeingsKept
  BY <1>3 DEF FreeingsKept
<1>5. \A b \in {C2P} : b[1] # "full"
  BY BarKinds
<1>. QED BY <1>2, <1>4, <1>5, StageQuiet

LEMMA StageCopies ==
  ASSUME PipelineInv, ControlInv', UNCHANGED shape, NEW c \in CTA, TmaStage(c)
  PROVE  UNCHANGED <<StagesShown, Consumed>>
<1>1. PipelineTypes /\ PosInv
  BY DEF PipelineInv, ControlInv
<1>2. At(tma(c)) = "run" /\ tma(c) \in Agent /\ tma(c) \in Ring /\ UNCHANGED <<smem, queue>>
  BY <1>1, TmaStageStep, AgentNames, RingMember
<1>3. Loads(c)
  BY <1>1, <1>2 DEF PosInv, Looping, Loads
<1>4. bar' = bar /\ IF c = 0 THEN Moves(tma(c), "expect") ELSE Turns(tma(c))
  BY <1>1, <1>3, TmaStageStep
<1>5. \A x \in Agent \ {tma(c)} : agent'[x] = agent[x]
  BY <1>4 DEF Moves, Turns, Becomes
<1>6. FreeingsKept
  BY <1>1, <1>2, <1>5, Apart, FreeingsStay
<1>. QED BY <1>2, <1>4, <1>6, StageKept

LEMMA StageOfMma ==
  ASSUME PipelineInv, ControlInv', UNCHANGED shape, NEW i \in Acc,
         MmaAcquire(i) \/ MmaStage(i) \/ TensorMma(i)
  PROVE  UNCHANGED <<StagesShown, Consumed>>
<1>1. PipelineTypes /\ WholeLaps /\ PosInv /\ LapsInv /\ RingInv /\ QueueInv /\ TmemInv
  BY DEF PipelineInv, ControlInv
<1>2. CASE MmaAcquire(i)
  <2>1. Moves(mma(i), "run") /\ UNCHANGED <<bar, smem, queue>>
    BY <1>1, <1>2, AcquireStep
  <2>2. \A x \in Agent \ {mma(i)} : agent'[x] = agent[x]
    BY <2>1 DEF Moves, Becomes
  <2>3. ASSUME NEW j \in Acc PROVE \A s \in Stage : Freeings(j, s)' = Freeings(j, s)
    <3>1. CASE j = i
      BY <1>1, <1>2, <3>1, QueueAcquire
    <3>2. CASE j # i
      <4>1. agent'[mma(j)] = agent[mma(j)]
        BY <2>2, <3>2, AgentNames, Apart
      <4>. QED BY <1>1, <2>1, <4>1, QueueOthers
    <3>. QED BY <3>1, <3>2
  <2>4. FreeingsKept
    BY <2>3 DEF FreeingsKept
  <2>. QED BY <2>1, <2>4, StageKept
<1>3. CASE MmaStage(i)
  <2>1. Turns(mma(i)) /\ UNCHANGED <<bar, smem>> /\ \A j \in Acc \ {i} : queue'[j] = queue[j]
    <3>1. UNCHANGED <<bar, smem>>
      BY <1>3 DEF MmaStage
    <3>. QED BY <1>1, <1>3, <3>1, MmaTurns, QueueTurn
  <2>2. \A x \in Agent \ {mma(i)} : agent'[x] = agent[x]
    BY <2>1 DEF Turns, Becomes
  <2>3. ASSUME NEW j \in Acc PROVE \A s \in Stage : Freeings(j, s)' = Freeings(j, s)
    <3>1. CASE j = i
      BY <1>1, <1>3, <3>1, QueueTurn
    <3>2. CASE j # i
      <4>1. agent'[mma(j)] = agent[mma(j)]
        BY <2>2, <3>2, AgentNames, Apart
      <4>. QED BY <1>1, <2>1, <3>2, <4>1, QueueOthers
    <3>. QED BY <3>1, <3>2
  <2>4. FreeingsKept
    BY <2>3 DEF FreeingsKept
  <2>. QED BY <2>1, <2>4, StageKept
<1>4. CASE TensorMma(i)
  <2>1. /\ queue[i] # <<>> /\ Head(queue[i]).op # "free" /\ queue' = [queue EXCEPT ![i] = Tail(@)]
        /\ UNCHANGED <<bar, agent, smem>>
    BY <1>1, <1>4, TensorMmaStep
  <2>2. FreeingsKept
    BY <1>1, <2>1, FreesNone DEF FreeingsKept
  <2>. QED BY <2>1, <2>2, StageKept
<1>. QED BY <1>2, <1>3, <1>4

LEMMA StageFrees ==
  ASSUME PipelineInv, ControlInv', UNCHANGED shape, NEW i \in Acc, TensorCommit(i)
  PROVE  StageCell!Next \/ UNCHANGED <<StagesShown, Consumed>>
<1>1. PipelineTypes /\ PosInv /\ RingInv /\ QueueInv
  BY DEF PipelineInv, ControlInv
<1>. DEFINE o == Head(queue[i])
<1>2. /\ queue[i] # <<>> /\ queue' = [queue EXCEPT ![i] = Tail(@)] /\ UNCHANGED <<agent, smem>>
      /\ o.op = "free" /\ o.stage \in Stage => OnlyBars({EMPTY(c, o.stage) : c \in CTA})
      /\ o.op # "free" => OnlyBars({TFULL(c, i) : c \in CTA})
  BY <1>1, CommitStep
<1>3. CASE o.op # "free"
  <2>1. FreeingsKept
    BY <1>1, <1>2, <1>3, FreesNone DEF FreeingsKept
  <2>2. \A b \in {TFULL(c, i) : c \in CTA} : b[1] # "full"
    BY BarKinds
  <2>. QED BY <1>2, <1>3, <2>1, <2>2, StageQuiet
<1>4. CASE o.op = "free"
  <2>1. PICK z \in Stage : z = o.stage
    <3>1. o.stage \in Stage
      BY <1>1, <1>2, <1>4, QueuePops
    <3>. QED BY <3>1
  <2>2. \A j \in Acc : \A s \in Stage :
          Freeings(j, s)' = IF j = i /\ s = z THEN Freeings(j, s) + 1 ELSE Freeings(j, s)
    BY <1>1, <1>4, <2>1, RingFrees
  <2>3. \A s \in Stage : Turn(s)' = Turn(s) /\ StageItem(s)' = StageItem(s)
    <3>1. OnlyBars({EMPTY(c, z) : c \in CTA})
      BY <1>2, <1>4, <2>1
    <3>2. \A s \in Stage : FULL(s) \in Barrier \ {EMPTY(c, z) : c \in CTA}
      BY BarApart, BarNames
    <3>3. \A s \in Stage : bar'[FULL(s)] = bar[FULL(s)]
      BY <3>1, <3>2 DEF OnlyBars
    <3>4. \A s \in Stage : Turn(s)' = Turn(s)
      <4>. SUFFICES ASSUME NEW s \in Stage PROVE Turn(s)' = Turn(s)
        OBVIOUS
      <4>. QED BY <3>3 DEF Turn, FULL
    <3>5. \A s \in Stage : StageItem(s)' = StageItem(s)
      BY <1>2 DEF StageItem
    <3>. QED BY <3>4, <3>5
  <2>4. Freeings(i, z) = Turn(z) - 1 /\ Turn(z) \in Nat /\ Freeings(i, z)' = Turn(z)
    <3>1. Freeings(i, z) \in {Turn(z) - 1, Turn(z)} /\ Turn(z) \in Nat
      BY StageTurns DEF PipelineInv, StageTurned
    <3>2. ControlInv' => (\A s \in Stage : StageTurned(s))'
      BY StageTurns, PTL
    <3>3. Freeings(i, z)' \in {Turn(z)' - 1, Turn(z)'}
      BY <3>2, Fixed DEF StageTurned
    <3>4. Freeings(i, z)' = Freeings(i, z) + 1 /\ Turn(z)' = Turn(z)
      BY <2>2, <2>3
    <3>. QED BY <3>1, <3>3, <3>4
  <2>5. i \notin StageTakers(z) /\ StageTakers(z)' = StageTakers(z) \cup {i}
    <3>1. Freeings(i, z) # Turn(z) /\ Freeings(i, z)' = Turn(z)' /\ Turn(z)' = Turn(z)
      BY <2>3, <2>4
    <3>2. \A j \in Acc \ {i} : Freeings(j, z)' = Freeings(j, z)
      BY <2>2
    <3>. QED BY <3>1, <3>2 DEF StageTakers
  <2>6. \A s \in Stage \ {z} : StageTakers(s)' = StageTakers(s)
    BY <2>2, <2>3 DEF StageTakers
  <2>. QED BY <2>3, <2>5, <2>6, StageCellTake
<1>. QED BY <1>3, <1>4

LEMMA StagesStep ==
  ASSUME PipelineInv, PipelineInv', UNCHANGED shape, Step
  PROVE  StageCell!Next \/ UNCHANGED <<StagesShown, Consumed>>
<1>1. PipelineTypes /\ ControlInv'
  BY DEF PipelineInv, ControlInv
<1>2. ASSUME Publish PROVE UNCHANGED <<StagesShown, Consumed>>
  <2>1. /\ OnlyBars({P2C(c) : c \in CTA}) /\ UNCHANGED <<smem, queue>> /\ Moves(tma(0), "idle")
        /\ tma(0) \in Agent
    BY <1>1, <1>2, PublishStep, AgentNames
  <2>2. \A b \in {P2C(c) : c \in CTA} : b[1] # "full"
    BY BarKinds
  <2>3. \A x \in Agent \ {tma(0)} : agent'[x] = agent[x]
    BY <2>1 DEF Moves, Becomes
  <2>4. FreeingsKept
    BY <1>1, <2>1, <2>3, Apart, FreeingsStay
  <2>. QED BY <1>1, <2>1, <2>2, <2>4, StageQuiet
<1>3. ASSUME NEW c \in CTA, NEW i \in Acc, ConsumerWait(c, i) PROVE UNCHANGED <<StagesShown, Consumed>>
  <2>1. con(c, i) \in Agent /\ UNCHANGED <<bar, smem, queue>>
    BY <1>3, AgentNames DEF ConsumerWait
  <2>2. \A x \in Agent \ {con(c, i)} : agent'[x] = agent[x]
    BY <1>1, <1>3, ReadAgent DEF Becomes
  <2>3. FreeingsKept
    BY <1>1, <2>1, <2>2, Apart, FreeingsStay
  <2>. QED BY <1>1, <2>1, <2>3, StageKept
<1>4. ASSUME NEW c \in CTA, NEW i \in Acc, ConsumerDone(c, i) PROVE UNCHANGED <<StagesShown, Consumed>>
  <2>1. /\ con(c, i) \in Agent /\ UNCHANGED <<smem, queue>> /\ OnlyBars({TEMPTY(i)})
        /\ Moves(con(c, i), "idle") /\ \A b \in {TEMPTY(i)} : b[1] # "full"
    BY <1>1, <1>4, AgentNames, BarKinds, DoneStep
  <2>2. \A x \in Agent \ {con(c, i)} : agent'[x] = agent[x]
    BY <2>1 DEF Moves, Becomes
  <2>3. FreeingsKept
    BY <1>1, <2>1, <2>2, Apart, FreeingsStay
  <2>. QED BY <1>1, <2>1, <2>3, StageQuiet
<1>5. (\E a \in Agent : Receive(a)) => UNCHANGED <<StagesShown, Consumed>>
  BY <1>1, StageReceives
<1>6. (\E c \in CTA : TmaStage(c)) => UNCHANGED <<StagesShown, Consumed>>
  BY <1>1, StageCopies
<1>7. TmaExpect \/ (\E t \in loading : Transfer(t)) => StageCell!Next \/ UNCHANGED <<StagesShown, Consumed>>
  BY StageExpects, StageLands
<1>8. (\E i \in Acc : MmaAcquire(i) \/ MmaStage(i) \/ TensorMma(i) \/ TensorCommit(i)) =>
        StageCell!Next \/ UNCHANGED <<StagesShown, Consumed>>
  BY <1>1, StageOfMma, StageFrees
<1>. QED BY StepCases, <1>2, <1>3, <1>4, <1>5, <1>6, <1>7, <1>8

LEMMA StagesStill ==
  ASSUME PipelineInv, ControlInv', UNCHANGED vars
  PROVE  UNCHANGED <<StagesShown, Consumed>>
<1>1. PipelineTypes /\ UNCHANGED <<shape, bar, agent, smem, queue>>
  BY DEF PipelineInv, ControlInv, vars
<1>2. FreeingsKept
  BY <1>1, QueueOthers DEF FreeingsKept
<1>. QED BY <1>1, <1>2, StageKept

LEMMA StagesInit ==
  ASSUME Init, PipelineInv
  PROVE  Consumed = [s \in Stage |-> Acc] /\ StagesShown = [s \in Stage |-> "none"]
<1>1. PipelineTypes /\ PosInv /\ RingInv /\ QueueInv
  BY DEF PipelineInv, ControlInv
<1>2. ASSUME NEW s \in Stage PROVE StageTakers(s) = Acc
  <2>1. Turn(s) = 0
    BY BarNames DEF Init, Turn, Armed
  <2>2. ASSUME NEW i \in Acc PROVE Freeings(i, s) = 0
    <3>1. Fill(mma(i), s) \in {Turn(s) - 1, Turn(s)} /\ Fill(mma(i), s) \in Nat
      BY <1>1, AgentNames, FullNumbers, FillNat
    <3>2. Fill(mma(i), s) = 0
      BY <2>1, <3>1
    <3>3. Free(s) = 0 /\ Freeings(i, s) \in {Free(s), Free(s) + 1} /\ Freeings(i, s) <= Fill(mma(i), s)
      <4>1. Free(s) = 0
        BY BarNames, AgentNames DEF Init, Free, Armed
      <4>. QED BY <1>1, <4>1, FullNumbers DEF RingInv, EmptyInv
    <3>. QED BY <3>2, <3>3
  <2>. QED BY <2>1, <2>2 DEF StageTakers
<1>3. /\ Consumed = [s \in Stage |-> StageTakers(s)]
      /\ StagesShown = [s \in Stage |-> IF StageTakers(s) = Acc THEN "none" ELSE StageItem(s)]
  BY <1>1, StagesSeen
<1>. QED BY <1>2, <1>3

(* A stage that both CTAs' copies have filled is read by both MMA warps, and *)
(* freed by both, before a copy changes it: StagesBroadcast, whatever the    *)
(* depth of the ring and the tasks, as long as tasks take whole laps.        *)
THEOREM StagesReachBoth == Spec /\ WholeLaps => StagesBroadcast
<1>1. Init /\ WholeLaps => PipelineInv
  BY ControlInit, TaskInit DEF PipelineInv
<1>2. PipelineInv /\ [Next]_vars => PipelineInv'
  BY PipelineNext
<1>3. Init /\ PipelineInv => StageCell!Init
  <2>. SUFFICES ASSUME Init, PipelineInv PROVE StageCell!Init
    OBVIOUS
  <2>1. Consumed = [s \in Stage |-> Acc] /\ StagesShown = [s \in Stage |-> "none"]
    BY StagesInit
  <2>. QED BY <2>1 DEF StageCell!Init, StagesShown
<1>4. PipelineInv /\ PipelineInv' /\ [Next]_vars =>
        [StageCell!Next /\ UNCHANGED [s \in Stage |-> Acc]]_<<[s \in Stage |-> Acc],
          InSight(Consumed, Acc, [s \in Stage |-> <<smem[0][s], smem[1][s]>>]), Consumed>>
  <2>. SUFFICES ASSUME PipelineInv, PipelineInv', [Next]_vars
                PROVE  /\ StageCell!Next \/ UNCHANGED <<StagesShown, Consumed>>
                       /\ UNCHANGED [s \in Stage |-> Acc]
    BY DEF StagesShown
  <2>1. UNCHANGED shape
    BY Stutters DEF vars
  <2>2. UNCHANGED [s \in Stage |-> Acc]
    BY <2>1, Fixed
  <2>3. CASE Step /\ UNCHANGED shape
    BY <2>2, <2>3, StagesStep
  <2>4. CASE UNCHANGED vars
    BY <2>2, <2>4, StagesStill DEF PipelineInv
  <2>. QED BY <2>3, <2>4, Stutters
<1>. QED BY <1>1, <1>2, <1>3, <1>4, PTL DEF Spec, StagesBroadcast, StageCell!Spec
=============================================================================
