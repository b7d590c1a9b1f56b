---------------------------- MODULE GemmPipeline ----------------------------
(***************************************************************************)
(* One cluster of the GEMM + reduce-scatter kernel inside its task loop     *)
(* (src/tirx_kernels/gemm/gemm_reduce_scatter.py): the warps of its two     *)
(* CTAs, the asynchronous copies and tensor-core operations they issue, and *)
(* the barriers between them.                                              *)
(*                                                                         *)
(*   <<"tma", c>>     lane 0 of warp 11 of CTA c: the lane elect.sync picks *)
(*                    for the copies and, in CTA 0, the one that publishes *)
(*   <<"mma", i>>     the MMA warp of accumulator i (both are in CTA 0)     *)
(*   <<"con", c, i>>  consumer warpgroup i of CTA c                         *)
(*   <<"rest", 1>>    the threads with no role in a task (warp 10, the MMA  *)
(*                    warps of CTA 1, the lanes not elected)                *)
(*                                                                         *)
(* K blocks go through a ring of PIPELINE_DEPTH stages. A task always uses  *)
(* whole laps of the ring, draining the stages left over, so that one phase *)
(* bit per thread serves all the stages of a lap.                          *)
(***************************************************************************)
EXTENDS MBarrier, Sequences, FiniteSets

CONSTANT Shapes
ASSUME ShapesAssumption ==
  Shapes \subseteq [depth : Nat \ {0}, blocks : Nat \ {0}, tasks : Nat]

VARIABLE shape                    \* the specialization, once and for all
PIPELINE_DEPTH == shape.depth     \* stages of the shared-memory ring
K_BLOCKS == shape.blocks          \* k_local / BLK_K
TASKS == shape.tasks              \* bound: the packets that precede the exit

CTA == 0 .. 1
Acc == 0 .. 1                     \* NUM_CONSUMER accumulators in TMEM
Stage == 0 .. PIPELINE_DEPTH - 1
LAPS == (K_BLOCKS + PIPELINE_DEPTH - 1) \div PIPELINE_DEPTH
Agent == ({"tma"} \X CTA) \cup ({"mma"} \X Acc) \cup ({"con"} \X CTA \X Acc) \cup {<<"rest", 1>>}
CtaOf(a) == IF a[1] = "mma" THEN 0 ELSE a[2]

(* smem_pipe, tmem_pipe, and the scheduler's p2c and c2p.                    *)
FULL(s) == <<"full", s>>          \* CTA 0's counts the copies of both CTAs
EMPTY(c, s) == <<"empty", c, s>>
TFULL(c, i) == <<"tfull", c, i>>
TEMPTY(i) == <<"tempty", i>>
P2C(c) == <<"p2c", c>>
C2P == <<"c2p">>
Barrier == {FULL(s) : s \in Stage} \cup {EMPTY(c, s) : c \in CTA, s \in Stage}
             \cup {TFULL(c, i) : c \in CTA, i \in Acc} \cup {TEMPTY(i) : i \in Acc}
             \cup {P2C(c) : c \in CTA} \cup {C2P}

VARIABLES
  bar,       \* the barriers
  agent,     \* per agent: where it is, its K position, and the three phases
             \*   it keeps: laps of the ring, uses of TMEM, packets received
  packet,    \* the packet in shared memory, and how many were published
  loading,   \* copies in flight: CTA, stage, block
  smem,      \* per CTA and stage: the block it holds
  queue,     \* per MMA warp: tensor-core operations issued and not done
  acc        \* per accumulator: the blocks summed so far

vars == <<shape, bar, agent, packet, loading, smem, queue, acc>>

(* Arrivals per phase, an agent standing for all its threads.                *)
FirstReader(b) == CASE b[1] = "c2p" -> Cardinality(Agent) [] OTHER -> 1
OneReceiverShort(b) == CASE b[1] = "c2p" -> Cardinality(Agent) - 1
                         [] b[1] \in {"empty", "tempty"} -> 2
                         [] OTHER -> 1
Count(b) == CASE b[1] = "c2p" -> Cardinality(Agent)
              [] b[1] \in {"empty", "tempty"} -> 2
              [] OTHER -> 1

NoBlock == <<0, 0>>
Init ==
  /\ shape \in Shapes
  /\ bar = [b \in Barrier |-> Armed(Count(b))]
  /\ agent = [a \in Agent |-> [place |-> IF a = <<"tma", 0>> THEN "publish" ELSE "idle",
                               pos |-> 0, laps |-> 0, uses |-> 0, packets |-> 0]]
  /\ packet = [type |-> "none", idx |-> 0]
  /\ loading = {}
  /\ smem = [c \in CTA |-> [s \in Stage |-> NoBlock]]
  /\ queue = [i \in Acc |-> <<>>] /\ acc = [i \in Acc |-> <<>>]

Block(r) == <<r.packets, r.pos>>
StageOf(r) == r.pos % PIPELINE_DEPTH
Finished(r) == r.pos = LAPS * PIPELINE_DEPTH

(* The next stage of the ring; a lap ends with smem_cycle.advance().         *)
Advance(r) == [r EXCEPT !.pos = @ + 1,
                        !.laps = IF StageOf(r) = PIPELINE_DEPTH - 1 THEN @ + 1 ELSE @]

(* The end of a task: CTA 0's TMA warp publishes the next, the rest receive. *)
Fetching(a, r) == [r EXCEPT !.place = IF a = <<"tma", 0>> THEN "publish" ELSE "idle", !.pos = 0]

----------------------------------------------------------------------------
(* MixedDynamicTileScheduler: publish() and receive(). An RS task, or a poll *)
(* that found none, uses none of the barriers of this module.                *)
Fetched == IF packet.idx < TASKS THEN {"GEMM", "RS"} ELSE {"exit"}

Publish ==
  /\ agent[<<"tma", 0>>].place = "publish" /\ Passed(bar[C2P], packet.idx - 1)
  /\ \E t \in Fetched : packet' = [type |-> t, idx |-> packet.idx + 1]
  /\ bar' = [b \in Barrier |-> IF b[1] = "p2c" THEN Arrive(bar[b]) ELSE bar[b]]
  /\ agent' = [agent EXCEPT ![<<"tma", 0>>].place = "idle"]
  /\ UNCHANGED <<loading, smem, queue, acc>>

Started(a, r) ==
  CASE packet.type = "exit" -> [r EXCEPT !.place = "left"]
    [] packet.type = "GEMM" /\ a[1] = "tma" -> [r EXCEPT !.place = "run"]
    [] packet.type = "GEMM" /\ a[1] = "mma" -> [r EXCEPT !.place = "acquire"]
    [] packet.type = "GEMM" /\ a[1] = "con" -> [r EXCEPT !.place = "wait"]
    [] OTHER -> Fetching(a, r)

Receive(a) ==
  LET r == agent[a] IN
  /\ r.place = "idle" /\ Passed(bar[P2C(CtaOf(a))], r.packets)
  /\ agent' = [agent EXCEPT ![a] = Started(a, [r EXCEPT !.packets = @ + 1])]
  /\ bar' = [bar EXCEPT ![C2P] = Arrive(@)]
  /\ UNCHANGED <<packet, loading, smem, queue, acc>>

----------------------------------------------------------------------------
(* tma_body: load the blocks of the task, then drain the lap.                *)
TmaRest(c, r) ==
  agent' = [agent EXCEPT ![<<"tma", c>>] =
              IF Finished(r) THEN Fetching(<<"tma", c>>, r) ELSE [r EXCEPT !.place = "run"]]

TmaStage(c) ==
  LET r == agent[<<"tma", c>>]
      s == StageOf(r)
      load == r.pos < K_BLOCKS
  IN
  /\ r.place = "run" /\ Passed(bar[EMPTY(c, s)], r.laps - 1)
  /\ loading' = IF load THEN loading \cup {<<c, s, Block(r)>>} ELSE loading
  /\ bar' = IF ~load /\ c = 0 THEN [bar EXCEPT ![FULL(s)] = Arrive(@)] ELSE bar
  /\ IF load /\ c = 0 THEN agent' = [agent EXCEPT ![<<"tma", 0>>].place = "expect"]
                      ELSE TmaRest(c, Advance(r))
  /\ UNCHANGED <<packet, smem, queue, acc>>

(* CTA 0 announces the copies of both CTAs, which may have landed already.   *)
TmaExpect ==
  LET r == agent[<<"tma", 0>>] IN
  /\ r.place = "expect"
  /\ bar' = [bar EXCEPT ![FULL(StageOf(r))] = ArriveExpect(@, 2)]
  /\ TmaRest(0, Advance(r))
  /\ UNCHANGED <<packet, loading, smem, queue, acc>>

(* A copy lands in its CTA and counts on CTA 0's barrier.                    *)
Transfer(t) ==
  /\ loading' = loading \ {t}
  /\ smem' = [smem EXCEPT ![t[1]][t[2]] = t[3]]
  /\ bar' = [bar EXCEPT ![FULL(t[2])] = Landed(@)]
  /\ UNCHANGED <<agent, packet, queue, acc>>

----------------------------------------------------------------------------
(* mma_body: one tensor-core operation per block, each with its commit.      *)
MmaAcquire(i) ==
  LET a == <<"mma", i>> IN
  /\ agent[a].place = "acquire" /\ Passed(bar[TEMPTY(i)], agent[a].uses - 1)
  /\ agent' = [agent EXCEPT ![a].place = "run"]
  /\ UNCHANGED <<bar, packet, loading, smem, queue, acc>>

DoneFirst(r) ==
  (IF r.pos = K_BLOCKS - 1 THEN <<[op |-> "done"]>> ELSE <<>>)
    \o (IF r.pos < K_BLOCKS THEN <<[op |-> "mma", stage |-> StageOf(r), first |-> r.pos = 0]>> ELSE <<>>)
    \o <<[op |-> "free", stage |-> StageOf(r)]>>
EpilogueSkipped(r) ==
  (IF r.pos < K_BLOCKS THEN <<[op |-> "mma", stage |-> StageOf(r), first |-> r.pos = 0]>> ELSE <<>>)
    \o <<[op |-> "free", stage |-> StageOf(r)]>>
Issued(r) ==
  (IF r.pos < K_BLOCKS THEN <<[op |-> "mma", stage |-> StageOf(r), first |-> r.pos = 0]>> ELSE <<>>)
    \o <<[op |-> "free", stage |-> StageOf(r)]>>
    \o (IF r.pos = K_BLOCKS - 1 THEN <<[op |-> "done"]>> ELSE <<>>)

MmaStage(i) ==
  LET a == <<"mma", i>>
      r == agent[a]
      next == Advance(r)
  IN
  /\ r.place = "run" /\ Passed(bar[FULL(StageOf(r))], r.laps)
  /\ queue' = [queue EXCEPT ![i] = @ \o Issued(r)]
  /\ agent' = [agent EXCEPT ![a] = IF Finished(next) THEN [Fetching(a, next) EXCEPT !.uses = @ + 1]
                                                    ELSE next]
  /\ UNCHANGED <<bar, packet, loading, smem, acc>>

(* The tensor core takes a warp's operations in order.                       *)
TensorMma(i) ==
  LET x == Head(queue[i]) IN
  /\ queue[i] # <<>> /\ x.op = "mma"
  /\ acc' = [acc EXCEPT ![i] = (IF x.first THEN <<>> ELSE @)
                                 \o <<<<smem[0][x.stage], smem[1][x.stage]>>>>]
  /\ queue' = [queue EXCEPT ![i] = Tail(@)]
  /\ UNCHANGED <<bar, agent, packet, loading, smem>>

(* A commit arrives in both CTAs once the operations before it are done.     *)
Committed(i, x) == {IF x.op = "free" THEN EMPTY(c, x.stage) ELSE TFULL(c, i) : c \in CTA}
TensorCommit(i) ==
  LET x == Head(queue[i]) IN
  /\ queue[i] # <<>> /\ x.op # "mma"
  /\ bar' = [b \in Barrier |-> IF b \in Committed(i, x) THEN Arrive(bar[b]) ELSE bar[b]]
  /\ queue' = [queue EXCEPT ![i] = Tail(@)]
  /\ UNCHANGED <<agent, packet, loading, smem, acc>>

----------------------------------------------------------------------------
(* A consumer warpgroup reads its half of the accumulator, then releases it. *)
ConsumerWait(c, i) ==
  LET a == <<"con", c, i>>
      r == agent[a]
  IN
  /\ r.place = "wait" /\ Passed(bar[TFULL(c, i)], r.uses)
  /\ agent' = [agent EXCEPT ![a] = [r EXCEPT !.place = "read", !.uses = r.uses + 1]]
  /\ UNCHANGED <<bar, packet, loading, smem, queue, acc>>

ConsumerDone(c, i) ==
  LET a == <<"con", c, i>> IN
  /\ agent[a].place = "read"
  /\ bar' = [bar EXCEPT ![TEMPTY(i)] = Arrive(@)]
  /\ agent' = [agent EXCEPT ![a].place = "idle"]
  /\ UNCHANGED <<packet, loading, smem, queue, acc>>

(* Every agent has left the task loop.                                      *)
Terminated ==
  /\ \A a \in Agent : agent[a].place = "left"
  /\ UNCHANGED vars

Tma(c) == TmaStage(c) \/ (c = 0 /\ (Publish \/ TmaExpect))
Mma(i) == MmaAcquire(i) \/ MmaStage(i)
Tensor(i) == TensorMma(i) \/ TensorCommit(i)
Consumer(c, i) == ConsumerWait(c, i) \/ ConsumerDone(c, i)
Copies == \E t \in loading : Transfer(t)

Step ==
  \/ \E a \in Agent : Receive(a)
  \/ \E c \in CTA : Tma(c)
  \/ Copies
  \/ \E i \in Acc : Mma(i) \/ Tensor(i)
  \/ \E c \in CTA, i \in Acc : Consumer(c, i)
Next == (Step /\ UNCHANGED shape) \/ Terminated

Spec == Init /\ [][Next]_vars

(* As long as some warp can run or the hardware has something to complete,   *)
(* one of them does; which one is nobody's promise.                          *)
FairSpec == Spec /\ WF_vars(Next)

----------------------------------------------------------------------------
(* What a consumer warpgroup reads out of TMEM is every K block of its task, *)
(* in order and once, each half copied for the same block.                   *)
AccumulatorIntact ==
  \A c \in CTA, i \in Acc : agent[<<"con", c, i>>].place = "read" =>
    LET n == agent[<<"con", c, i>>].packets IN
    acc[i] = [k \in 1 .. K_BLOCKS |-> <<<<n, k - 1>>, <<n, k - 1>>>>]

(* Where an agent waits, and for which phase of the barrier.                 *)
Waits(a) ==
  LET r == agent[a] IN
  CASE r.place = "publish" -> {<<C2P, packet.idx - 1>>}
    [] r.place = "idle" -> {<<P2C(CtaOf(a)), r.packets>>}
    [] r.place = "run" /\ a[1] = "tma" -> {<<EMPTY(a[2], StageOf(r)), r.laps - 1>>}
    [] r.place = "run" /\ a[1] = "mma" -> {<<FULL(StageOf(r)), r.laps>>}
    [] r.place = "acquire" -> {<<TEMPTY(a[2]), r.uses - 1>>}
    [] r.place = "wait" -> {<<TFULL(a[2], a[3]), r.uses>>}
    [] OTHER -> {}

(* No barrier runs past a waiter by a whole phase, which the parity it polls *)
(* would hide: the waiter would sleep through the phase it was waiting for,  *)
(* or take an old phase for its own.                                        *)
NeverLapped == \A a \in Agent : \A w \in Waits(a) : Unmistaken(bar[w[1]], w[2])

(* Two hand-overs keep the promise of BroadcastCells: taken[x] is who *)
(* took what the cell x holds, and the item is in sight until all have.      *)
InSight(taken, readers, holds) ==
  [x \in DOMAIN taken |-> IF taken[x] = readers THEN "none" ELSE holds[x]]

(* The scheduler's packet is received by every agent before the next one.    *)
Received == [x \in {C2P} |-> {a \in Agent : agent[a].packets = packet.idx}]
PacketCell == INSTANCE BroadcastCells WITH
  Readers <- [x \in {C2P} |-> Agent], Items <- [type : {"GEMM", "RS", "exit"}, idx : Nat],
  NoItem <- "none", taken <- Received, item <- InSight(Received, Agent, [x \in {C2P} |-> packet])
PacketsBroadcast == PacketCell!Spec

(* A stage, once full, is read by both MMA warps before a copy changes it.   *)
Freed(i, s) == LET r == agent[<<"mma", i>>] IN
  r.laps + (IF s < StageOf(r) THEN 1 ELSE 0)
    - Cardinality({k \in 1 .. Len(queue[i]) : queue[i][k].op = "free" /\ queue[i][k].stage = s})
Consumed == [s \in Stage |-> {i \in Acc : Freed(i, s) = bar[FULL(s)].turn}]
StageCell == INSTANCE BroadcastCells WITH
  Readers <- [s \in Stage |-> Acc], Items <- (Nat \X Nat) \X (Nat \X Nat),
  NoItem <- "none", taken <- Consumed,
  item <- InSight(Consumed, Acc, [s \in Stage |-> <<smem[0][s], smem[1][s]>>])
StagesBroadcast == StageCell!Spec

(* Every agent leaves the task loop: no wait of the cluster lasts for ever,  *)
(* and every task published is computed and consumed.                       *)
ClusterFinishes == <>(\A a \in Agent : agent[a].place = "left")
=============================================================================
