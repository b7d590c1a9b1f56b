------------------------------- MODULE GemmRS -------------------------------
(***************************************************************************)
(* The fused GEMM + reduce-scatter kernel of                               *)
(* src/tirx_kernels/gemm/gemm_reduce_scatter.py, at the level of its        *)
(* global-memory protocol: the two task queues, the tile semaphores, the    *)
(* remote enqueue, the exit barrier and the host's reset/prepare/launch.    *)
(*                                                                         *)
(* Every rank runs the same persistent grid.  A cluster's publisher (lane 0 *)
(* of warp 11 in CTA 0) fetches one task at a time and broadcasts it; the   *)
(* consumer warpgroups <<cta, wg>> of the cluster execute it.  A GEMM task  *)
(* stores one 256-row tile per warpgroup index, half of it per CTA, into    *)
(* the rank's gemm_out and notifies the semaphore of the rank that owns the *)
(* tile; the notifier that completes the count enqueues the tile on the     *)
(* owner's RS queue; an RS task sums the tile over all ranks.               *)
(*                                                                         *)
(* A transfer is abstracted to the set of parts that have arrived.  The     *)
(* TMA/MMA pipeline inside a GEMM task is a separate module.                *)
(***************************************************************************)
EXTENDS Integers, FiniteSets

CONSTANTS
  WORLD_SIZE,      \* number of ranks
  Cluster,         \* the clusters of a rank's grid (NUM_CLUSTERS of them)
  CTA,             \* the CTAs of a cluster (CTA_GROUP of them)
  RS_M_CLUSTERS,   \* row tiles owned by one rank
  N_CLUSTERS,      \* column tiles (RS_N_CLUSTERS = GEMM_N_CLUSTERS)
  QueueOrder       \* GEMM queue position -> <<m_idx, n_idx>>

WG == 0 .. 1                                  \* the two consumer warpgroups
Rank == 0 .. WORLD_SIZE - 1
GEMM_M_CLUSTERS == (WORLD_SIZE * RS_M_CLUSTERS) \div 2
GEMM_COUNT == GEMM_M_CLUSTERS * N_CLUSTERS
RS_COUNT == RS_M_CLUSTERS * N_CLUSTERS
GemmPos == 0 .. GEMM_COUNT - 1
RsPos == 0 .. RS_COUNT - 1
GemmTask == (0 .. GEMM_M_CLUSTERS - 1) \X (0 .. N_CLUSTERS - 1)
Tile == (0 .. RS_M_CLUSTERS - 1) \X (0 .. N_CLUSTERS - 1)
NUM_CLUSTERS == Cardinality(Cluster)
COMPLETION == Cardinality(CTA) * WORLD_SIZE

ASSUME WorldAssumption == WORLD_SIZE \in Nat \ {0}
ASSUME SetsAssumption ==
  /\ IsFiniteSet(Cluster) /\ Cluster # {}
  /\ IsFiniteSet(CTA) /\ CTA # {}
ASSUME TileAssumption ==
  /\ RS_M_CLUSTERS \in Nat \ {0} /\ N_CLUSTERS \in Nat \ {0}
  /\ (WORLD_SIZE * RS_M_CLUSTERS) % 2 = 0
ASSUME OrderAssumption ==
  /\ QueueOrder \in [GemmPos -> GemmTask]
  /\ \A p, q \in GemmPos : QueueOrder[p] = QueueOrder[q] => p = q

K == Rank \X Cluster                          \* every cluster of every rank
Worker == CTA \X WG                           \* consumer warpgroups of one
Part == Tile \X CTA \X WG                     \* what one worker reduces
Stored == (0 .. WORLD_SIZE * RS_M_CLUSTERS - 1) \X (0 .. N_CLUSTERS - 1) \X CTA

None == "none"                                \* task type -1
GEMM == "gemm"
RS == "rs"

VARIABLES
  host,        \* per rank: where its stream is in reset / prepare / launch
  gemmHead, gemmSlot,                         \* the rank-local GEMM queue
  rsHead, rsTail, rsSlot, rsIdx,              \* the symmetric RS queue
  semaphore,   \* per rank and tile: contributions notified
  gemm_out,    \* per rank: the parts its GEMM tasks have stored
  out,         \* per rank and part: the ranks whose data was summed ({}: NaN)
  exitLocal, exitRank, redTo,                 \* exit_barrier[0], [1], reds in flight
  pub, rsRem, headR,                          \* per cluster: publisher registers
  packet, unread,                             \* per cluster: the broadcast task
  work, job,   \* per cluster and worker: its place and its copy of the task
  cluster      \* per cluster: "off", "run", "spin", "done"

vars == <<host, gemmHead, gemmSlot, rsHead, rsTail, rsSlot, rsIdx, semaphore,
          gemm_out, out, exitLocal, exitRank, redTo, pub, rsRem, headR,
          packet, unread, work, job, cluster>>

(* Where a GEMM task's half tile of warpgroup w lives, and who owns it. *)
CommRow(task, w) == 2 * task[1] + w[2]
SignalRankOfTask(task, w) == task[1] \div RS_M_CLUSTERS     \* faulty: ignores w
SignalRank(task, w) == CommRow(task, w) \div RS_M_CLUSTERS
LocalTile(task, w) == <<CommRow(task, w) % RS_M_CLUSTERS, task[2]>>
(* The rows of gemm_out that hold tile t of rank r, for one CTA. *)
StoredPart(r, t, cta) == <<r * RS_M_CLUSTERS + t[1], t[2], cta>>

NoTask == [type |-> None, task |-> <<0, 0>>, rem |-> -1]
NoJob == [type |-> None, task |-> <<0, 0>>, pos |-> 0]

----------------------------------------------------------------------------
(* Tests and updates of the protocol, most with a faulty variant.            *)
OneShort(n) == n = COMPLETION - 1
OneLate(n) == n = COMPLETION + 1
IsLastArrival(n) == n = COMPLETION
Queued(pos, count) == pos < count
NotEmptied(slots, pos) == slots
Emptied(slots, pos) == [slots EXCEPT ![pos] = None]
NextSlot(idx, pos, tile) == [idx EXCEPT ![pos + 1] = tile]
Indexed(idx, pos, tile) == [idx EXCEPT ![pos] = tile]
SomeRankAt(place) == \E r \in Rank : host[r] = place
EveryRankAt(place) == \A r \in Rank : host[r] = place
SomeRankArrived(r) == exitRank[r] > 0
EveryRankArrived(r) == exitRank[r] = WORLD_SIZE

(* atom.add on a queue head.  Every poll of an exhausted queue adds one more;*)
(* all values from the task count on are alike, so they are one value here.  *)
Unchanged(head, count) == head
Bump(head, count) == IF head < count THEN head + 1 ELSE count

----------------------------------------------------------------------------
(* The memory of a rank right after _Case.reset. *)
FreshGemmSlot == [p \in GemmPos |-> GEMM]
FreshRsSlot == [p \in RsPos |-> None]
FreshRsIdx == [p \in RsPos |-> <<0, 0>>]
FreshSemaphore == [t \in Tile |-> 0]
FreshOut == [x \in Part |-> {}]

Init ==
  /\ host = [r \in Rank |-> "cleared"]
  /\ gemmHead = [r \in Rank |-> 0] /\ gemmSlot = [r \in Rank |-> FreshGemmSlot]
  /\ rsHead = [r \in Rank |-> 0] /\ rsTail = [r \in Rank |-> 0]
  /\ rsSlot = [r \in Rank |-> FreshRsSlot] /\ rsIdx = [r \in Rank |-> FreshRsIdx]
  /\ semaphore = [r \in Rank |-> FreshSemaphore]
  /\ gemm_out = [r \in Rank |-> {}] /\ out = [r \in Rank |-> FreshOut]
  /\ exitLocal = [r \in Rank |-> 0] /\ exitRank = [r \in Rank |-> 0]
  /\ redTo = [r \in Rank |-> {}]
  /\ pub = [k \in K |-> "left"] /\ rsRem = [k \in K |-> -1] /\ headR = [k \in K |-> 0]
  /\ packet = [k \in K |-> NoTask] /\ unread = [k \in K |-> {}]
  /\ work = [k \in K |-> [w \in Worker |-> "left"]]
  /\ job = [k \in K |-> [w \in Worker |-> NoJob]]
  /\ cluster = [k \in K |-> "off"]

gemmQueue == <<gemmHead, gemmSlot>>
rsQueue == <<rsHead, rsTail, rsSlot, rsIdx>>
data == <<semaphore, gemm_out, out>>
exitVars == <<exitLocal, exitRank, redTo, cluster>>
pubVars == <<pub, rsRem, headR>>
workVars == <<work, job>>

----------------------------------------------------------------------------
(* Host: reset() joins every rank, clears this rank's memory; prepare()      *)
(* joins every rank again; launch() starts the grid.                        *)
ResetBarrier ==
  /\ EveryRankAt("idle")
  /\ host' = [r \in Rank |-> "clearing"]
  /\ UNCHANGED <<gemmQueue, rsQueue, data, exitVars, pubVars, packet, unread, workVars>>

Clear(r) ==
  /\ host[r] = "clearing"
  /\ host' = [host EXCEPT ![r] = "cleared"]
  /\ gemmHead' = [gemmHead EXCEPT ![r] = 0]
  /\ gemmSlot' = [gemmSlot EXCEPT ![r] = FreshGemmSlot]
  /\ rsHead' = [rsHead EXCEPT ![r] = 0]
  /\ rsTail' = [rsTail EXCEPT ![r] = 0]
  /\ rsSlot' = [rsSlot EXCEPT ![r] = FreshRsSlot]
  /\ rsIdx' = [rsIdx EXCEPT ![r] = FreshRsIdx]
  /\ exitLocal' = [exitLocal EXCEPT ![r] = 0]
  /\ exitRank' = [exitRank EXCEPT ![r] = 0]
  /\ semaphore' = [semaphore EXCEPT ![r] = FreshSemaphore]
  /\ gemm_out' = [gemm_out EXCEPT ![r] = {}]
  /\ out' = [out EXCEPT ![r] = FreshOut]
  /\ UNCHANGED <<redTo, cluster, pubVars, packet, unread, workVars>>

PrepareBarrier ==
  /\ EveryRankAt("cleared")
  /\ host' = [r \in Rank |-> "ready"]
  /\ UNCHANGED <<gemmQueue, rsQueue, data, exitVars, pubVars, packet, unread, workVars>>

Launch(r) ==
  /\ host[r] = "ready"
  /\ host' = [host EXCEPT ![r] = "running"]
  /\ pub' = [k \in K |-> IF k[1] = r THEN "publish" ELSE pub[k]]
  /\ rsRem' = [k \in K |-> IF k[1] = r THEN -1 ELSE rsRem[k]]
  /\ unread' = [k \in K |-> IF k[1] = r THEN {} ELSE unread[k]]
  /\ work' = [k \in K |-> IF k[1] = r THEN [w \in Worker |-> "receive"] ELSE work[k]]
  /\ cluster' = [k \in K |-> IF k[1] = r THEN "run" ELSE cluster[k]]
  /\ headR' = [k \in K |-> IF k[1] = r THEN 0 ELSE headR[k]]
  /\ packet' = [k \in K |-> IF k[1] = r THEN NoTask ELSE packet[k]]
  /\ job' = [k \in K |-> IF k[1] = r THEN [w \in Worker |-> NoJob] ELSE job[k]]
  /\ UNCHANGED <<gemmQueue, rsQueue, data, exitLocal, exitRank, redTo>>

(* The grid has drained: the launch is complete on this rank's stream. *)
KernelDone(r) ==
  /\ host[r] = "running"
  /\ \A k \in K : k[1] = r => cluster[k] = "done"
  /\ host' = [host EXCEPT ![r] = "idle"]
  /\ UNCHANGED <<gemmQueue, rsQueue, data, exitVars, pubVars, packet, unread, workVars>>

----------------------------------------------------------------------------
(* MixedDynamicTileScheduler.publish, in the steps that touch memory others  *)
(* touch.  Publish(k, ...) is its tail: store the packet and arrive on p2c.  *)
Publish(k, type, task, rem) ==
  /\ packet' = [packet EXCEPT ![k] = [type |-> type, task |-> task, rem |-> rem]]
  /\ unread' = [unread EXCEPT ![k] = Worker]
  /\ pub' = [pub EXCEPT ![k] = IF type = None /\ rem < 0 THEN "left" ELSE "publish"]

(* c2p.wait, then RSMPMCQueue.dequeue up to its position test. *)
ClaimRS(k) ==
  LET r == k[1]
      pos == IF rsRem[k] >= 0 THEN rsRem[k] ELSE rsHead[r]
  IN
  /\ pub[k] = "publish" /\ unread[k] = {}
  /\ headR' = [headR EXCEPT ![k] = pos]
  /\ rsRem' = [rsRem EXCEPT ![k] = -1]
  /\ rsHead' = IF rsRem[k] >= 0 THEN rsHead ELSE [rsHead EXCEPT ![r] = Bump(@, RS_COUNT)]
  /\ pub' = [pub EXCEPT ![k] = IF Queued(pos, RS_COUNT) THEN "load" ELSE "claim"]
  /\ UNCHANGED <<host, gemmQueue, rsTail, rsSlot, rsIdx, data, exitVars, packet, unread, workVars>>

(* ld.acquire of the claimed slot found no task yet: keep the position. *)
MissRS(k) ==
  /\ pub[k] = "load" /\ rsSlot[k[1]][headR[k]] = None
  /\ rsRem' = [rsRem EXCEPT ![k] = headR[k]]
  /\ pub' = [pub EXCEPT ![k] = "claim"]
  /\ UNCHANGED <<host, gemmQueue, rsQueue, data, exitVars, headR, packet, unread, workVars>>

(* ld.acquire found a task: empty the slot, read the index, publish. *)
TakeRS(k) ==
  LET r == k[1] IN
  /\ pub[k] = "load" /\ rsSlot[r][headR[k]] # None
  /\ rsSlot' = [rsSlot EXCEPT ![r] = Emptied(@, headR[k])]
  /\ Publish(k, RS, rsIdx[r][headR[k]], rsRem[k])
  /\ UNCHANGED <<host, gemmQueue, rsHead, rsTail, rsIdx, data, exitVars, rsRem, headR, workVars>>

(* GEMMMPMCQueue.dequeue: claim a position ... *)
ClaimGEMM(k) ==
  LET r == k[1] IN
  /\ pub[k] = "claim"
  /\ headR' = [headR EXCEPT ![k] = gemmHead[r]]
  /\ gemmHead' = [gemmHead EXCEPT ![r] = Bump(@, GEMM_COUNT)]
  /\ IF Queued(gemmHead[r], GEMM_COUNT)
     THEN pub' = [pub EXCEPT ![k] = "take"] /\ UNCHANGED <<packet, unread>>
     ELSE Publish(k, None, <<0, 0>>, rsRem[k])
  /\ UNCHANGED <<host, gemmSlot, rsQueue, data, exitVars, rsRem, workVars>>

(* ... wait for its slot, empty it, read the index, publish. *)
TakeGEMM(k) ==
  LET r == k[1] IN
  /\ pub[k] = "take" /\ gemmSlot[r][headR[k]] # None
  /\ gemmSlot' = [gemmSlot EXCEPT ![r] = Emptied(@, headR[k])]
  /\ Publish(k, GEMM, QueueOrder[headR[k]], rsRem[k])
  /\ UNCHANGED <<host, gemmHead, rsQueue, data, exitVars, rsRem, headR, workVars>>

Publisher(k) == ClaimRS(k) \/ MissRS(k) \/ TakeRS(k) \/ ClaimGEMM(k) \/ TakeGEMM(k)

----------------------------------------------------------------------------
(* A consumer warpgroup: receive() copies the packet and arrives on c2p.     *)
Receive(k, w) ==
  LET p == packet[k] IN
  /\ work[k][w] = "receive" /\ w \in unread[k]
  /\ unread' = [unread EXCEPT ![k] = @ \ {w}]
  /\ job' = [job EXCEPT ![k][w] = [type |-> p.type, task |-> p.task, pos |-> 0]]
  /\ work' = [work EXCEPT ![k][w] = IF p.type # None THEN "work"
                                    ELSE IF p.rem >= 0 THEN "receive" ELSE "left"]
  /\ UNCHANGED <<host, gemmQueue, rsQueue, data, exitVars, pubVars, packet>>

(* RS branch: sum this worker's share of the tile over every rank's gemm_out. *)
ReduceShare(k, w) ==
  LET r == k[1]
      t == job[k][w].task
  IN
  /\ work[k][w] = "work" /\ job[k][w].type = RS
  /\ out' = [out EXCEPT ![r][<<t, w[1], w[2]>>] =
               {q \in Rank : StoredPart(r, t, w[1]) \in gemm_out[q]}]
  /\ work' = [work EXCEPT ![k][w] = "receive"]
  /\ UNCHANGED <<host, gemmQueue, rsQueue, semaphore, gemm_out, exitVars, pubVars, packet, unread, job>>

(* GEMM branch: the accumulator is ready; store it and wait for the store.   *)
StoreTile(k, w) ==
  LET t == job[k][w].task IN
  /\ work[k][w] = "work" /\ job[k][w].type = GEMM
  /\ gemm_out' = [gemm_out EXCEPT ![k[1]] = @ \cup {<<CommRow(t, w), t[2], w[1]>>}]
  /\ work' = [work EXCEPT ![k][w] = "notify"]
  /\ UNCHANGED <<host, gemmQueue, rsQueue, semaphore, out, exitVars, pubVars, packet, unread, job>>

(* Semaphore.semaphore_notify: the arrival that completes the count enqueues. *)
Notify(k, w) ==
  LET t == job[k][w].task
      s == SignalRank(t, w)
  IN
  /\ work[k][w] = "notify"
  /\ semaphore' = [semaphore EXCEPT ![s][LocalTile(t, w)] = @ + 1]
  /\ work' = [work EXCEPT ![k][w] =
                IF IsLastArrival(semaphore[s][LocalTile(t, w)] + 1) THEN "tail" ELSE "receive"]
  /\ UNCHANGED <<host, gemmQueue, rsQueue, gemm_out, out, exitVars, pubVars, packet, unread, job>>

(* enqueue_remote: claim a position with an atomic add on the owner's tail, *)
ClaimTail(k, w) ==
  LET s == SignalRank(job[k][w].task, w) IN
  /\ work[k][w] = "tail"
  /\ rsTail' = [rsTail EXCEPT ![s] = @ + 1]
  /\ job' = [job EXCEPT ![k][w] =
               [type |-> GEMM, task |-> job[k][w].task, pos |-> rsTail[s]]]
  /\ work' = [work EXCEPT ![k][w] = "index"]
  /\ UNCHANGED <<host, gemmQueue, rsHead, rsSlot, rsIdx, data, exitVars, pubVars, packet, unread>>

(* write the task index, *)
WriteIndex(k, w) ==
  LET t == job[k][w].task IN
  /\ work[k][w] = "index"
  /\ rsIdx' = [rsIdx EXCEPT ![SignalRank(t, w)] =
                  Indexed(@, job[k][w].pos, LocalTile(t, w))]
  /\ work' = [work EXCEPT ![k][w] = "release"]
  /\ UNCHANGED <<host, gemmQueue, rsHead, rsTail, rsSlot, data, exitVars, pubVars, packet, unread, job>>

(* and release the task type, which makes the slot visible. *)
ReleaseType(k, w) ==
  /\ work[k][w] = "release"
  /\ rsSlot' = [rsSlot EXCEPT ![SignalRank(job[k][w].task, w)][job[k][w].pos] = RS]
  /\ work' = [work EXCEPT ![k][w] = "receive"]
  /\ UNCHANGED <<host, gemmQueue, rsHead, rsTail, rsIdx, data, exitVars, pubVars, packet, unread, job>>

Consumer(k, w) ==
  \/ Receive(k, w) \/ ReduceShare(k, w) \/ StoreTile(k, w) \/ Notify(k, w)
  \/ ClaimTail(k, w) \/ WriteIndex(k, w) \/ ReleaseType(k, w)

----------------------------------------------------------------------------
(* exit_barrier_arrive_and_wait, after the cluster barrier.  Only the last   *)
(* cluster of a rank adds to every rank's counter and waits for all ranks;   *)
(* the multicast add reaches each rank's copy in its own time.               *)
ExitArrive(k) ==
  LET r == k[1]
      last == exitLocal[r] + 1 = NUM_CLUSTERS
  IN
  /\ cluster[k] = "run" /\ pub[k] = "left" /\ \A w \in Worker : work[k][w] = "left"
  /\ IF WORLD_SIZE = 1
     THEN /\ cluster' = [cluster EXCEPT ![k] = "done"]
          /\ UNCHANGED <<exitLocal, redTo>>
     ELSE /\ cluster' = [cluster EXCEPT ![k] = IF last THEN "spin" ELSE "done"]
          /\ exitLocal' = [exitLocal EXCEPT ![r] = @ + 1]
          /\ redTo' = IF last THEN [redTo EXCEPT ![r] = Rank] ELSE redTo
  /\ UNCHANGED <<host, gemmQueue, rsQueue, data, exitRank, pubVars, packet, unread, workVars>>

DeliverRed(r, q) ==
  /\ q \in redTo[r]
  /\ redTo' = [redTo EXCEPT ![r] = @ \ {q}]
  /\ exitRank' = [exitRank EXCEPT ![q] = @ + 1]
  /\ UNCHANGED <<host, gemmQueue, rsQueue, data, exitLocal, cluster, pubVars, packet, unread, workVars>>

ExitLeave(k) ==
  /\ cluster[k] = "spin" /\ EveryRankArrived(k[1])
  /\ cluster' = [cluster EXCEPT ![k] = "done"]
  /\ UNCHANGED <<host, gemmQueue, rsQueue, data, exitLocal, exitRank, redTo, pubVars, packet, unread, workVars>>

----------------------------------------------------------------------------
Next ==
  \/ ResetBarrier \/ PrepareBarrier
  \/ \E r \in Rank : Clear(r) \/ Launch(r) \/ KernelDone(r)
  \/ \E k \in K : Publisher(k) \/ ExitArrive(k) \/ ExitLeave(k)
  \/ \E k \in K, w \in Worker : Consumer(k, w)
  \/ \E r, q \in Rank : DeliverRed(r, q)

(* Every cluster is resident for the whole launch (a persistent grid), its   *)
(* warps are scheduled independently, and an issued atomic is performed.     *)
Fairness ==
  /\ WF_vars(ResetBarrier) /\ WF_vars(PrepareBarrier)
  /\ \A r \in Rank : WF_vars(Clear(r)) /\ WF_vars(Launch(r)) /\ WF_vars(KernelDone(r))
  /\ \A k \in K : WF_vars(Publisher(k)) /\ WF_vars(ExitArrive(k)) /\ WF_vars(ExitLeave(k))
  /\ \A k \in K, w \in Worker : WF_vars(Consumer(k, w))
  /\ \A r, q \in Rank : WF_vars(DeliverRed(r, q))

Spec == Init /\ [][Next]_vars
FairSpec == Spec /\ Fairness

----------------------------------------------------------------------------
Packet == [type : {None}, task : {<<0, 0>>}, rem : RsPos \cup {-1}]
            \cup [type : {GEMM}, task : GemmTask, rem : RsPos \cup {-1}]
            \cup [type : {RS}, task : Tile, rem : RsPos \cup {-1}]
Job == [type : {None}, task : {<<0, 0>>}, pos : Nat]
         \cup [type : {GEMM}, task : GemmTask, pos : Nat]
         \cup [type : {RS}, task : Tile, pos : Nat]

WorkerPlace == {"receive", "work", "notify", "tail", "index", "release", "left"}

HostTypeOK ==
  /\ host \in [Rank -> {"idle", "clearing", "cleared", "ready", "running"}]
  /\ cluster \in [K -> {"off", "run", "spin", "done"}]
  /\ exitLocal \in [Rank -> Nat] /\ exitRank \in [Rank -> Nat]
  /\ redTo \in [Rank -> SUBSET Rank]

QueueTypeOK ==
  /\ gemmHead \in [Rank -> Nat] /\ rsHead \in [Rank -> Nat] /\ rsTail \in [Rank -> Nat]
  /\ gemmSlot \in [Rank -> [GemmPos -> {None, GEMM}]]
  /\ rsSlot \in [Rank -> [RsPos -> {None, RS}]]
  /\ rsIdx \in [Rank -> [RsPos -> Tile]]

DataTypeOK ==
  /\ semaphore \in [Rank -> [Tile -> Nat]]
  /\ gemm_out \in [Rank -> SUBSET Stored]
  /\ out \in [Rank -> [Part -> SUBSET Rank]]

PublisherTypeOK ==
  /\ pub \in [K -> {"publish", "load", "claim", "take", "left"}]
  /\ rsRem \in [K -> RsPos \cup {-1}] /\ headR \in [K -> Nat]
  /\ \A k \in K : /\ pub[k] = "load" => headR[k] \in RsPos
                  /\ pub[k] = "take" => headR[k] \in GemmPos
  /\ packet \in [K -> Packet]
  /\ unread \in [K -> SUBSET Worker]

WorkerTypeOK ==
  /\ work \in [K -> [Worker -> WorkerPlace]]
  /\ job \in [K -> [Worker -> Job]]
  /\ \A k \in K, w \in Worker :
       /\ work[k][w] = "work" => job[k][w].type # None
       /\ work[k][w] \in {"notify", "tail", "index", "release"} => job[k][w].type = GEMM

TypeOK ==
  HostTypeOK /\ QueueTypeOK /\ DataTypeOK /\ PublisherTypeOK /\ WorkerTypeOK

(* A reduced share holds the contribution of every rank: no RS task runs     *)
(* before all 2 * world_size notifications of its tile (the semaphore count, *)
(* the remote enqueue and the acquire of the task type together).            *)
ReducedFromEveryRank ==
  \A r \in Rank, x \in Part : out[r][x] \in {{}, Rank}

(* The parts behind a semaphore: stored, and their worker is past Notify.    *)
Pending(q, g, n, cta) ==
  \E k \in K, w \in Worker :
    /\ k[1] = q /\ w[1] = cta /\ work[k][w] = "notify"
    /\ CommRow(job[k][w].task, w) = g /\ job[k][w].task[2] = n
Notified(r, t) ==
  {qc \in Rank \X CTA :
     /\ StoredPart(r, t, qc[2]) \in gemm_out[qc[1]]
     /\ ~Pending(qc[1], r * RS_M_CLUSTERS + t[1], t[2], qc[2])}

(* A semaphore counts exactly the contributions whose data is in memory and  *)
(* whose owner has notified: none counted twice, none counted early.         *)
SemaphoreCountsStores ==
  (\A r \in Rank : host[r] # "clearing") =>
  \A r \in Rank, t \in Tile : semaphore[r][t] = Cardinality(Notified(r, t))

(* No task is executed twice: a worker about to store or reduce finds its    *)
(* part not yet written in this launch.                                      *)
TasksRunOnce ==
  \A k \in K, w \in Worker : work[k][w] = "work" =>
    LET t == job[k][w].task IN
    /\ job[k][w].type = GEMM => <<CommRow(t, w), t[2], w[1]>> \notin gemm_out[k[1]]
    /\ job[k][w].type = RS => out[k[1]][<<t, w[1], w[2]>>] = {}

(* The RS positions a cluster owns: claimed, and not taken or given up yet.  *)
Claim(k) == IF pub[k] = "load" THEN headR[k] ELSE rsRem[k]

(* The claim a publisher carries from one poll to the next (rs_rem) belongs  *)
(* to it alone: no two clusters of a rank ever wait on one queue position.   *)
ClaimsExclusive ==
  \A k, l \in K : k # l /\ k[1] = l[1] /\ Claim(k) >= 0 => Claim(k) # Claim(l)

(* assert_terminal_state: what the host checks of a rank after every launch  *)
(* holds when the launch completes, whatever the interleaving.               *)
Terminal(r) ==
  /\ rsTail[r] = RS_COUNT
  /\ gemmHead[r] >= GEMM_COUNT /\ rsHead[r] >= RS_COUNT
  /\ \A p \in GemmPos : gemmSlot[r][p] = None
  /\ \A p \in RsPos : rsSlot[r][p] = None
  /\ \A t \in Tile : semaphore[r][t] = COMPLETION
  /\ <<exitLocal[r], exitRank[r]>> =
       IF WORLD_SIZE > 1 THEN <<NUM_CLUSTERS, WORLD_SIZE>> ELSE <<0, 0>>
  /\ gemm_out[r] = Stored
  /\ \A x \in Part : out[r][x] = Rank
TerminalState == \A r \in Rank : host[r] = "idle" => Terminal(r)

(* A rank's memory is never cleared while any cluster of any rank may still  *)
(* read or write it, and no cluster runs before every rank is cleared.       *)
ClearWhileQuiet ==
  (\E r \in Rank : host[r] \in {"clearing", "cleared"}) =>
    /\ \A k \in K : cluster[k] \in {"off", "done"}
    /\ \A r \in Rank : redTo[r] = {}

(* A launch that has completed on one rank has completed its work on every   *)
(* rank: no peer cluster is still inside its task loop (the exit barrier).   *)
DoneMeansPeersDone ==
  \A r \in Rank : host[r] = "idle" => \A k \in K : cluster[k] \in {"spin", "done"}

(* Every launch completes on every rank. *)
LaunchCompletes == \A r \in Rank : host[r] = "running" ~> host[r] = "idle"

(* The kernel implements a collective reduce-scatter. *)
Phase(h) == CASE h \in {"idle", "clearing"} -> "complete"
              [] h = "cleared" -> "fresh"
              [] OTHER -> "active"
SourcePart(r, x) == StoredPart(r, x[1], x[2])
Abstract == INSTANCE ReduceScatter WITH
  Share <- Part, SourceOf <- SourcePart,
  phase <- [r \in Rank |-> Phase(host[r])],
  contributed <- gemm_out, reduced <- out
ImplementsReduceScatter == Abstract!Spec

=============================================================================
