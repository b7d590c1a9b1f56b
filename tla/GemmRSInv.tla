------------------------------ MODULE GemmRSInv ------------------------------
(***************************************************************************)
(* The inductive invariant behind ReducedFromEveryRank: who holds a GEMM    *)
(* task, what a semaphore counts, and where a completed tile can be named.  *)
(***************************************************************************)
EXTENDS GemmRS

(* Between ResetBarrier and PrepareBarrier the ranks' memories disagree.     *)
Clearing == \E r \in Rank : host[r] \in {"clearing", "cleared"}

Fresh(r) ==
  /\ semaphore[r] = FreshSemaphore /\ gemm_out[r] = {} /\ out[r] = FreshOut
  /\ gemmHead[r] = 0 /\ rsSlot[r] = FreshRsSlot

(* Ranks clear together, only a running rank has clusters at work, and a     *)
(* cluster that is not at work holds no task.                               *)
HostInv ==
  /\ Clearing => \A r \in Rank : host[r] \in {"clearing", "cleared"}
  /\ \A r \in Rank : host[r] = "cleared" => Fresh(r)
  /\ \A k \in K : cluster[k] \in {"run", "spin"} => host[k[1]] = "running"
  /\ \A k \in K : cluster[k] # "run" =>
       pub[k] = "left" /\ \A w \in Worker : work[k][w] = "left"
  /\ \A k \in K : pub[k] = "left" => packet[k].type = None
  /\ \A k \in K : pub[k] \in {"load", "claim", "take"} => unread[k] = {}

(* A GEMM task moves from the publisher to the packet to each worker.        *)
HalfTile(task, w) == <<CommRow(task, w), task[2], w[1]>>
Taking(k, task) == pub[k] = "take" /\ QueueOrder[headR[k]] = task
Sent(k, w, task) == packet[k].type = GEMM /\ packet[k].task = task /\ w \in unread[k]
Running(k, w, task) == work[k][w] = "work" /\ job[k][w].type = GEMM /\ job[k][w].task = task
Notifying(k, w, task) == work[k][w] = "notify" /\ job[k][w].task = task
Holds(k, w, task) == Taking(k, task) \/ Sent(k, w, task) \/ Running(k, w, task)
Claimed(r, task) == \E p \in GemmPos : p < gemmHead[r] /\ QueueOrder[p] = task

(* Of the clusters of a rank at most one holds a task for a worker; what it  *)
(* holds has been claimed and is not stored; what notifies is stored.        *)
GemmInv ==
  /\ \A k, l \in K, w \in Worker, t \in GemmTask :
       Holds(k, w, t) /\ Holds(l, w, t) /\ k[1] = l[1] => k = l
  /\ \A k \in K, w \in Worker, t \in GemmTask :
       /\ ~(Taking(k, t) /\ Running(k, w, t)) /\ ~(Sent(k, w, t) /\ Running(k, w, t))
       /\ Holds(k, w, t) => HalfTile(t, w) \notin gemm_out[k[1]] /\ Claimed(k[1], t)
       /\ Notifying(k, w, t) => HalfTile(t, w) \in gemm_out[k[1]]
  /\ \A r \in Rank, w \in Worker, t \in GemmTask :
       HalfTile(t, w) \in gemm_out[r] => Claimed(r, t)
  /\ \A k, l \in K, w \in Worker, t \in GemmTask :
       Notifying(k, w, t) /\ Notifying(l, w, t) /\ k[1] = l[1] => k = l

SemInv == \A r \in Rank, t \in Tile : semaphore[r][t] = Cardinality(Notified(r, t))

(* Wherever a tile is named as an RS task, its semaphore has completed.      *)
Completed(r, t) == semaphore[r][t] = COMPLETION
RsInv ==
  /\ \A k \in K, w \in Worker :
       LET t == job[k][w].task
           s == SignalRank(t, w)
       IN  /\ work[k][w] \in {"tail", "index", "release"} => Completed(s, LocalTile(t, w))
           /\ work[k][w] = "release" /\ job[k][w].pos \in RsPos =>
                Completed(s, rsIdx[s][job[k][w].pos])
           /\ work[k][w] = "work" /\ job[k][w].type = RS => Completed(k[1], t)
  /\ \A r \in Rank, p \in RsPos : rsSlot[r][p] # None => Completed(r, rsIdx[r][p])
  /\ \A k \in K : packet[k].type = RS => Completed(k[1], packet[k].task)

IInv ==
  /\ TypeOK /\ HostInv /\ ReducedFromEveryRank
  /\ ~Clearing => GemmInv /\ SemInv /\ RsInv

----------------------------------------------------------------------------
(* The exit barrier. A rank has arrived when its last cluster is out of the  *)
(* task loop; a rank's counter counts the arrived ranks whose add reached it. *)
Left(r) == {c \in Cluster : cluster[<<r, c>>] \in {"spin", "done"}}
Arrived(r) == exitLocal[r] = NUM_CLUSTERS
Heard(q) == {r \in Rank : Arrived(r) /\ q \notin redTo[r]}

ExitLocalInv ==
  \A r \in Rank :
    /\ host[r] \in {"cleared", "ready"} => exitLocal[r] = 0
    /\ host[r] \in {"running", "idle"} =>
         exitLocal[r] = IF WORLD_SIZE > 1 THEN Cardinality(Left(r)) ELSE 0
    /\ host[r] \in {"idle", "clearing"} => \A c \in Cluster : cluster[<<r, c>>] = "done"
    /\ host[r] = "cleared" => exitRank[r] = 0
    /\ redTo[r] # {} => Arrived(r)

(* A rank waits in its last cluster, and leaves once it has heard of all.    *)
ExitRankInv ==
  /\ ~Clearing => \A q \in Rank : exitRank[q] = Cardinality(Heard(q))
  /\ Clearing => \A r \in Rank : redTo[r] = {}
  /\ \A r \in Rank : Arrived(r) /\ host[r] \in {"running", "idle"} =>
       exitRank[r] = WORLD_SIZE \/ \E c \in Cluster : cluster[<<r, c>>] = "spin"

ExitInv == ExitLocalInv /\ ExitRankInv
----------------------------------------------------------------------------
(* The RS queue. A completed tile has one enqueuer, which places it at a      *)
(* position of its own; a position is written once its index is stored and    *)
(* settled once its type is released; it is gone once a publisher took it.    *)
Enqueuing(k, w, s, t) ==
  /\ work[k][w] \in {"tail", "index", "release"}
  /\ SignalRank(job[k][w].task, w) = s /\ LocalTile(job[k][w].task, w) = t
Placing(k, w, s, p) ==
  /\ work[k][w] \in {"index", "release"}
  /\ SignalRank(job[k][w].task, w) = s /\ job[k][w].pos = p
Written(s, p) ==
  p < rsTail[s] /\ \A k \in K, w \in Worker : Placing(k, w, s, p) => work[k][w] = "release"
Settled(s, p) ==
  p < rsTail[s] /\ \A k \in K, w \in Worker : ~Placing(k, w, s, p)
Gone(r, p) == p < rsHead[r] /\ \A k \in K : k[1] = r => Claim(k) # p
Served(r, t) == \E p \in RsPos : Gone(r, p) /\ rsIdx[r][p] = t

(* A position is claimed off the head by one cluster, which holds no claim    *)
(* when it takes the slot or leaves.                                         *)
ClaimInv ==
  /\ \A k \in K : Claim(k) < rsHead[k[1]]
  /\ \A k \in K : pub[k] \in {"load", "left"} => rsRem[k] = -1
  /\ \A r \in Rank : rsHead[r] <= RS_COUNT
  /\ ClaimsExclusive

OneEnqueuer ==
  \A s \in Rank, t \in Tile, k, l \in K, v, w \in Worker :
    Enqueuing(k, v, s, t) /\ Enqueuing(l, w, s, t) => k = l /\ v = w
OnePlacer ==
  \A s \in Rank, p \in RsPos, k, l \in K, v, w \in Worker :
    Placing(k, v, s, p) /\ Placing(l, w, s, p) => k = l /\ v = w
TailBounded ==
  /\ \A s \in Rank : rsTail[s] <= RS_COUNT
  /\ \A k \in K, w \in Worker : work[k][w] \in {"index", "release"} =>
       job[k][w].pos < rsTail[SignalRank(job[k][w].task, w)]
PlacedOnce ==
  \A s \in Rank, p, q \in RsPos :
    Written(s, p) /\ Written(s, q) /\ rsIdx[s][p] = rsIdx[s][q] => p = q
PlacedLast ==
  \A s \in Rank, p \in RsPos, t \in Tile, k \in K, w \in Worker : rsIdx[s][p] = t =>
    /\ Written(s, p) /\ Enqueuing(k, w, s, t) => Placing(k, w, s, p)
    /\ Placing(k, w, s, p) /\ work[k][w] = "release" => Enqueuing(k, w, s, t)
PlacedComplete ==
  \A s \in Rank, p \in RsPos : Written(s, p) => Completed(s, rsIdx[s][p])
PlaceInv ==
  OneEnqueuer /\ OnePlacer /\ TailBounded /\ PlacedOnce /\ PlacedLast /\ PlacedComplete

(* An RS task moves from its slot to the packet to each worker.              *)
RsSent(k, w, t) == packet[k].type = RS /\ packet[k].task = t /\ w \in unread[k]
RsRunning(k, w, t) == work[k][w] = "work" /\ job[k][w].type = RS /\ job[k][w].task = t
RsHolds(k, w, t) == RsSent(k, w, t) \/ RsRunning(k, w, t)
Share(t, w) == <<t, w[1], w[2]>>

GoneSettled ==
  \A r \in Rank, p \in RsPos :
    /\ Gone(r, p) => Settled(r, p) /\ rsSlot[r][p] = None
    /\ rsSlot[r][p] # None => Settled(r, p)
OneRsHolder ==
  /\ \A k \in K, w \in Worker, t \in Tile : ~(RsSent(k, w, t) /\ RsRunning(k, w, t))
  /\ \A k, l \in K, w \in Worker, t \in Tile :
       RsHolds(k, w, t) /\ RsHolds(l, w, t) /\ k[1] = l[1] => k = l
HeldOnce ==
  /\ \A k \in K, w \in Worker, t \in Tile :
       RsHolds(k, w, t) => Served(k[1], t) /\ out[k[1]][Share(t, w)] = {}
  /\ \A r \in Rank, w \in Worker, t \in Tile :
       out[r][Share(t, w)] # {} => Served(r, t)
TakeInv == GoneSettled /\ OneRsHolder /\ HeldOnce

(* Nothing is dropped: what has been claimed is stored, reduced or still on  *)
(* its way, and a cluster leaves only when both heads are at their counts.   *)
HeadsDone ==
  /\ \A k \in K : pub[k] = "claim" /\ rsRem[k] = -1 => rsHead[k[1]] = RS_COUNT
  /\ \A k \in K : pub[k] = "left" /\ host[k[1]] \in {"running", "idle"} =>
       rsHead[k[1]] = RS_COUNT /\ gemmHead[k[1]] = GEMM_COUNT
  /\ \A r \in Rank : gemmHead[r] <= GEMM_COUNT
GemmSlotsTaken ==
  \A r \in Rank, p \in GemmPos : p < gemmHead[r] =>
    gemmSlot[r][p] = None \/ \E k \in K : k[1] = r /\ pub[k] = "take" /\ headR[k] = p
GemmKept ==
  \A r \in Rank, t \in GemmTask, w \in Worker : Claimed(r, t) =>
    HalfTile(t, w) \in gemm_out[r] \/ \E k \in K : k[1] = r /\ Holds(k, w, t)
TilesKept ==
  \A s \in Rank, t \in Tile : Completed(s, t) =>
    \/ \E p \in RsPos : Written(s, p) /\ rsIdx[s][p] = t
    \/ \E k \in K, w \in Worker : Enqueuing(k, w, s, t)
RsKept ==
  \A r \in Rank, t \in Tile, w \in Worker : Served(r, t) =>
    out[r][Share(t, w)] # {} \/ \E k \in K : k[1] = r /\ RsHolds(k, w, t)
DrainInv == HeadsDone /\ GemmSlotsTaken /\ GemmKept /\ TilesKept /\ RsKept

QueueInv == ClaimInv /\ PlaceInv /\ TakeInv
=============================================================================
