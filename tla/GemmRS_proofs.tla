---------------------------- MODULE GemmRS_proofs ---------------------------
(***************************************************************************)
(* Every reduced share of GemmRS sums the contribution of every rank, for   *)
(* every number of ranks, clusters, CTAs and tiles: the variables keep their *)
(* types, and the invariant IInv of GemmRSInv is inductive and implies      *)
(* ReducedFromEveryRank. The second part follows the queues: no two clusters *)
(* wait on one position of the RS queue, every completed tile is enqueued   *)
(* once, and no task is executed twice.                                     *)
(*                                                                         *)
(* The last part is how a launch ends. A rank that has returned has heard of *)
(* every rank, and a rank is heard of once all its clusters are out of the  *)
(* task loop, so nobody clears memory that a peer may still touch. Nothing   *)
(* that was claimed is dropped on the way and no cluster leaves before both *)
(* queues are exhausted, so what the host checks afterwards holds and every *)
(* launch is one reduce-scatter.                                            *)
(***************************************************************************)
EXTENDS GemmRSInv, FiniteSetTheorems, TLAPS

USE DEF None, GEMM, RS

(* Sizes are naturals. *)
LEMMA Sizes ==
  /\ RS_COUNT \in Nat \ {0} /\ GEMM_COUNT \in Nat
  /\ GEMM_M_CLUSTERS \in Nat
  /\ 0 \in Rank /\ <<0, 0>> \in Tile
<1>1. RS_COUNT \in Nat \ {0}
  BY TileAssumption, SMT DEF RS_COUNT
<1>2. GEMM_M_CLUSTERS \in Nat
  BY WorldAssumption, TileAssumption, SMT DEF GEMM_M_CLUSTERS
<1>3. GEMM_COUNT \in Nat
  BY <1>2, TileAssumption, SMT DEF GEMM_COUNT
<1>4. 0 \in Rank /\ <<0, 0>> \in Tile
  BY WorldAssumption, TileAssumption, SMT DEF Rank, Tile
<1>. QED BY <1>1, <1>2, <1>3, <1>4

(* The rows a GEMM task computes are rows of the whole output, every one of  *)
(* them owned by a rank, and the owner and its local row determine the row.  *)
LEMMA RowFacts ==
  ASSUME NEW task \in GemmTask, NEW w \in Worker
  PROVE  /\ CommRow(task, w) \in 0 .. WORLD_SIZE * RS_M_CLUSTERS - 1
         /\ SignalRank(task, w) \in Rank
         /\ LocalTile(task, w) \in Tile
         /\ CommRow(task, w) = SignalRank(task, w) * RS_M_CLUSTERS + LocalTile(task, w)[1]
         /\ LocalTile(task, w)[2] = task[2]
<1>. DEFINE T == WORLD_SIZE * RS_M_CLUSTERS
            c == CommRow(task, w)
<1>1. T \in Nat /\ T % 2 = 0
  BY WorldAssumption, TileAssumption, SMT
<1>2. task[1] \in 0 .. (T \div 2) - 1 /\ task[2] \in 0 .. N_CLUSTERS - 1
  BY SMT DEF GemmTask, GEMM_M_CLUSTERS
<1>3. w[2] \in 0 .. 1
  BY DEF Worker, WG
<1>4. c \in 0 .. T - 1
  BY <1>1, <1>2, <1>3, SMT DEF CommRow
<1>5. /\ c % RS_M_CLUSTERS \in 0 .. RS_M_CLUSTERS - 1
      /\ c \div RS_M_CLUSTERS \in Nat
      /\ c = RS_M_CLUSTERS * (c \div RS_M_CLUSTERS) + (c % RS_M_CLUSTERS)
  <2>. HIDE DEF c, T
  <2>. c \in Nat
    BY <1>4, <1>1, SMT
  <2>. QED BY TileAssumption, SMT
<1>6. c \div RS_M_CLUSTERS < WORLD_SIZE
  <2>. HIDE DEF c
  <2>. c \in Nat /\ c < WORLD_SIZE * RS_M_CLUSTERS
    BY <1>4, <1>1, SMT
  <2>. QED BY TileAssumption, WorldAssumption, SMT
<1>7. LocalTile(task, w) \in Tile
  BY <1>2, <1>5 DEF LocalTile, Tile
<1>8. SignalRank(task, w) \in Rank
  BY <1>5, <1>6, WorldAssumption, SMT DEF SignalRank, Rank
<1>9. CommRow(task, w) = SignalRank(task, w) * RS_M_CLUSTERS + LocalTile(task, w)[1]
  <2>. DEFINE q == c \div RS_M_CLUSTERS
              x == c % RS_M_CLUSTERS
  <2>1. SignalRank(task, w) = q /\ LocalTile(task, w)[1] = x
    BY DEF SignalRank, LocalTile
  <2>2. q \in Nat /\ x \in Int /\ c = RS_M_CLUSTERS * q + x
    BY <1>5
  <2>. HIDE DEF q, x
  <2>. QED BY <2>1, <2>2, TileAssumption
<1>. QED BY <1>4, <1>7, <1>8, <1>9 DEF LocalTile

(* What the records of a packet and of a job can be. *)
LEMMA PacketFacts ==
  /\ NoTask \in Packet
  /\ \A rem \in RsPos \cup {-1} :
       /\ [type |-> None, task |-> <<0, 0>>, rem |-> rem] \in Packet
       /\ \A t \in GemmTask : [type |-> GEMM, task |-> t, rem |-> rem] \in Packet
       /\ \A t \in Tile : [type |-> RS, task |-> t, rem |-> rem] \in Packet
  /\ \A p \in Packet :
       /\ p.type \in {None, GEMM, RS} /\ p.rem \in RsPos \cup {-1}
       /\ p.type = GEMM => p.task \in GemmTask
       /\ p.type = RS => p.task \in Tile
       /\ [type |-> p.type, task |-> p.task, pos |-> 0] \in Job
  BY DEF Packet, Job, NoTask

LEMMA JobFacts ==
  /\ NoJob \in Job
  /\ \A t \in GemmTask, n \in Nat : [type |-> GEMM, task |-> t, pos |-> n] \in Job
  /\ \A j \in Job :
       /\ j.type \in {None, GEMM, RS} /\ j.pos \in Nat
       /\ j.type = GEMM => j.task \in GemmTask
       /\ j.type = RS => j.task \in Tile
  BY DEF Job, NoJob

----------------------------------------------------------------------------
LEMMA TypeInit == Init => TypeOK
<1>. SUFFICES ASSUME Init PROVE TypeOK
  OBVIOUS
<1>. USE Sizes DEF Init
<1>1. HostTypeOK
  BY DEF HostTypeOK
<1>2. QueueTypeOK
  BY DEF QueueTypeOK, FreshGemmSlot, FreshRsSlot, FreshRsIdx
<1>3. DataTypeOK
  BY DEF DataTypeOK, FreshSemaphore, FreshOut
<1>4. PublisherTypeOK
  BY PacketFacts DEF PublisherTypeOK
<1>5. WorkerTypeOK
  BY JobFacts DEF WorkerTypeOK, WorkerPlace
<1>. QED BY <1>1, <1>2, <1>3, <1>4, <1>5 DEF TypeOK

LEMMA TypeResetBarrier ==
  ASSUME TypeOK, ResetBarrier
  PROVE  TypeOK'
<1>. USE DEF TypeOK, ResetBarrier, gemmQueue, rsQueue, data, exitVars, pubVars, workVars
<1>1. HostTypeOK'
  BY DEF HostTypeOK
<1>2. QueueTypeOK'
  BY DEF QueueTypeOK
<1>3. DataTypeOK'
  BY DEF DataTypeOK
<1>4. PublisherTypeOK'
  BY DEF PublisherTypeOK
<1>5. WorkerTypeOK'
  BY DEF WorkerTypeOK
<1>. QED BY <1>1, <1>2, <1>3, <1>4, <1>5

LEMMA TypeClear ==
  ASSUME TypeOK, NEW r \in Rank, Clear(r)
  PROVE  TypeOK'
<1>. USE DEF TypeOK, Clear, gemmQueue, rsQueue, data, exitVars, pubVars, workVars
<1>1. HostTypeOK'
  BY DEF HostTypeOK
<1>2. QueueTypeOK'
  BY Sizes DEF FreshGemmSlot, FreshRsSlot, FreshRsIdx, QueueTypeOK
<1>3. DataTypeOK'
  BY Sizes DEF FreshSemaphore, FreshOut, DataTypeOK
<1>4. PublisherTypeOK'
  BY DEF PublisherTypeOK
<1>5. WorkerTypeOK'
  BY DEF WorkerTypeOK
<1>. QED BY <1>1, <1>2, <1>3, <1>4, <1>5

LEMMA TypePrepareBarrier ==
  ASSUME TypeOK, PrepareBarrier
  PROVE  TypeOK'
<1>. USE DEF TypeOK, PrepareBarrier, gemmQueue, rsQueue, data, exitVars, pubVars, workVars
<1>1. HostTypeOK'
  BY DEF HostTypeOK
<1>2. QueueTypeOK'
  BY DEF QueueTypeOK
<1>3. DataTypeOK'
  BY DEF DataTypeOK
<1>4. PublisherTypeOK'
  BY DEF PublisherTypeOK
<1>5. WorkerTypeOK'
  BY DEF WorkerTypeOK
<1>. QED BY <1>1, <1>2, <1>3, <1>4, <1>5

LEMMA TypeLaunch ==
  ASSUME TypeOK, NEW r \in Rank, Launch(r)
  PROVE  TypeOK'
<1>. USE DEF TypeOK, Launch, gemmQueue, rsQueue, data, exitVars, pubVars, workVars
<1>1. HostTypeOK'
  BY DEF HostTypeOK
<1>2. QueueTypeOK'
  BY DEF QueueTypeOK
<1>3. DataTypeOK'
  BY DEF DataTypeOK
<1>4. PublisherTypeOK'
  BY PacketFacts DEF PublisherTypeOK
<1>5. WorkerTypeOK'
  BY JobFacts DEF WorkerPlace, WorkerTypeOK
<1>. QED BY <1>1, <1>2, <1>3, <1>4, <1>5

LEMMA TypeKernelDone ==
  ASSUME TypeOK, NEW r \in Rank, KernelDone(r)
  PROVE  TypeOK'
<1>. USE DEF TypeOK, KernelDone, gemmQueue, rsQueue, data, exitVars, pubVars, workVars
<1>1. HostTypeOK'
  BY DEF HostTypeOK
<1>2. QueueTypeOK'
  BY DEF QueueTypeOK
<1>3. DataTypeOK'
  BY DEF DataTypeOK
<1>4. PublisherTypeOK'
  BY DEF PublisherTypeOK
<1>5. WorkerTypeOK'
  BY DEF WorkerTypeOK
<1>. QED BY <1>1, <1>2, <1>3, <1>4, <1>5

LEMMA TypeClaimRS ==
  ASSUME TypeOK, NEW k \in K, ClaimRS(k)
  PROVE  TypeOK'
<1>. USE DEF TypeOK, ClaimRS, gemmQueue, rsQueue, data, exitVars, pubVars, workVars
<1>1. HostTypeOK'
  BY DEF HostTypeOK
<1>2. QueueTypeOK'
  BY Sizes DEF Bump, K, QueueTypeOK
<1>3. DataTypeOK'
  BY DEF DataTypeOK
<1>4. PublisherTypeOK'
  <2>. DEFINE pos == IF rsRem[k] >= 0 THEN rsRem[k] ELSE rsHead[k[1]]
  <2>1. pos \in Nat /\ (Queued(pos, RS_COUNT) => pos \in RsPos)
    BY Sizes DEF K, Queued, RsPos, QueueTypeOK, PublisherTypeOK
  <2>2. /\ headR' = [headR EXCEPT ![k] = pos] /\ rsRem' = [rsRem EXCEPT ![k] = -1]
        /\ pub' = [pub EXCEPT ![k] = IF Queued(pos, RS_COUNT) THEN "load" ELSE "claim"]
        /\ packet' = packet /\ unread' = unread
    OBVIOUS
  <2>. HIDE DEF pos
  <2>. QED BY ONLY <2>1, <2>2, TypeOK DEF TypeOK, PublisherTypeOK
<1>5. WorkerTypeOK'
  BY DEF WorkerTypeOK
<1>. QED BY <1>1, <1>2, <1>3, <1>4, <1>5

LEMMA TypeMissRS ==
  ASSUME TypeOK, NEW k \in K, MissRS(k)
  PROVE  TypeOK'
<1>. USE DEF TypeOK, MissRS, gemmQueue, rsQueue, data, exitVars, pubVars, workVars
<1>1. HostTypeOK'
  BY DEF HostTypeOK
<1>2. QueueTypeOK'
  BY DEF QueueTypeOK
<1>3. DataTypeOK'
  BY DEF DataTypeOK
<1>4. PublisherTypeOK'
  BY DEF PublisherTypeOK
<1>5. WorkerTypeOK'
  BY DEF WorkerTypeOK
<1>. QED BY <1>1, <1>2, <1>3, <1>4, <1>5

LEMMA TypeTakeRS ==
  ASSUME TypeOK, NEW k \in K, TakeRS(k)
  PROVE  TypeOK'
<1>. USE DEF TypeOK, TakeRS, gemmQueue, rsQueue, data, exitVars, pubVars, workVars
<1>1. HostTypeOK'
  BY DEF HostTypeOK
<1>2. QueueTypeOK'
  BY DEF K, Emptied, QueueTypeOK
<1>3. DataTypeOK'
  BY DEF DataTypeOK
<1>4. PublisherTypeOK'
  <2>1. k[1] \in Rank /\ headR[k] \in RsPos /\ rsRem[k] \in RsPos \cup {-1}
    BY DEF K, PublisherTypeOK
  <2>2. rsIdx[k[1]][headR[k]] \in Tile
    BY <2>1 DEF QueueTypeOK
  <2>3. packet' \in [K -> Packet]
    BY <2>1, <2>2, PacketFacts DEF Publish, PublisherTypeOK
  <2>. QED BY <2>3 DEF PublisherTypeOK, Publish
<1>5. WorkerTypeOK'
  BY DEF WorkerTypeOK
<1>. QED BY <1>1, <1>2, <1>3, <1>4, <1>5

LEMMA TypeClaimGEMM ==
  ASSUME TypeOK, NEW k \in K, ClaimGEMM(k)
  PROVE  TypeOK'
<1>. USE DEF TypeOK, ClaimGEMM, gemmQueue, rsQueue, data, exitVars, pubVars, workVars
<1>1. HostTypeOK'
  BY DEF HostTypeOK
<1>2. QueueTypeOK'
  BY Sizes DEF Bump, K, QueueTypeOK
<1>3. DataTypeOK'
  BY DEF DataTypeOK
<1>4. PublisherTypeOK'
  <2>1. gemmHead[k[1]] \in Nat /\ rsRem[k] \in RsPos \cup {-1}
    BY DEF K, PublisherTypeOK, QueueTypeOK
  <2>2. CASE Queued(gemmHead[k[1]], GEMM_COUNT)
    BY <2>1, <2>2, Sizes DEF Queued, GemmPos, PublisherTypeOK
  <2>3. CASE ~Queued(gemmHead[k[1]], GEMM_COUNT)
    <3>1. packet' \in [K -> Packet]
      BY <2>1, <2>3, PacketFacts DEF Publish, PublisherTypeOK
    <3>. QED BY <2>1, <2>3, <3>1 DEF PublisherTypeOK, Publish
  <2>. QED BY <2>2, <2>3
<1>5. WorkerTypeOK'
  BY DEF WorkerTypeOK
<1>. QED BY <1>1, <1>2, <1>3, <1>4, <1>5

LEMMA TypeTakeGEMM ==
  ASSUME TypeOK, NEW k \in K, TakeGEMM(k)
  PROVE  TypeOK'
<1>. USE DEF TypeOK, TakeGEMM, gemmQueue, rsQueue, data, exitVars, pubVars, workVars
<1>1. HostTypeOK'
  BY DEF HostTypeOK
<1>2. QueueTypeOK'
  BY DEF K, Emptied, QueueTypeOK
<1>3. DataTypeOK'
  BY DEF DataTypeOK
<1>4. PublisherTypeOK'
  BY PacketFacts, OrderAssumption DEF Publish, PublisherTypeOK
<1>5. WorkerTypeOK'
  BY DEF WorkerTypeOK
<1>. QED BY <1>1, <1>2, <1>3, <1>4, <1>5

LEMMA TypeReceive ==
  ASSUME TypeOK, NEW k \in K, NEW w \in Worker, Receive(k, w)
  PROVE  TypeOK'
<1>. USE DEF TypeOK, Receive, gemmQueue, rsQueue, data, exitVars, pubVars, workVars
<1>1. HostTypeOK'
  BY DEF HostTypeOK
<1>2. QueueTypeOK'
  BY DEF QueueTypeOK
<1>3. DataTypeOK'
  BY DEF DataTypeOK
<1>4. PublisherTypeOK'
  BY DEF PublisherTypeOK
<1>5. WorkerTypeOK'
  BY PacketFacts, JobFacts DEF WorkerPlace, PublisherTypeOK, WorkerTypeOK
<1>. QED BY <1>1, <1>2, <1>3, <1>4, <1>5

LEMMA TypeReduceShare ==
  ASSUME TypeOK, NEW k \in K, NEW w \in Worker, ReduceShare(k, w)
  PROVE  TypeOK'
<1>. USE DEF TypeOK, ReduceShare, gemmQueue, rsQueue, data, exitVars, pubVars, workVars
<1>1. HostTypeOK'
  BY DEF HostTypeOK
<1>2. QueueTypeOK'
  BY DEF QueueTypeOK
<1>3. DataTypeOK'
  BY JobFacts DEF WorkerTypeOK, K, Part, Worker, DataTypeOK
<1>4. PublisherTypeOK'
  BY DEF PublisherTypeOK
<1>5. WorkerTypeOK'
  BY DEF WorkerPlace, WorkerTypeOK
<1>. QED BY <1>1, <1>2, <1>3, <1>4, <1>5

LEMMA TypeStoreTile ==
  ASSUME TypeOK, NEW k \in K, NEW w \in Worker, StoreTile(k, w)
  PROVE  TypeOK'
<1>. USE DEF TypeOK, StoreTile, gemmQueue, rsQueue, data, exitVars, pubVars, workVars
<1>1. HostTypeOK'
  BY DEF HostTypeOK
<1>2. QueueTypeOK'
  BY DEF QueueTypeOK
<1>3. DataTypeOK'
  BY JobFacts, RowFacts DEF WorkerTypeOK, K, Stored, GemmTask, Worker, DataTypeOK
<1>4. PublisherTypeOK'
  BY DEF PublisherTypeOK
<1>5. WorkerTypeOK'
  BY DEF WorkerPlace, WorkerTypeOK
<1>. QED BY <1>1, <1>2, <1>3, <1>4, <1>5

LEMMA TypeNotify ==
  ASSUME TypeOK, NEW k \in K, NEW w \in Worker, Notify(k, w)
  PROVE  TypeOK'
<1>. USE DEF TypeOK, Notify, gemmQueue, rsQueue, data, exitVars, pubVars, workVars
<1>1. HostTypeOK'
  BY DEF HostTypeOK
<1>2. QueueTypeOK'
  BY DEF QueueTypeOK
<1>3. DataTypeOK'
  BY JobFacts, RowFacts DEF WorkerTypeOK, DataTypeOK
<1>4. PublisherTypeOK'
  BY DEF PublisherTypeOK
<1>5. WorkerTypeOK'
  BY DEF WorkerPlace, WorkerTypeOK
<1>. QED BY <1>1, <1>2, <1>3, <1>4, <1>5

LEMMA TypeClaimTail ==
  ASSUME TypeOK, NEW k \in K, NEW w \in Worker, ClaimTail(k, w)
  PROVE  TypeOK'
<1>. USE DEF TypeOK, ClaimTail, gemmQueue, rsQueue, data, exitVars, pubVars, workVars
<1>1. HostTypeOK'
  BY DEF HostTypeOK
<1>2. QueueTypeOK'
  BY JobFacts, RowFacts DEF WorkerTypeOK, QueueTypeOK
<1>3. DataTypeOK'
  BY DEF DataTypeOK
<1>4. PublisherTypeOK'
  BY DEF PublisherTypeOK
<1>5. WorkerTypeOK'
  BY JobFacts, RowFacts DEF WorkerPlace, QueueTypeOK, WorkerTypeOK
<1>. QED BY <1>1, <1>2, <1>3, <1>4, <1>5

LEMMA TypeWriteIndex ==
  ASSUME TypeOK, NEW k \in K, NEW w \in Worker, WriteIndex(k, w)
  PROVE  TypeOK'
<1>. USE DEF TypeOK, WriteIndex, Indexed, gemmQueue, rsQueue, data, exitVars, pubVars, workVars
<1>1. HostTypeOK'
  BY DEF HostTypeOK
<1>2. QueueTypeOK'
  <2>. DEFINE q == SignalRank(job[k][w].task, w)
              i == job[k][w].pos
  <2>1. q \in Rank /\ LocalTile(job[k][w].task, w) \in Tile
    BY JobFacts, RowFacts DEF WorkerTypeOK
  <2>2. [rsIdx[q] EXCEPT ![i] = LocalTile(job[k][w].task, w)] \in [RsPos -> Tile]
    BY <2>1 DEF QueueTypeOK
  <2>3. rsIdx' = [rsIdx EXCEPT ![q] = [rsIdx[q] EXCEPT ![i] = LocalTile(job[k][w].task, w)]]
    BY DEF q, i
  <2>. HIDE DEF q, i
  <2>4. rsIdx' \in [Rank -> [RsPos -> Tile]]
    BY <2>1, <2>2, <2>3 DEF QueueTypeOK
  <2>. QED BY <2>4 DEF QueueTypeOK
<1>3. DataTypeOK'
  BY DEF DataTypeOK
<1>4. PublisherTypeOK'
  BY DEF PublisherTypeOK
<1>5. WorkerTypeOK'
  BY DEF WorkerPlace, WorkerTypeOK
<1>. QED BY <1>1, <1>2, <1>3, <1>4, <1>5

LEMMA TypeReleaseType ==
  ASSUME TypeOK, NEW k \in K, NEW w \in Worker, ReleaseType(k, w)
  PROVE  TypeOK'
<1>. USE DEF TypeOK, ReleaseType, gemmQueue, rsQueue, data, exitVars, pubVars, workVars
<1>1. HostTypeOK'
  BY DEF HostTypeOK
<1>2. QueueTypeOK'
  BY JobFacts, RowFacts DEF WorkerTypeOK, QueueTypeOK
<1>3. DataTypeOK'
  BY DEF DataTypeOK
<1>4. PublisherTypeOK'
  BY DEF PublisherTypeOK
<1>5. WorkerTypeOK'
  BY DEF WorkerPlace, WorkerTypeOK
<1>. QED BY <1>1, <1>2, <1>3, <1>4, <1>5

LEMMA TypeExitArrive ==
  ASSUME TypeOK, NEW k \in K, ExitArrive(k)
  PROVE  TypeOK'
<1>. USE DEF TypeOK, ExitArrive, gemmQueue, rsQueue, data, exitVars, pubVars, workVars
<1>1. HostTypeOK'
  <2>1. k[1] \in Rank /\ host' = host /\ exitRank' = exitRank
    BY DEF K
  <2>2. cluster' \in [K -> {"off", "run", "spin", "done"}]
    BY DEF HostTypeOK
  <2>3. exitLocal' \in [Rank -> Nat]
    BY <2>1 DEF HostTypeOK
  <2>4. redTo' \in [Rank -> SUBSET Rank]
    BY <2>1 DEF HostTypeOK
  <2>. QED BY <2>1, <2>2, <2>3, <2>4 DEF HostTypeOK
<1>2. QueueTypeOK'
  BY DEF QueueTypeOK
<1>3. DataTypeOK'
  BY DEF DataTypeOK
<1>4. PublisherTypeOK'
  BY DEF PublisherTypeOK
<1>5. WorkerTypeOK'
  BY DEF WorkerTypeOK
<1>. QED BY <1>1, <1>2, <1>3, <1>4, <1>5

LEMMA TypeDeliverRed ==
  ASSUME TypeOK, NEW r \in Rank, NEW q \in Rank, DeliverRed(r, q)
  PROVE  TypeOK'
<1>. USE DEF TypeOK, DeliverRed, gemmQueue, rsQueue, data, exitVars, pubVars, workVars
<1>1. HostTypeOK'
  BY DEF HostTypeOK
<1>2. QueueTypeOK'
  BY DEF QueueTypeOK
<1>3. DataTypeOK'
  BY DEF DataTypeOK
<1>4. PublisherTypeOK'
  BY DEF PublisherTypeOK
<1>5. WorkerTypeOK'
  BY DEF WorkerTypeOK
<1>. QED BY <1>1, <1>2, <1>3, <1>4, <1>5

LEMMA TypeExitLeave ==
  ASSUME TypeOK, NEW k \in K, ExitLeave(k)
  PROVE  TypeOK'
<1>. USE DEF TypeOK, ExitLeave, gemmQueue, rsQueue, data, exitVars, pubVars, workVars
<1>1. HostTypeOK'
  BY DEF HostTypeOK
<1>2. QueueTypeOK'
  BY DEF QueueTypeOK
<1>3. DataTypeOK'
  BY DEF DataTypeOK
<1>4. PublisherTypeOK'
  BY DEF PublisherTypeOK
<1>5. WorkerTypeOK'
  BY DEF WorkerTypeOK
<1>. QED BY <1>1, <1>2, <1>3, <1>4, <1>5

LEMMA TypeStep == TypeOK /\ [Next]_vars => TypeOK'
<1>. SUFFICES ASSUME TypeOK, [Next]_vars PROVE TypeOK'
  OBVIOUS
<1>1. CASE ResetBarrier \/ PrepareBarrier
  BY <1>1, TypeResetBarrier, TypePrepareBarrier
<1>2. ASSUME NEW r \in Rank, Clear(r) \/ Launch(r) \/ KernelDone(r) PROVE TypeOK'
  BY <1>2, TypeClear, TypeLaunch, TypeKernelDone
<1>3. ASSUME NEW k \in K, Publisher(k) \/ ExitArrive(k) \/ ExitLeave(k) PROVE TypeOK'
  BY <1>3, TypeClaimRS, TypeMissRS, TypeTakeRS, TypeClaimGEMM, TypeTakeGEMM,
     TypeExitArrive, TypeExitLeave DEF Publisher
<1>4. ASSUME NEW k \in K, NEW w \in Worker, Consumer(k, w) PROVE TypeOK'
  BY <1>4, TypeReceive, TypeReduceShare, TypeStoreTile, TypeNotify, TypeClaimTail,
     TypeWriteIndex, TypeReleaseType DEF Consumer
<1>5. ASSUME NEW r \in Rank, NEW q \in Rank, DeliverRed(r, q) PROVE TypeOK'
  BY <1>5, TypeDeliverRed
<1>6. CASE UNCHANGED vars
  BY <1>6 DEF vars, TypeOK, HostTypeOK, QueueTypeOK, DataTypeOK, PublisherTypeOK, WorkerTypeOK
<1>. QED BY <1>1, <1>2, <1>3, <1>4, <1>5, <1>6 DEF Next

(* Every variable keeps its type, for every size of the system. *)
THEOREM TypeCorrect == Spec => []TypeOK
  BY TypeInit, TypeStep, PTL DEF Spec


----------------------------------------------------------------------------
(* Lifecycle: HostInv.                                                       *)
LEMMA HostInit == Init => HostInv
  BY DEF Init, HostInv, Clearing, Fresh, NoTask

LEMMA HostStepHost ==
  ASSUME TypeOK, HostInv,
         \/ ResetBarrier \/ PrepareBarrier
         \/ \E r \in Rank : Clear(r) \/ Launch(r) \/ KernelDone(r)
  PROVE  HostInv'
<1>. USE DEF TypeOK, HostInv, Clearing, Fresh, gemmQueue, rsQueue, data, exitVars, pubVars, workVars
<1>1. CASE ResetBarrier
  BY <1>1 DEF ResetBarrier, EveryRankAt, HostTypeOK, K
<1>2. CASE PrepareBarrier
  BY <1>2 DEF PrepareBarrier, EveryRankAt, HostTypeOK, K
<1>3. ASSUME NEW r \in Rank, Clear(r) PROVE HostInv'
  BY <1>3 DEF Clear, HostTypeOK, DataTypeOK, QueueTypeOK
<1>4. ASSUME NEW r \in Rank, Launch(r) PROVE HostInv'
  BY <1>4 DEF Launch, HostTypeOK, NoTask, PublisherTypeOK
<1>5. ASSUME NEW r \in Rank, KernelDone(r) PROVE HostInv'
  BY <1>5 DEF KernelDone, HostTypeOK
<1>. QED BY <1>1, <1>2, <1>3, <1>4, <1>5

(* A cluster at work runs on a rank that is running, so nobody is clearing.  *)
LEMMA AtWork ==
  ASSUME TypeOK, HostInv, NEW k \in K,
         \/ pub[k] # "left" \/ cluster[k] \in {"run", "spin"} 
         \/ \E w \in Worker : work[k][w] # "left"
  PROVE  /\ host[k[1]] = "running" /\ ~Clearing /\ k[1] \in Rank
  BY DEF HostInv, Clearing, K, TypeOK, HostTypeOK

LEMMA HostStepCluster ==
  ASSUME TypeOK, HostInv, NEW k \in K, Publisher(k) \/ ExitArrive(k) \/ ExitLeave(k)
  PROVE  HostInv' /\ ~Clearing /\ ~Clearing'
<1>. USE DEF HostInv, gemmQueue, rsQueue, data, exitVars, pubVars, workVars
<1>1. host[k[1]] = "running" /\ ~Clearing /\ k[1] \in Rank
  BY AtWork DEF Publisher, ClaimRS, MissRS, TakeRS, ClaimGEMM, TakeGEMM, ExitArrive, ExitLeave
<1>2. host' = host
  BY DEF Publisher, ClaimRS, MissRS, TakeRS, ClaimGEMM, TakeGEMM, ExitArrive, ExitLeave
<1>3. ~Clearing'
  BY <1>1, <1>2 DEF Clearing
<1>4. ASSUME NEW r \in Rank PROVE host'[r] # "cleared"
  BY <1>1, <1>2 DEF Clearing
<1>5. /\ \A l \in K : cluster'[l] \in {"run", "spin"} => host'[l[1]] = "running"
      /\ \A l \in K : cluster'[l] # "run" =>
           pub'[l] = "left" /\ \A w \in Worker : work'[l][w] = "left"
      /\ \A l \in K : pub'[l] = "left" => packet'[l].type = None
      /\ \A l \in K : pub'[l] \in {"load", "claim", "take"} => unread'[l] = {}
  <2>. USE <1>1, <1>2 DEF TypeOK, PublisherTypeOK, HostTypeOK
  <2>1. CASE ClaimRS(k)
    BY <2>1 DEF ClaimRS
  <2>2. CASE MissRS(k)
    BY <2>2 DEF MissRS
  <2>3. CASE TakeRS(k)
    BY <2>3 DEF TakeRS, Publish
  <2>4. CASE ClaimGEMM(k)
    BY <2>4 DEF ClaimGEMM, Publish
  <2>5. CASE TakeGEMM(k)
    BY <2>5 DEF TakeGEMM, Publish
  <2>6. CASE ExitArrive(k)
    BY <2>6 DEF ExitArrive
  <2>7. CASE ExitLeave(k)
    BY <2>7 DEF ExitLeave
  <2>. QED BY <2>1, <2>2, <2>3, <2>4, <2>5, <2>6, <2>7 DEF Publisher
<1>6. HostInv'
  BY ONLY <1>3, <1>4, <1>5 DEF HostInv
<1>. QED BY <1>1, <1>3, <1>6

LEMMA HostStepConsumer ==
  ASSUME TypeOK, HostInv, NEW k \in K, NEW w \in Worker, Consumer(k, w)
  PROVE  HostInv' /\ ~Clearing /\ ~Clearing'
<1>. USE DEF gemmQueue, rsQueue, data, exitVars, pubVars, workVars
<1>1. work[k][w] # "left" /\ host[k[1]] = "running" /\ ~Clearing /\ k[1] \in Rank
  BY AtWork DEF Consumer, Receive, ReduceShare, StoreTile, Notify, ClaimTail, WriteIndex, ReleaseType
<1>2. host' = host /\ cluster' = cluster /\ pub' = pub /\ packet' = packet
  BY DEF Consumer, Receive, ReduceShare, StoreTile, Notify, ClaimTail, WriteIndex, ReleaseType
<1>3. \A l \in K : unread[l] = {} => unread'[l] = {}
  <2>1. unread' = unread \/ unread' = [unread EXCEPT ![k] = @ \ {w}]
    BY DEF Consumer, Receive, ReduceShare, StoreTile, Notify, ClaimTail, WriteIndex, ReleaseType
  <2>. QED BY <2>1 DEF TypeOK, PublisherTypeOK
<1>4. \A l \in K : l # k => work'[l] = work[l]
  <2>1. \E x : work' = [work EXCEPT ![k][w] = x]
    BY DEF Consumer, Receive, ReduceShare, StoreTile, Notify, ClaimTail, WriteIndex, ReleaseType
  <2>. QED BY <2>1 DEF TypeOK, WorkerTypeOK
<1>5. cluster[k] = "run"
  BY <1>1 DEF HostInv
<1>6. ~Clearing'
  BY <1>1, <1>2 DEF Clearing
<1>7. ASSUME NEW r \in Rank PROVE host'[r] # "cleared"
  BY <1>1, <1>2 DEF Clearing
<1>8. HostInv'
  BY <1>2, <1>3, <1>4, <1>5, <1>6, <1>7 DEF HostInv
<1>. QED BY <1>1, <1>6, <1>8

LEMMA HostStepOther ==
  ASSUME TypeOK, HostInv, UNCHANGED vars \/ \E r, q \in Rank : DeliverRed(r, q)
  PROVE  HostInv' /\ (Clearing' <=> Clearing)
  BY DEF HostInv, Clearing, Fresh, DeliverRed, vars, gemmQueue, rsQueue, data, exitVars, pubVars, workVars

----------------------------------------------------------------------------
(* Ownership of GEMM tasks: GemmInv.                                         *)
LEMMA HalfTileInjective ==
  ASSUME NEW t \in GemmTask, NEW u \in GemmTask, NEW w \in Worker, NEW v \in Worker,
         HalfTile(t, w) = HalfTile(u, v)
  PROVE  t = u /\ w = v
<1>1. t[1] \in Int /\ u[1] \in Int /\ w[2] \in 0 .. 1 /\ v[2] \in 0 .. 1
  BY Sizes DEF GemmTask, Worker, WG
<1>2. 2 * t[1] + w[2] = 2 * u[1] + v[2] /\ t[2] = u[2] /\ w[1] = v[1]
  BY DEF HalfTile, CommRow
<1>3. \A a, b \in Int, x, y \in 0 .. 1 : 2 * a + x = 2 * b + y => a = b /\ x = y
  BY SMT
<1>4. t[1] = u[1] /\ w[2] = v[2]
  <2>. DEFINE a == t[1]
              b == u[1]
              x == w[2]
              y == v[2]
  <2>1. a \in Int /\ b \in Int /\ x \in 0 .. 1 /\ y \in 0 .. 1 /\ 2 * a + x = 2 * b + y
    BY <1>1, <1>2
  <2>. HIDE DEF a, b, x, y
  <2>2. a = b /\ x = y
    BY <2>1, <1>3
  <2>. QED BY <2>2 DEF a, b, x, y
<1>. QED BY <1>2, <1>4 DEF GemmTask, Worker

LEMMA StoredPartIsHalfTile ==
  ASSUME NEW t \in GemmTask, NEW w \in Worker,
         NEW r \in Rank, NEW u \in Tile, NEW cta \in CTA
  PROVE  StoredPart(r, u, cta) = HalfTile(t, w) <=>
           r = SignalRank(t, w) /\ u = LocalTile(t, w) /\ cta = w[1]
<1>. DEFINE s == SignalRank(t, w)
            v == LocalTile(t, w)
            c == CommRow(t, w)
<1>1. s \in Rank /\ v \in Tile /\ c = s * RS_M_CLUSTERS + v[1] /\ v[2] = t[2]
  BY RowFacts
<1>2. /\ r \in Nat /\ s \in Nat /\ u[1] \in 0 .. RS_M_CLUSTERS - 1
      /\ v[1] \in 0 .. RS_M_CLUSTERS - 1
  BY <1>1, WorldAssumption, TileAssumption DEF Rank, Tile
<1>. HIDE DEF s, v, c
<1>3. r * RS_M_CLUSTERS + u[1] = c <=> r = s /\ u[1] = v[1]
  BY <1>1, <1>2, TileAssumption, SMT
<1>4. u = v <=> u[1] = v[1] /\ u[2] = v[2]
  BY <1>1 DEF Tile
<1>5. StoredPart(r, u, cta) = HalfTile(t, w) <=>
        r * RS_M_CLUSTERS + u[1] = c /\ u[2] = t[2] /\ cta = w[1]
  BY DEF StoredPart, HalfTile, c
<1>. QED BY <1>1, <1>3, <1>4, <1>5 DEF s, v

(* A step that moves no task to a new holder and stores nothing.             *)
GemmFrame ==
  /\ gemm_out' = gemm_out /\ gemmHead' = gemmHead
  /\ \A l \in K, w \in Worker, t \in GemmTask :
       /\ Taking(l, t)' => Taking(l, t)
       /\ Sent(l, w, t)' => Sent(l, w, t)
       /\ Running(l, w, t)' => Running(l, w, t)
       /\ Notifying(l, w, t)' => Notifying(l, w, t)

LEMMA GemmFramed == GemmInv /\ GemmFrame => GemmInv'
<1>. SUFFICES ASSUME GemmInv, GemmFrame PROVE GemmInv'
  OBVIOUS
<1>1. \A l \in K, w \in Worker, t \in GemmTask : Holds(l, w, t)' => Holds(l, w, t)
  BY DEF GemmFrame, Holds
<1>2. \A r, t : Claimed(r, t)' <=> Claimed(r, t)
  BY DEF GemmFrame, Claimed
<1>. QED BY <1>1, <1>2 DEF GemmFrame, GemmInv

LEMMA GemmFrameHost ==
  ASSUME TypeOK, HostInv,
         \/ UNCHANGED vars
         \/ \E r \in Rank : Launch(r) \/ KernelDone(r)
         \/ \E k \in K : ExitArrive(k) \/ ExitLeave(k)
         \/ \E r, q \in Rank : DeliverRed(r, q)
  PROVE  GemmFrame
<1>. USE DEF GemmFrame, Taking, Sent, Running, Notifying, gemmQueue, rsQueue, data, exitVars,
             pubVars, workVars
<1>1. CASE UNCHANGED vars
  BY <1>1 DEF vars
<1>2. ASSUME NEW r \in Rank, Launch(r) PROVE GemmFrame
  BY <1>2 DEF Launch, NoTask, NoJob, TypeOK, PublisherTypeOK, WorkerTypeOK
<1>3. ASSUME NEW r \in Rank, KernelDone(r) PROVE GemmFrame
  BY <1>3 DEF KernelDone
<1>4. ASSUME NEW k \in K, ExitArrive(k) \/ ExitLeave(k) PROVE GemmFrame
  BY <1>4 DEF ExitArrive, ExitLeave
<1>5. ASSUME NEW r \in Rank, NEW q \in Rank, DeliverRed(r, q) PROVE GemmFrame
  BY <1>5 DEF DeliverRed
<1>. QED BY <1>1, <1>2, <1>3, <1>4, <1>5

LEMMA GemmFrameRS ==
  ASSUME TypeOK, HostInv, NEW k \in K, ClaimRS(k) \/ MissRS(k) \/ TakeRS(k)
  PROVE  GemmFrame
<1>. USE DEF GemmFrame, Taking, Sent, Running, Notifying, gemmQueue, rsQueue, data, exitVars,
             pubVars, workVars, TypeOK, PublisherTypeOK
<1>1. CASE ClaimRS(k)
  BY <1>1 DEF ClaimRS
<1>2. CASE MissRS(k)
  BY <1>2 DEF MissRS
<1>3. CASE TakeRS(k)
  <2>1. packet'[k].type = RS /\ \A l \in K : l # k => packet'[l] = packet[l] /\ unread'[l] = unread[l]
    BY <1>3 DEF TakeRS, Publish
  <2>2. pub'[k] # "take" /\ \A l \in K : l # k => pub'[l] = pub[l]
    BY <1>3 DEF TakeRS, Publish
  <2>3. gemm_out' = gemm_out /\ gemmHead' = gemmHead /\ headR' = headR /\ work' = work /\ job' = job
    BY <1>3 DEF TakeRS
  <2>4. \A l \in K, w \in Worker, t \in GemmTask :
          (Taking(l, t)' => Taking(l, t)) /\ (Sent(l, w, t)' => Sent(l, w, t))
    BY ONLY <2>1, <2>2, <2>3 DEF Taking, Sent, GEMM, RS
  <2>. QED BY <2>3, <2>4
<1>. QED BY <1>1, <1>2, <1>3

LEMMA GemmFrameWorker ==
  ASSUME TypeOK, HostInv, NEW k \in K, NEW w \in Worker,
         \/ ReduceShare(k, w) \/ Notify(k, w)
         \/ ClaimTail(k, w) \/ WriteIndex(k, w) \/ ReleaseType(k, w)
  PROVE  GemmFrame
<1>1. /\ gemm_out' = gemm_out /\ gemmHead' = gemmHead
      /\ pub' = pub /\ headR' = headR /\ packet' = packet /\ unread' = unread
  BY DEF ReduceShare, Notify, ClaimTail, WriteIndex, ReleaseType, gemmQueue, data, pubVars
<1>2. work'[k][w] \notin {"work", "notify"}
      /\ \A l \in K, v \in Worker : <<l, v>> # <<k, w>> =>
           work'[l][v] = work[l][v] /\ job'[l][v] = job[l][v]
  <2>1. \E x : x \notin {"work", "notify"} /\ work' = [work EXCEPT ![k][w] = x]
    BY DEF ReduceShare, Notify, ClaimTail, WriteIndex, ReleaseType
  <2>2. \E x : job' = [job EXCEPT ![k][w] = x]
    <3>1. CASE job' = job
      BY <3>1 DEF TypeOK, WorkerTypeOK
    <3>. QED BY <3>1 DEF ReduceShare, Notify, ClaimTail, WriteIndex, ReleaseType
  <2>. QED BY <2>1, <2>2 DEF TypeOK, WorkerTypeOK
<1>. QED BY <1>1, <1>2 DEF GemmFrame, Taking, Sent, Running, Notifying

LEMMA GemmClaim ==
  ASSUME TypeOK, HostInv, GemmInv, NEW k \in K, ClaimGEMM(k)
  PROVE  GemmInv'
<1>. DEFINE r == k[1]
<1>0. PICK p \in Nat : p = gemmHead[r]
  BY DEF K, TypeOK, QueueTypeOK
<1>. DEFINE u == QueueOrder[p]
<1>1. r \in Rank /\ \A l \in K : l[1] \in Rank
  BY DEF K
<1>2. /\ gemm_out' = gemm_out /\ work' = work /\ job' = job
      /\ \A l \in K : l # k => pub'[l] = pub[l] /\ headR'[l] = headR[l]
                               /\ packet'[l] = packet[l] /\ unread'[l] = unread[l]
  <2>1. gemm_out' = gemm_out /\ work' = work /\ job' = job
    BY DEF ClaimGEMM, data, workVars
  <2>2. /\ \E x : pub' = [pub EXCEPT ![k] = x]
        /\ \E x : headR' = [headR EXCEPT ![k] = x]
        /\ packet' = packet \/ \E x : packet' = [packet EXCEPT ![k] = x]
        /\ unread' = unread \/ \E x : unread' = [unread EXCEPT ![k] = x]
    BY DEF ClaimGEMM, Publish
  <2>. QED BY <2>1, <2>2 DEF TypeOK, PublisherTypeOK
<1>3. gemmHead' = [gemmHead EXCEPT ![r] = IF p < GEMM_COUNT THEN p + 1 ELSE GEMM_COUNT]
  BY <1>0 DEF ClaimGEMM, Bump
<1>4. ASSUME NEW q \in Rank, NEW t \in GemmTask, Claimed(q, t) PROVE Claimed(q, t)'
  <2>1. gemmHead \in [Rank -> Nat] /\ GEMM_COUNT \in Nat
    BY Sizes DEF TypeOK, QueueTypeOK
  <2>2. PICK i \in GemmPos : i < gemmHead[q] /\ QueueOrder[i] = t
    BY <1>4 DEF Claimed
  <2>3. i \in Int /\ i < GEMM_COUNT
    BY <2>1 DEF GemmPos
  <2>. HIDE DEF r
  <2>4. q = r => gemmHead[q] = p
    BY <1>0
  <2>5. i < gemmHead'[q]
    BY <1>1, <1>3, <2>1, <2>2, <2>3, <2>4
  <2>. QED BY ONLY <2>2, <2>5 DEF Claimed
<1>5. \A l \in K, w \in Worker, t \in GemmTask :
        /\ Running(l, w, t)' <=> Running(l, w, t)
        /\ Notifying(l, w, t)' <=> Notifying(l, w, t)
  BY <1>2 DEF Running, Notifying
<1>6. CASE p < GEMM_COUNT
  <2>1. p \in GemmPos /\ u \in GemmTask
    BY <1>1, <1>6, Sizes, OrderAssumption DEF GemmPos
  <2>2. pub'[k] = "take" /\ headR'[k] = p /\ packet' = packet /\ unread' = unread
    BY <1>0, <1>1, <1>6 DEF ClaimGEMM, Queued, TypeOK, PublisherTypeOK
  <2>3. gemmHead'[r] = p + 1
    BY <1>0, <1>1, <1>3, <1>6 DEF TypeOK, QueueTypeOK
  <2>4. ~Claimed(r, u)
    BY <1>0, <1>1, <2>1, OrderAssumption DEF Claimed, GemmPos
  <2>5. Claimed(r, u)'
    <3>1. p < gemmHead'[r] /\ QueueOrder[p] = u
      BY <1>1, <2>3
    <3>. QED BY ONLY <2>1, <3>1 DEF Claimed
  <2>6. \A l \in K, w \in Worker, t \in GemmTask :
          /\ Taking(l, t)' => Taking(l, t) \/ (l = k /\ t = u)
          /\ Sent(l, w, t)' <=> Sent(l, w, t)
    BY <1>2, <2>2 DEF Taking, Sent
  <2>7. \A l \in K, w \in Worker, t \in GemmTask :
          Holds(l, w, t)' => Holds(l, w, t) \/ (l = k /\ t = u)
    BY <1>5, <2>6 DEF Holds
  <2>8. \A l \in K, w \in Worker : l[1] = r => ~Holds(l, w, u)
    BY <2>1, <2>4 DEF GemmInv
  <2>9. \A w \in Worker : HalfTile(u, w) \notin gemm_out[r]
    BY <1>1, <2>1, <2>4 DEF GemmInv
  <2>10. k[1] = r
    OBVIOUS
  <2>. HIDE DEF r, u
  <2>11. \A l, m \in K, w \in Worker, t \in GemmTask :
           Holds(l, w, t)' /\ Holds(m, w, t)' /\ l[1] = m[1] => l = m
    BY <2>7, <2>8, <2>10 DEF GemmInv
  <2>12. ASSUME NEW l \in K, NEW w \in Worker, NEW t \in GemmTask
         PROVE  ~(Taking(l, t)' /\ Running(l, w, t)') /\ ~(Sent(l, w, t)' /\ Running(l, w, t)')
    <3>1. Running(l, w, t) => ~Taking(l, t) /\ ~Sent(l, w, t)
      BY DEF GemmInv
    <3>2. l = k /\ t = u => ~Running(l, w, t)
      BY <2>8, <2>10 DEF Holds
    <3>. QED BY ONLY <1>5, <2>6, <3>1, <3>2, <2>12
  <2>13. ASSUME NEW l \in K, NEW w \in Worker, NEW t \in GemmTask, Holds(l, w, t)'
         PROVE  HalfTile(t, w) \notin gemm_out'[l[1]] /\ Claimed(l[1], t)'
    <3>1. CASE Holds(l, w, t)
      BY <1>1, <1>2, <1>4, <3>1 DEF GemmInv
    <3>2. CASE l = k /\ t = u
      BY <1>2, <2>5, <2>9, <2>10, <3>2
    <3>. QED BY <2>7, <2>13, <3>1, <3>2
  <2>14. \A l \in K, w \in Worker, t \in GemmTask :
           Notifying(l, w, t)' => HalfTile(t, w) \in gemm_out'[l[1]]
    BY <1>2, <1>5 DEF GemmInv
  <2>15. \A q \in Rank, w \in Worker, t \in GemmTask :
           HalfTile(t, w) \in gemm_out'[q] => Claimed(q, t)'
    BY <1>2, <1>4 DEF GemmInv
  <2>16. \A l, m \in K, w \in Worker, t \in GemmTask :
           Notifying(l, w, t)' /\ Notifying(m, w, t)' /\ l[1] = m[1] => l = m
    BY <1>5 DEF GemmInv
  <2>. QED BY <2>11, <2>12, <2>13, <2>14, <2>15, <2>16 DEF GemmInv
<1>7. CASE ~(p < GEMM_COUNT)
  <2>1. pub'[k] # "take" /\ packet'[k].type = None
    BY <1>0, <1>7 DEF ClaimGEMM, Publish, Queued, TypeOK, PublisherTypeOK
  <2>2. \A l \in K, w \in Worker, t \in GemmTask :
          (Taking(l, t)' => Taking(l, t)) /\ (Sent(l, w, t)' => Sent(l, w, t))
    BY ONLY <1>2, <2>1 DEF Taking, Sent, None, GEMM
  <2>3. \A l \in K, w \in Worker, t \in GemmTask : Holds(l, w, t)' => Holds(l, w, t)
    BY <1>5, <2>2 DEF Holds
  <2>. QED BY <1>1, <1>2, <1>4, <1>5, <2>2, <2>3 DEF GemmInv
<1>. QED BY <1>6, <1>7

LEMMA GemmTake ==
  ASSUME TypeOK, HostInv, GemmInv, NEW k \in K, TakeGEMM(k)
  PROVE  GemmInv'
<1>. DEFINE u == QueueOrder[headR[k]]
<1>1. /\ gemm_out' = gemm_out /\ work' = work /\ job' = job /\ gemmHead' = gemmHead
      /\ headR' = headR
      /\ \A l \in K : l # k => pub'[l] = pub[l] /\ packet'[l] = packet[l] /\ unread'[l] = unread[l]
      /\ pub'[k] # "take" /\ packet'[k].type = GEMM /\ packet'[k].task = u
      /\ Taking(k, u) /\ unread[k] = {}
  BY DEF TakeGEMM, Publish, data, workVars, TypeOK, PublisherTypeOK, HostInv, Taking
<1>2. \A l \in K, w \in Worker, t \in GemmTask :
        /\ Running(l, w, t)' <=> Running(l, w, t)
        /\ Notifying(l, w, t)' <=> Notifying(l, w, t)
        /\ Taking(l, t)' => Taking(l, t) /\ l # k
        /\ Sent(l, w, t)' => Sent(l, w, t) \/ (l = k /\ t = u)
        /\ ~Sent(k, w, t)
  BY <1>1 DEF Running, Notifying, Taking, Sent
<1>3. \A q \in Rank, t \in GemmTask : Claimed(q, t)' <=> Claimed(q, t)
  BY <1>1 DEF Claimed
<1>. HIDE DEF u
<1>4. \A l \in K, w \in Worker, t \in GemmTask : Holds(l, w, t)' => Holds(l, w, t)
  BY <1>1, <1>2 DEF Holds
<1>5. \A l \in K, w \in Worker, t \in GemmTask : ~(Sent(l, w, t)' /\ Running(l, w, t)')
  BY <1>1, <1>2 DEF GemmInv
<1>6. \A l \in K : l[1] \in Rank
  BY DEF K
<1>. QED BY <1>1, <1>2, <1>3, <1>4, <1>5, <1>6 DEF GemmInv

LEMMA GemmReceive ==
  ASSUME TypeOK, HostInv, GemmInv, NEW k \in K, NEW w \in Worker, Receive(k, w)
  PROVE  GemmInv'
<1>1. /\ gemm_out' = gemm_out /\ gemmHead' = gemmHead /\ pub' = pub /\ headR' = headR
      /\ packet' = packet /\ work[k][w] = "receive" /\ w \in unread[k]
  BY DEF Receive, data, pubVars, gemmQueue
<1>2. /\ work'[k][w] # "notify" /\ job'[k][w].type = packet[k].type
      /\ job'[k][w].task = packet[k].task /\ unread'[k] = unread[k] \ {w}
      /\ \A l \in K, v \in Worker : <<l, v>> # <<k, w>> =>
           work'[l][v] = work[l][v] /\ job'[l][v] = job[l][v]
      /\ \A l \in K : l # k => unread'[l] = unread[l]
  BY DEF Receive, TypeOK, WorkerTypeOK, PublisherTypeOK
<1>3. pub[k] # "take"
  BY <1>1 DEF HostInv
<1>4. \A l \in K, v \in Worker, t \in GemmTask :
        /\ Taking(l, t)' <=> Taking(l, t)
        /\ Sent(l, v, t)' => Sent(l, v, t) /\ <<l, v>> # <<k, w>>
        /\ Running(l, v, t)' => Running(l, v, t) \/ (<<l, v>> = <<k, w>> /\ Sent(l, v, t))
        /\ Notifying(l, v, t)' => Notifying(l, v, t)
        /\ ~Taking(k, t)
  BY <1>1, <1>2, <1>3 DEF Taking, Sent, Running, Notifying
<1>5. \A q \in Rank, t \in GemmTask : Claimed(q, t)' <=> Claimed(q, t)
  BY <1>1 DEF Claimed
<1>6. \A l \in K, v \in Worker, t \in GemmTask : Holds(l, v, t)' => Holds(l, v, t)
  BY <1>4 DEF Holds
<1>7. \A l \in K, v \in Worker, t \in GemmTask :
        ~(Taking(l, t)' /\ Running(l, v, t)') /\ ~(Sent(l, v, t)' /\ Running(l, v, t)')
  BY <1>4 DEF GemmInv
<1>8. \A l \in K : l[1] \in Rank
  BY DEF K
<1>. QED BY <1>1, <1>4, <1>5, <1>6, <1>7, <1>8 DEF GemmInv

LEMMA GemmStore ==
  ASSUME TypeOK, HostInv, GemmInv, NEW k \in K, NEW w \in Worker, StoreTile(k, w)
  PROVE  GemmInv'
<1>. DEFINE r == k[1]
<1>0. PICK u \in GemmTask : u = job[k][w].task
  BY JobFacts DEF StoreTile, TypeOK, WorkerTypeOK
<1>1. /\ r \in Rank /\ Running(k, w, u)
      /\ gemmHead' = gemmHead /\ pub' = pub /\ headR' = headR /\ packet' = packet
      /\ unread' = unread /\ job' = job
  BY <1>0 DEF StoreTile, K, Running, gemmQueue, pubVars
<1>2. /\ work'[k][w] = "notify"
      /\ \A l \in K, v \in Worker : <<l, v>> # <<k, w>> => work'[l][v] = work[l][v]
      /\ gemm_out'[r] = gemm_out[r] \cup {HalfTile(u, w)}
      /\ \A q \in Rank : q # r => gemm_out'[q] = gemm_out[q]
  BY <1>0, <1>1 DEF StoreTile, TypeOK, WorkerTypeOK, DataTypeOK, HalfTile
<1>3. \A l \in K, v \in Worker, t \in GemmTask :
        /\ Taking(l, t)' <=> Taking(l, t)
        /\ Sent(l, v, t)' <=> Sent(l, v, t)
        /\ Running(l, v, t)' <=> Running(l, v, t) /\ <<l, v>> # <<k, w>>
        /\ Notifying(l, v, t)' <=> Notifying(l, v, t) \/ (<<l, v>> = <<k, w>> /\ t = u)
  BY <1>1, <1>2 DEF Taking, Sent, Running, Notifying
<1>4. \A q \in Rank, t \in GemmTask : Claimed(q, t)' <=> Claimed(q, t)
  BY <1>1 DEF Claimed
<1>5. /\ HalfTile(u, w) \notin gemm_out[r] /\ Claimed(r, u) /\ ~Taking(k, u) /\ ~Sent(k, w, u)
      /\ \A l \in K : Holds(l, w, u) /\ l[1] = r => l = k
  BY <1>1 DEF GemmInv, Holds
<1>6. \A t \in GemmTask, v \in Worker, q \in Rank :
        HalfTile(t, v) \in gemm_out'[q] <=>
          HalfTile(t, v) \in gemm_out[q] \/ (q = r /\ t = u /\ v = w)
  BY <1>1, <1>2, HalfTileInjective
<1>. HIDE DEF r
<1>7. \A l \in K, v \in Worker, t \in GemmTask :
        Holds(l, v, t)' => Holds(l, v, t) /\ ~(l[1] = r /\ v = w /\ t = u)
  <2>. SUFFICES ASSUME NEW l \in K, NEW v \in Worker, NEW t \in GemmTask, Holds(l, v, t)'
                PROVE  Holds(l, v, t) /\ ~(l[1] = r /\ v = w /\ t = u)
    OBVIOUS
  <2>1. Holds(l, v, t)
    BY <1>3 DEF Holds
  <2>2. ~Running(k, w, u)' /\ ~Taking(k, u)' /\ ~Sent(k, w, u)'
    BY <1>1, <1>3, <1>5
  <2>3. ~Holds(k, w, u)'
    BY ONLY <2>2 DEF Holds
  <2>4. ASSUME l[1] = r, v = w, t = u PROVE FALSE
    <3>1. l = k
      BY <1>5, <2>1, <2>4
    <3>. QED BY <2>3, <2>4, <3>1
  <2>. QED BY <2>1, <2>4
<1>8. \A l \in K : l[1] \in Rank
  BY DEF K
<1>9. \A l, m \in K, v \in Worker, t \in GemmTask :
        Notifying(l, v, t)' /\ Notifying(m, v, t)' /\ l[1] = m[1] => l = m
  BY <1>3, <1>5, <1>8 DEF GemmInv, r
<1>10. \A l \in K, v \in Worker, t \in GemmTask :
        Notifying(l, v, t)' => HalfTile(t, v) \in gemm_out'[l[1]]
  BY <1>3, <1>6, <1>8 DEF GemmInv, r
<1>11. \A l \in K, v \in Worker, t \in GemmTask :
        Holds(l, v, t)' => HalfTile(t, v) \notin gemm_out'[l[1]] /\ Claimed(l[1], t)'
  BY <1>4, <1>6, <1>7, <1>8 DEF GemmInv
<1>12. \A q \in Rank, v \in Worker, t \in GemmTask :
        HalfTile(t, v) \in gemm_out'[q] => Claimed(q, t)'
  BY <1>4, <1>5, <1>6 DEF GemmInv
<1>13. \A l \in K, v \in Worker, t \in GemmTask :
        ~(Taking(l, t)' /\ Running(l, v, t)') /\ ~(Sent(l, v, t)' /\ Running(l, v, t)')
  BY <1>3 DEF GemmInv
<1>14. \A l, m \in K, v \in Worker, t \in GemmTask :
        Holds(l, v, t)' /\ Holds(m, v, t)' /\ l[1] = m[1] => l = m
  BY <1>7 DEF GemmInv
<1>. QED BY <1>9, <1>10, <1>11, <1>12, <1>13, <1>14 DEF GemmInv

LEMMA GemmStep ==
  ASSUME TypeOK, HostInv, GemmInv, ~Clearing, ~Clearing', [Next]_vars
  PROVE  GemmInv'
<1>1. ~ResetBarrier /\ ~PrepareBarrier /\ ~\E r \in Rank : Clear(r)
  BY WorldAssumption DEF ResetBarrier, PrepareBarrier, Clear, EveryRankAt, Clearing, Rank
<1>2. CASE \/ UNCHANGED vars
           \/ \E r \in Rank : Launch(r) \/ KernelDone(r)
           \/ \E k \in K : ExitArrive(k) \/ ExitLeave(k)
           \/ \E r, q \in Rank : DeliverRed(r, q)
  BY <1>2, GemmFrameHost, GemmFramed
<1>3. ASSUME NEW k \in K, Publisher(k) PROVE GemmInv'
  BY <1>3, GemmFrameRS, GemmClaim, GemmTake, GemmFramed DEF Publisher
<1>4. ASSUME NEW k \in K, NEW w \in Worker, Consumer(k, w) PROVE GemmInv'
  BY <1>4, GemmFrameWorker, GemmReceive, GemmStore, GemmFramed DEF Consumer
<1>. QED BY <1>1, <1>2, <1>3, <1>4 DEF Next

----------------------------------------------------------------------------
(* What a semaphore counts: SemInv.                                          *)
InFlight(q, part) ==
  \E k \in K, w \in Worker :
    k[1] = q /\ work[k][w] = "notify" /\ HalfTile(job[k][w].task, w) = part

LEMMA NotifiedMember ==
  ASSUME NEW r \in Rank, NEW t \in Tile, NEW q \in Rank, NEW c \in CTA
  PROVE  /\ <<q, c>> \in Notified(r, t) <=>
              StoredPart(r, t, c) \in gemm_out[q] /\ ~InFlight(q, StoredPart(r, t, c))
         /\ <<q, c>> \in Notified(r, t)' <=>
              StoredPart(r, t, c) \in gemm_out'[q] /\ ~InFlight(q, StoredPart(r, t, c))'
  BY DEF Notified, InFlight, Pending, StoredPart, HalfTile

LEMMA NotifiedSubset ==
  \A r, t : Notified(r, t) \subseteq Rank \X CTA /\ Notified(r, t)' \subseteq Rank \X CTA
  BY DEF Notified

LEMMA NotifiedFinite ==
  /\ IsFiniteSet(Rank \X CTA) /\ Cardinality(Rank \X CTA) = COMPLETION
  /\ \A r, t : IsFiniteSet(Notified(r, t)) /\ Cardinality(Notified(r, t)) \in Nat
<1>1. IsFiniteSet(Rank) /\ Cardinality(Rank) = WORLD_SIZE
  BY WorldAssumption, FS_Interval DEF Rank
<1>2. IsFiniteSet(Rank \X CTA) /\ Cardinality(Rank \X CTA) = WORLD_SIZE * Cardinality(CTA)
  BY <1>1, FS_Product, SetsAssumption
<1>3. WORLD_SIZE * Cardinality(CTA) = COMPLETION
  BY WorldAssumption, SetsAssumption, FS_CardinalityType DEF COMPLETION
<1>. QED BY <1>2, <1>3, NotifiedSubset, FS_Subset, FS_CardinalityType

(* A completed semaphore has been notified by every CTA of every rank.       *)
LEMMA CompletedStored ==
  ASSUME SemInv, NEW r \in Rank, NEW t \in Tile, Completed(r, t), NEW q \in Rank, NEW c \in CTA
  PROVE  StoredPart(r, t, c) \in gemm_out[q]
<1>1. Cardinality(Notified(r, t)) = Cardinality(Rank \X CTA)
  BY NotifiedFinite DEF SemInv, Completed
<1>2. Notified(r, t) = Rank \X CTA
  BY <1>1, NotifiedFinite, NotifiedSubset, FS_Subset
<1>. QED BY <1>2, NotifiedMember

(* A step that neither stores nor notifies.                                  *)
SemFrame ==
  /\ semaphore' = semaphore /\ gemm_out' = gemm_out
  /\ \A l \in K, v \in Worker :
       /\ work'[l][v] = "notify" <=> work[l][v] = "notify"
       /\ work[l][v] = "notify" => job'[l][v] = job[l][v]

LEMMA SemFramed == SemInv /\ SemFrame => SemInv'
<1>. SUFFICES ASSUME SemInv, SemFrame PROVE SemInv'
  OBVIOUS
<1>1. \A q, part : InFlight(q, part)' <=> InFlight(q, part)
  BY DEF SemFrame, InFlight
<1>2. ASSUME NEW r \in Rank, NEW t \in Tile PROVE Notified(r, t)' = Notified(r, t)
  <2>1. ASSUME NEW q \in Rank, NEW c \in CTA
        PROVE  <<q, c>> \in Notified(r, t)' <=> <<q, c>> \in Notified(r, t)
    BY <1>1, NotifiedMember DEF SemFrame
  <2>. QED BY <2>1, NotifiedSubset
<1>. QED BY <1>2 DEF SemInv, SemFrame

LEMMA SemFrameHost ==
  ASSUME TypeOK, HostInv,
         \/ UNCHANGED vars
         \/ \E r \in Rank : Launch(r) \/ KernelDone(r)
         \/ \E k \in K : Publisher(k) \/ ExitArrive(k) \/ ExitLeave(k)
         \/ \E r, q \in Rank : DeliverRed(r, q)
  PROVE  SemFrame
<1>1. ASSUME NEW r \in Rank, Launch(r) PROVE SemFrame
  <2>1. \A l \in K : l[1] = r => cluster[l] # "run"
    BY <1>1 DEF Launch, HostInv
  <2>2. \A l \in K, v \in Worker : l[1] = r => work[l][v] # "notify" /\ work'[l][v] # "notify"
    BY <1>1, <2>1 DEF Launch, HostInv
  <2>3. \A l \in K : l[1] # r => work'[l] = work[l] /\ job'[l] = job[l]
    BY <1>1 DEF Launch
  <2>. QED BY <1>1, <2>2, <2>3 DEF Launch, SemFrame, data
<1>2. ASSUME NEW r \in Rank, KernelDone(r) PROVE SemFrame
  BY <1>2 DEF KernelDone, SemFrame, data, workVars
<1>3. ASSUME NEW k \in K, Publisher(k) \/ ExitArrive(k) \/ ExitLeave(k) PROVE SemFrame
  BY <1>3 DEF Publisher, ClaimRS, MissRS, TakeRS, ClaimGEMM, TakeGEMM, ExitArrive, ExitLeave,
              SemFrame, data, workVars
<1>4. ASSUME NEW r \in Rank, NEW q \in Rank, DeliverRed(r, q) PROVE SemFrame
  BY <1>4 DEF DeliverRed, SemFrame, data, workVars
<1>5. CASE UNCHANGED vars
  BY <1>5 DEF vars, SemFrame
<1>. QED BY <1>1, <1>2, <1>3, <1>4, <1>5

LEMMA SemFrameWorker ==
  ASSUME TypeOK, HostInv, NEW k \in K, NEW w \in Worker,
         \/ Receive(k, w) \/ ReduceShare(k, w)
         \/ ClaimTail(k, w) \/ WriteIndex(k, w) \/ ReleaseType(k, w)
  PROVE  SemFrame
<1>1. semaphore' = semaphore /\ gemm_out' = gemm_out /\ work[k][w] # "notify"
  BY DEF Receive, ReduceShare, ClaimTail, WriteIndex, ReleaseType, data
<1>2. work'[k][w] # "notify"
      /\ \A l \in K, v \in Worker : <<l, v>> # <<k, w>> =>
           work'[l][v] = work[l][v] /\ job'[l][v] = job[l][v]
  <2>1. \E x : x # "notify" /\ work' = [work EXCEPT ![k][w] = x]
    BY DEF Receive, ReduceShare, ClaimTail, WriteIndex, ReleaseType
  <2>2. job' = job \/ \E x : job' = [job EXCEPT ![k][w] = x]
    BY DEF Receive, ReduceShare, ClaimTail, WriteIndex, ReleaseType
  <2>. QED BY <2>1, <2>2 DEF TypeOK, WorkerTypeOK
<1>. QED BY <1>1, <1>2 DEF SemFrame

(* A stored part is counted only once its worker has notified.               *)
LEMMA SemStore ==
  ASSUME TypeOK, HostInv, GemmInv, SemInv, NEW k \in K, NEW w \in Worker, StoreTile(k, w)
  PROVE  SemInv'
<1>0. PICK u \in GemmTask : u = job[k][w].task
  BY JobFacts DEF StoreTile, TypeOK, WorkerTypeOK
<1>. DEFINE half == HalfTile(u, w)
<1>1. /\ k[1] \in Rank /\ semaphore' = semaphore /\ job' = job
      /\ work[k][w] # "notify" /\ work'[k][w] = "notify"
      /\ \A l \in K, v \in Worker : <<l, v>> # <<k, w>> => work'[l][v] = work[l][v]
      /\ gemm_out'[k[1]] = gemm_out[k[1]] \cup {half}
      /\ \A q \in Rank : q # k[1] => gemm_out'[q] = gemm_out[q]
  BY <1>0 DEF StoreTile, K, TypeOK, WorkerTypeOK, DataTypeOK, HalfTile
<1>2. half \notin gemm_out[k[1]]
  BY <1>0 DEF GemmInv, Holds, Running, StoreTile
<1>. HIDE DEF half
<1>3. InFlight(k[1], half)'
  BY <1>0, <1>1 DEF InFlight, half
<1>4. ASSUME NEW q \in Rank, NEW part, ~(q = k[1] /\ part = half)
      PROVE  InFlight(q, part)' <=> InFlight(q, part)
  <2>1. \A l \in K, v \in Worker :
          (l[1] = q /\ work'[l][v] = "notify" /\ HalfTile(job'[l][v].task, v) = part)
          <=> (l[1] = q /\ work[l][v] = "notify" /\ HalfTile(job[l][v].task, v) = part)
    <3>. SUFFICES ASSUME NEW l \in K, NEW v \in Worker, <<l, v>> = <<k, w>>
                  PROVE  ~(l[1] = q /\ HalfTile(job[l][v].task, v) = part)
      BY <1>1
    <3>. QED BY <1>0, <1>4 DEF half
  <2>. QED BY ONLY <2>1 DEF InFlight
<1>5. ASSUME NEW r \in Rank, NEW t \in Tile PROVE Notified(r, t)' = Notified(r, t)
  <2>1. ASSUME NEW q \in Rank, NEW c \in CTA
        PROVE  <<q, c>> \in Notified(r, t)' <=> <<q, c>> \in Notified(r, t)
    <3>1. CASE q = k[1] /\ StoredPart(r, t, c) = half
      BY <1>2, <1>3, <3>1, NotifiedMember
    <3>2. CASE ~(q = k[1] /\ StoredPart(r, t, c) = half)
      <4>1. InFlight(q, StoredPart(r, t, c))' <=> InFlight(q, StoredPart(r, t, c))
        BY <1>4, <3>2
      <4>2. StoredPart(r, t, c) \in gemm_out'[q] <=> StoredPart(r, t, c) \in gemm_out[q]
        BY <1>1, <3>2
      <4>. QED BY <4>1, <4>2, NotifiedMember
    <3>. QED BY <3>1, <3>2
  <2>. QED BY <2>1, NotifiedSubset
<1>. QED BY <1>1, <1>5 DEF SemInv

(* A notification adds its own CTA of its own rank, for its own tile.        *)
LEMMA NotifyAdds ==
  ASSUME TypeOK, HostInv, GemmInv, NEW k \in K, NEW w \in Worker, Notify(k, w),
         NEW r \in Rank, NEW t \in Tile
  PROVE  LET u == job[k][w].task
             mine == r = SignalRank(u, w) /\ t = LocalTile(u, w)
         IN  /\ mine => <<k[1], w[1]>> \notin Notified(r, t)
             /\ Notified(r, t)' = IF mine THEN Notified(r, t) \cup {<<k[1], w[1]>>}
                                  ELSE Notified(r, t)
<1>0. PICK u \in GemmTask : u = job[k][w].task
  BY JobFacts DEF Notify, TypeOK, WorkerTypeOK
<1>. DEFINE half == HalfTile(u, w)
            mine == r = SignalRank(u, w) /\ t = LocalTile(u, w)
<1>1. /\ k[1] \in Rank /\ gemm_out' = gemm_out /\ job' = job
      /\ work[k][w] = "notify" /\ work'[k][w] # "notify"
      /\ \A l \in K, v \in Worker : <<l, v>> # <<k, w>> => work'[l][v] = work[l][v]
  BY DEF Notify, K, TypeOK, WorkerTypeOK
<1>2. Notifying(k, w, u) /\ half \in gemm_out[k[1]]
  BY <1>0, <1>1 DEF GemmInv, Notifying
<1>3. \A c \in CTA : StoredPart(r, t, c) = half <=> mine /\ c = w[1]
  BY StoredPartIsHalfTile
<1>4. w[1] \in CTA
  BY DEF Worker
<1>. HIDE DEF half, mine
<1>5. InFlight(k[1], half)
  BY <1>0, <1>1 DEF InFlight, half
<1>6. ASSUME InFlight(k[1], half)' PROVE FALSE
  <2>1. PICK l \in K, v \in Worker :
          l[1] = k[1] /\ work'[l][v] = "notify" /\ HalfTile(job[l][v].task, v) = half
    BY <1>1, <1>6 DEF InFlight
  <2>2. <<l, v>> # <<k, w>> /\ work[l][v] = "notify"
    BY <1>1, <2>1
  <2>3. job[l][v].task \in GemmTask
    BY <2>2, JobFacts DEF TypeOK, WorkerTypeOK
  <2>4. job[l][v].task = u /\ v = w
    BY <2>1, <2>3, HalfTileInjective DEF half
  <2>5. Notifying(l, w, u)
    BY <2>2, <2>4 DEF Notifying
  <2>6. l = k
    BY <1>2, <2>1, <2>5 DEF GemmInv
  <2>. QED BY <2>2, <2>4, <2>6
<1>7. ASSUME NEW q \in Rank, NEW part, ~(q = k[1] /\ part = half)
      PROVE  InFlight(q, part)' <=> InFlight(q, part)
  <2>1. \A l \in K, v \in Worker :
          (l[1] = q /\ work'[l][v] = "notify" /\ HalfTile(job'[l][v].task, v) = part)
          <=> (l[1] = q /\ work[l][v] = "notify" /\ HalfTile(job[l][v].task, v) = part)
    <3>. SUFFICES ASSUME NEW l \in K, NEW v \in Worker, <<l, v>> = <<k, w>>
                  PROVE  ~(l[1] = q /\ HalfTile(job[l][v].task, v) = part)
      BY <1>1
    <3>. QED BY <1>0, <1>7 DEF half
  <2>. QED BY ONLY <2>1 DEF InFlight
<1>8. ASSUME NEW q \in Rank, NEW c \in CTA
      PROVE  <<q, c>> \in Notified(r, t)' <=>
               <<q, c>> \in Notified(r, t) \/ (mine /\ q = k[1] /\ c = w[1])
  <2>1. CASE q = k[1] /\ StoredPart(r, t, c) = half
    <3>1. <<q, c>> \in Notified(r, t)'
      BY <1>1, <1>2, <1>6, <2>1, NotifiedMember
    <3>. QED BY <1>3, <2>1, <3>1
  <2>2. CASE ~(q = k[1] /\ StoredPart(r, t, c) = half)
    <3>1. InFlight(q, StoredPart(r, t, c))' <=> InFlight(q, StoredPart(r, t, c))
      BY <1>7, <2>2
    <3>2. <<q, c>> \in Notified(r, t)' <=> <<q, c>> \in Notified(r, t)
      BY <1>1, <3>1, NotifiedMember
    <3>. QED BY <1>3, <2>2, <3>2
  <2>. QED BY <2>1, <2>2
<1>9. mine => <<k[1], w[1]>> \notin Notified(r, t)
  BY <1>1, <1>3, <1>4, <1>5, NotifiedMember
<1>10. Notified(r, t)' = IF mine THEN Notified(r, t) \cup {<<k[1], w[1]>>} ELSE Notified(r, t)
  <2>1. \A x \in Rank \X CTA : x \in Notified(r, t)' <=>
          x \in Notified(r, t) \/ (mine /\ x = <<k[1], w[1]>>)
    BY <1>8
  <2>2. <<k[1], w[1]>> \in Rank \X CTA
    BY <1>1, <1>4
  <2>. QED BY <2>1, <2>2, NotifiedSubset
<1>. QED BY <1>0, <1>9, <1>10 DEF mine

LEMMA SemNotify ==
  ASSUME TypeOK, HostInv, GemmInv, SemInv, NEW k \in K, NEW w \in Worker, Notify(k, w)
  PROVE  /\ SemInv'
         /\ \A r \in Rank, t \in Tile : Completed(r, t) => Completed(r, t)'
         /\ work'[k][w] = "tail" =>
              semaphore'[SignalRank(job[k][w].task, w)][LocalTile(job[k][w].task, w)] = COMPLETION
<1>0. PICK u \in GemmTask : u = job[k][w].task
  BY JobFacts DEF Notify, TypeOK, WorkerTypeOK
<1>. DEFINE s == SignalRank(u, w)
            v == LocalTile(u, w)
            me == <<k[1], w[1]>>
<1>1. s \in Rank /\ v \in Tile /\ me \in Rank \X CTA
  BY RowFacts DEF K, Worker
<1>2. semaphore' = [semaphore EXCEPT ![s][v] = @ + 1]
  BY <1>0 DEF Notify
<1>3. semaphore \in [Rank -> [Tile -> Nat]]
  BY DEF TypeOK, DataTypeOK
<1>4. \A r \in Rank, t \in Tile :
        /\ r = s /\ t = v => /\ me \notin Notified(r, t)
                            /\ Notified(r, t)' = Notified(r, t) \cup {me}
        /\ ~(r = s /\ t = v) => Notified(r, t)' = Notified(r, t)
  BY <1>0, NotifyAdds
<1>5. work'[k][w] = IF IsLastArrival(semaphore[s][v] + 1) THEN "tail" ELSE "receive"
  BY <1>0 DEF Notify, TypeOK, WorkerTypeOK
<1>6. COMPLETION \in Nat
  BY NotifiedFinite, FS_CardinalityType
<1>. HIDE DEF s, v, me
<1>7. \A r \in Rank, t \in Tile :
        semaphore'[r][t] = IF r = s /\ t = v THEN semaphore[r][t] + 1 ELSE semaphore[r][t]
  BY <1>1, <1>2, <1>3
<1>8. SemInv'
  <2>1. ASSUME NEW r \in Rank, NEW t \in Tile
        PROVE  semaphore'[r][t] = Cardinality(Notified(r, t)')
    <3>1. CASE r = s /\ t = v
      <4>1. Cardinality(Notified(r, t) \cup {me}) = Cardinality(Notified(r, t)) + 1
        BY <1>4, <3>1, NotifiedFinite, FS_AddElement
      <4>. QED BY <1>4, <1>7, <3>1, <4>1 DEF SemInv
    <3>2. CASE ~(r = s /\ t = v)
      BY <1>4, <1>7, <3>2 DEF SemInv
    <3>. QED BY <3>1, <3>2
  <2>. QED BY <2>1 DEF SemInv
<1>9. ~Completed(s, v)
  <2>1. Notified(s, v) \subseteq Rank \X CTA /\ Notified(s, v) # Rank \X CTA
    BY <1>1, <1>4, NotifiedSubset
  <2>2. Cardinality(Notified(s, v)) # COMPLETION
    BY <2>1, NotifiedFinite, FS_Subset
  <2>. QED BY <1>1, <2>2 DEF SemInv, Completed
<1>10. \A r \in Rank, t \in Tile : Completed(r, t) => Completed(r, t)'
  BY <1>7, <1>9 DEF Completed, COMPLETION
<1>11. work'[k][w] = "tail" => semaphore'[s][v] = COMPLETION
  BY <1>1, <1>5, <1>7 DEF IsLastArrival
<1>. QED BY <1>0, <1>8, <1>10, <1>11 DEF s, v

LEMMA SemStep ==
  ASSUME TypeOK, HostInv, GemmInv, SemInv, ~Clearing, ~Clearing', [Next]_vars
  PROVE  SemInv'
<1>1. ~ResetBarrier /\ ~PrepareBarrier /\ ~\E r \in Rank : Clear(r)
  BY WorldAssumption DEF ResetBarrier, PrepareBarrier, Clear, EveryRankAt, Clearing, Rank
<1>2. CASE \/ UNCHANGED vars
           \/ \E r \in Rank : Launch(r) \/ KernelDone(r)
           \/ \E k \in K : Publisher(k) \/ ExitArrive(k) \/ ExitLeave(k)
           \/ \E r, q \in Rank : DeliverRed(r, q)
  BY <1>2, SemFrameHost, SemFramed
<1>3. ASSUME NEW k \in K, NEW w \in Worker, Consumer(k, w) PROVE SemInv'
  BY <1>3, SemFrameWorker, SemStore, SemNotify, SemFramed DEF Consumer
<1>. QED BY <1>1, <1>2, <1>3 DEF Next

----------------------------------------------------------------------------
(* Where a completed tile can be named: RsInv.                               *)
RsWorker(k, w) ==
  LET t == job[k][w].task
      s == SignalRank(t, w)
  IN  /\ work[k][w] \in {"tail", "index", "release"} => Completed(s, LocalTile(t, w))
      /\ work[k][w] = "release" /\ job[k][w].pos \in RsPos => Completed(s, rsIdx[s][job[k][w].pos])
      /\ work[k][w] = "work" /\ job[k][w].type = RS => Completed(k[1], t)
RsSlots == \A r \in Rank, p \in RsPos : rsSlot[r][p] # None => Completed(r, rsIdx[r][p])
RsPackets == \A k \in K : packet[k].type = RS => Completed(k[1], packet[k].task)

LEMMA RsInvParts ==
  /\ RsInv <=> (\A k \in K, w \in Worker : RsWorker(k, w)) /\ RsSlots /\ RsPackets
  /\ RsInv' <=> (\A k \in K, w \in Worker : RsWorker(k, w)') /\ RsSlots' /\ RsPackets'
  BY DEF RsInv, RsWorker, RsSlots, RsPackets

LEMMA RsFramed ==
  ASSUME RsInv, UNCHANGED <<semaphore, rsSlot, rsIdx, packet, work, job>>
  PROVE  RsInv'
  BY DEF RsInv, Completed

LEMMA RsHost ==
  ASSUME TypeOK, HostInv, RsInv,
         \/ UNCHANGED vars
         \/ \E r \in Rank : Launch(r) \/ KernelDone(r)
         \/ \E k \in K : ExitArrive(k) \/ ExitLeave(k)
         \/ \E r, q \in Rank : DeliverRed(r, q)
  PROVE  RsInv'
<1>. DEFINE Same == UNCHANGED <<semaphore, rsSlot, rsIdx, packet, work, job>>
<1>1. ASSUME NEW r \in Rank, Launch(r) PROVE RsInv'
  <2>1. semaphore' = semaphore /\ rsSlot' = rsSlot /\ rsIdx' = rsIdx
    BY <1>1 DEF Launch, data, rsQueue
  <2>2. \A l \in K : l[1] = r =>
          packet'[l].type # RS /\ \A v \in Worker : work'[l][v] = "receive"
    BY <1>1 DEF Launch, NoTask, None, RS
  <2>3. \A l \in K : l[1] # r => packet'[l] = packet[l] /\ work'[l] = work[l] /\ job'[l] = job[l]
    BY <1>1 DEF Launch
  <2>4. \A q, t : Completed(q, t)' <=> Completed(q, t)
    BY <2>1 DEF Completed, COMPLETION
  <2>5. RsSlots' /\ RsPackets'
    BY <2>1, <2>2, <2>3, <2>4, RsInvParts DEF RsSlots, RsPackets
  <2>6. ASSUME NEW l \in K, NEW v \in Worker PROVE RsWorker(l, v)'
    <3>1. CASE l[1] = r
      BY <2>2, <3>1 DEF RsWorker
    <3>2. CASE l[1] # r
      BY <2>1, <2>3, <2>4, <3>2, RsInvParts DEF RsWorker
    <3>. QED BY <3>1, <3>2
  <2>. QED BY <2>5, <2>6, RsInvParts
<1>2. ASSUME NEW r \in Rank, KernelDone(r) PROVE Same
  BY <1>2 DEF KernelDone, data, rsQueue, workVars
<1>3. ASSUME NEW k \in K, ExitArrive(k) \/ ExitLeave(k) PROVE Same
  BY <1>3 DEF ExitArrive, ExitLeave, data, rsQueue, workVars
<1>4. ASSUME NEW r \in Rank, NEW q \in Rank, DeliverRed(r, q) PROVE Same
  BY <1>4 DEF DeliverRed, data, rsQueue, workVars
<1>5. CASE UNCHANGED vars
  BY <1>5, RsFramed DEF vars
<1>. QED BY <1>1, <1>2, <1>3, <1>4, <1>5, RsFramed

LEMMA RsPublisher ==
  ASSUME TypeOK, HostInv, RsInv, NEW k \in K, Publisher(k)
  PROVE  RsInv'
<1>1. semaphore' = semaphore /\ work' = work /\ job' = job /\ rsIdx' = rsIdx
  BY DEF Publisher, ClaimRS, MissRS, TakeRS, ClaimGEMM, TakeGEMM, rsQueue, data, workVars
<1>2. \A r \in Rank, p \in RsPos : rsSlot'[r][p] # None => rsSlot[r][p] # None
  <2>1. CASE TakeRS(k)
    BY <2>1 DEF TakeRS, Emptied, TypeOK, QueueTypeOK
  <2>. QED BY <2>1 DEF Publisher, ClaimRS, MissRS, ClaimGEMM, TakeGEMM, rsQueue
<1>3. \A l \in K : packet'[l].type = RS =>
        \/ packet'[l] = packet[l]
        \/ /\ l = k /\ headR[k] \in RsPos /\ rsSlot[k[1]][headR[k]] # None
           /\ packet'[k].task = rsIdx[k[1]][headR[k]]
  <2>. USE DEF TypeOK, PublisherTypeOK, None, GEMM, RS
  <2>1. CASE ClaimRS(k) \/ MissRS(k)
    BY <2>1 DEF ClaimRS, MissRS
  <2>2. CASE TakeRS(k)
    BY <2>2 DEF TakeRS, Publish
  <2>3. CASE ClaimGEMM(k)
    BY <2>3 DEF ClaimGEMM, Publish
  <2>4. CASE TakeGEMM(k)
    BY <2>4 DEF TakeGEMM, Publish
  <2>. QED BY <2>1, <2>2, <2>3, <2>4 DEF Publisher
<1>4. k[1] \in Rank
  BY DEF K
<1>5. \A r, t : Completed(r, t)' <=> Completed(r, t)
  BY <1>1 DEF Completed, COMPLETION
<1>6. RsSlots'
  BY <1>1, <1>2, <1>5, RsInvParts DEF RsSlots
<1>7. ASSUME NEW l \in K, packet'[l].type = RS PROVE Completed(l[1], packet'[l].task)
  <2>1. CASE packet'[l] = packet[l]
    BY <1>7, <2>1, RsInvParts DEF RsPackets
  <2>2. CASE /\ l = k /\ headR[k] \in RsPos /\ rsSlot[k[1]][headR[k]] # None
             /\ packet'[k].task = rsIdx[k[1]][headR[k]]
    BY <1>4, <2>2, RsInvParts DEF RsSlots
  <2>. QED BY <1>3, <1>7, <2>1, <2>2
<1>8. RsPackets'
  BY <1>5, <1>7 DEF RsPackets
<1>9. ASSUME NEW l \in K, NEW v \in Worker PROVE RsWorker(l, v)'
  BY <1>1, <1>5, RsInvParts DEF RsWorker
<1>. QED BY <1>6, <1>8, <1>9, RsInvParts

(* A consumer's step touches its own place and job only.                     *)
LEMMA OneWorker ==
  ASSUME TypeOK, NEW k \in K, NEW w \in Worker, Consumer(k, w)
  PROVE  \A l \in K, v \in Worker : <<l, v>> # <<k, w>> =>
           work'[l][v] = work[l][v] /\ job'[l][v] = job[l][v]
<1>1. \E x : work' = [work EXCEPT ![k][w] = x]
  BY DEF Consumer, Receive, ReduceShare, StoreTile, Notify, ClaimTail, WriteIndex, ReleaseType
<1>2. job' = job \/ \E x : job' = [job EXCEPT ![k][w] = x]
  BY DEF Consumer, Receive, ReduceShare, StoreTile, Notify, ClaimTail, WriteIndex, ReleaseType
<1>. QED BY <1>1, <1>2 DEF TypeOK, WorkerTypeOK

(* The steps that leave the RS queue's contents alone.                       *)
LEMMA RsQuietWorker ==
  ASSUME TypeOK, HostInv, GemmInv, SemInv, RsInv, NEW k \in K, NEW w \in Worker,
         \/ Receive(k, w) \/ ReduceShare(k, w) \/ StoreTile(k, w)
         \/ Notify(k, w) \/ ClaimTail(k, w)
  PROVE  RsInv'
<1>1. rsSlot' = rsSlot /\ rsIdx' = rsIdx /\ packet' = packet
  BY DEF Receive, ReduceShare, StoreTile, Notify, ClaimTail, rsQueue
<1>2. \A r \in Rank, t \in Tile : Completed(r, t) => Completed(r, t)'
  <2>1. CASE Notify(k, w)
    BY <2>1, SemNotify
  <2>2. CASE ~Notify(k, w)
    BY <2>2 DEF Receive, ReduceShare, StoreTile, ClaimTail, data, Completed, COMPLETION
  <2>. QED BY <2>1, <2>2
<1>3. RsSlots' /\ RsPackets'
  <2>1. \A r \in Rank, p \in RsPos : rsIdx[r][p] \in Tile
    BY DEF TypeOK, QueueTypeOK
  <2>2. \A l \in K : l[1] \in Rank /\ (packet[l].type = RS => packet[l].task \in Tile)
    BY PacketFacts DEF K, TypeOK, PublisherTypeOK
  <2>3. RsSlots'
    BY <1>1, <1>2, <2>1, RsInvParts DEF RsSlots
  <2>4. RsPackets'
    BY <1>1, <1>2, <2>2, RsInvParts DEF RsPackets
  <2>. QED BY <2>3, <2>4
<1>4. ASSUME NEW l \in K, NEW v \in Worker, <<l, v>> # <<k, w>> PROVE RsWorker(l, v)'
  BY <1>1, <1>2, <1>4, OneWorker, RsInvParts, JobFacts, RowFacts
     DEF RsWorker, Consumer, TypeOK, QueueTypeOK, WorkerTypeOK, K
<1>5. RsWorker(k, w)'
  <2>. USE DEF TypeOK, WorkerTypeOK
  <2>1. CASE Receive(k, w)
    <3>1. /\ work'[k][w] \in {"work", "receive", "left"} /\ semaphore' = semaphore
          /\ job'[k][w].type = packet[k].type /\ job'[k][w].task = packet[k].task
      BY <2>1 DEF Receive, data
    <3>2. packet[k].type = RS => Completed(k[1], packet[k].task)
      BY RsInvParts DEF RsPackets
    <3>. QED BY <3>1, <3>2 DEF RsWorker, Completed
  <2>2. CASE ReduceShare(k, w) \/ StoreTile(k, w)
    <3>1. work'[k][w] \in {"receive", "notify"}
      BY <2>2 DEF ReduceShare, StoreTile
    <3>. QED BY <3>1 DEF RsWorker
  <2>3. CASE Notify(k, w)
    <3>1. work'[k][w] \in {"tail", "receive"} /\ job' = job
      BY <2>3 DEF Notify
    <3>2. work'[k][w] = "tail" =>
            semaphore'[SignalRank(job[k][w].task, w)][LocalTile(job[k][w].task, w)] = COMPLETION
      BY <2>3, SemNotify
    <3>. QED BY <3>1, <3>2 DEF RsWorker, Completed
  <2>4. CASE ClaimTail(k, w)
    <3>1. /\ work[k][w] = "tail" /\ work'[k][w] = "index" /\ semaphore' = semaphore
          /\ job'[k][w].task = job[k][w].task
      BY <2>4 DEF ClaimTail, data
    <3>2. RsWorker(k, w)
      BY RsInvParts
    <3>. QED BY <3>1, <3>2 DEF RsWorker, Completed
  <2>. QED BY <2>1, <2>2, <2>3, <2>4
<1>. QED BY <1>3, <1>4, <1>5, RsInvParts

LEMMA RsWrite ==
  ASSUME TypeOK, HostInv, RsInv, NEW k \in K, NEW w \in Worker, WriteIndex(k, w)
  PROVE  RsInv'
<1>. DEFINE u == job[k][w].task
            s == SignalRank(u, w)
            v == LocalTile(u, w)
<1>1. /\ rsSlot' = rsSlot /\ semaphore' = semaphore /\ packet' = packet /\ job' = job
      /\ work[k][w] = "index" /\ work'[k][w] = "release"
      /\ \A l \in K, x \in Worker : <<l, x>> # <<k, w>> => work'[l][x] = work[l][x]
  BY OneWorker DEF WriteIndex, rsQueue, data, Consumer, TypeOK, WorkerTypeOK
<1>2. Completed(s, v)
  BY <1>1 DEF RsInv
<1>3. \A r \in Rank, p \in RsPos : rsIdx'[r][p] = rsIdx[r][p] \/ (r = s /\ rsIdx'[r][p] = v)
  BY DEF WriteIndex, Indexed, TypeOK, QueueTypeOK
<1>4. \A r, t : Completed(r, t)' <=> Completed(r, t)
  BY <1>1 DEF Completed, COMPLETION
<1>. HIDE DEF u, s, v
<1>5. \A r \in Rank, p \in RsPos : Completed(r, rsIdx[r][p]) => Completed(r, rsIdx'[r][p])
  BY <1>2, <1>3
<1>6. RsSlots' /\ RsPackets'
  BY <1>1, <1>4, <1>5, RsInvParts DEF RsSlots, RsPackets
<1>7. ASSUME NEW l \in K, NEW x \in Worker PROVE RsWorker(l, x)'
  <2>1. RsWorker(l, x)
    BY RsInvParts
  <2>2. CASE <<l, x>> # <<k, w>>
    <3>1. work[l][x] = "release" => SignalRank(job[l][x].task, x) \in Rank
      BY RowFacts, JobFacts DEF TypeOK, WorkerTypeOK
    <3>. QED BY <1>1, <1>4, <1>5, <2>1, <2>2, <3>1 DEF RsWorker
  <2>3. CASE <<l, x>> = <<k, w>>
    <3>1. s \in Rank
      BY <1>1, RowFacts, JobFacts DEF s, u, TypeOK, WorkerTypeOK
    <3>2. job[k][w].pos \in RsPos => rsIdx'[s][job[k][w].pos] = v
      BY <3>1 DEF WriteIndex, Indexed, TypeOK, QueueTypeOK, s, v, u
    <3>. QED BY <1>1, <1>2, <1>4, <2>3, <3>2 DEF RsWorker, s, v, u
  <2>. QED BY <2>2, <2>3
<1>. QED BY <1>6, <1>7, RsInvParts

LEMMA RsRelease ==
  ASSUME TypeOK, HostInv, RsInv, NEW k \in K, NEW w \in Worker, ReleaseType(k, w)
  PROVE  RsInv'
<1>. DEFINE s == SignalRank(job[k][w].task, w)
            n == job[k][w].pos
<1>1. /\ rsIdx' = rsIdx /\ semaphore' = semaphore /\ packet' = packet /\ job' = job
      /\ work[k][w] = "release" /\ work'[k][w] = "receive"
      /\ \A l \in K, x \in Worker : <<l, x>> # <<k, w>> => work'[l][x] = work[l][x]
  BY OneWorker DEF ReleaseType, data, Consumer, TypeOK, WorkerTypeOK
<1>2. n \in RsPos => Completed(s, rsIdx[s][n])
  BY <1>1 DEF RsInv
<1>3. \A r \in Rank, p \in RsPos : rsSlot'[r][p] = rsSlot[r][p] \/ (r = s /\ p = n)
  BY DEF ReleaseType, TypeOK, QueueTypeOK
<1>4. \A r, t : Completed(r, t)' <=> Completed(r, t)
  BY <1>1 DEF Completed, COMPLETION
<1>. HIDE DEF s, n
<1>5. RsSlots' /\ RsPackets'
  BY <1>1, <1>2, <1>3, <1>4, RsInvParts DEF RsSlots, RsPackets
<1>6. ASSUME NEW l \in K, NEW x \in Worker PROVE RsWorker(l, x)'
  <2>1. RsWorker(l, x)
    BY RsInvParts
  <2>2. CASE <<l, x>> # <<k, w>>
    BY <1>1, <1>4, <2>1, <2>2 DEF RsWorker
  <2>3. CASE <<l, x>> = <<k, w>>
    BY <1>1, <2>3 DEF RsWorker
  <2>. QED BY <2>2, <2>3
<1>. QED BY <1>5, <1>6, RsInvParts

LEMMA RsStep ==
  ASSUME TypeOK, HostInv, GemmInv, SemInv, RsInv, ~Clearing, ~Clearing', [Next]_vars
  PROVE  RsInv'
<1>1. ~ResetBarrier /\ ~PrepareBarrier /\ ~\E r \in Rank : Clear(r)
  BY WorldAssumption DEF ResetBarrier, PrepareBarrier, Clear, EveryRankAt, Clearing, Rank
<1>2. CASE \/ UNCHANGED vars
           \/ \E r \in Rank : Launch(r) \/ KernelDone(r)
           \/ \E k \in K : ExitArrive(k) \/ ExitLeave(k)
           \/ \E r, q \in Rank : DeliverRed(r, q)
  BY <1>2, RsHost
<1>3. ASSUME NEW k \in K, Publisher(k) PROVE RsInv'
  BY <1>3, RsPublisher
<1>4. ASSUME NEW k \in K, NEW w \in Worker, Consumer(k, w) PROVE RsInv'
  BY <1>4, RsQuietWorker, RsWrite, RsRelease DEF Consumer
<1>. QED BY <1>1, <1>2, <1>3, <1>4 DEF Next

----------------------------------------------------------------------------
(* A launch starts from freshly cleared memory on every rank.                *)
LEMMA FreshStart ==
  ASSUME TypeOK, HostInv, PrepareBarrier
  PROVE  (GemmInv /\ SemInv /\ RsInv)'
<1>1. \A r \in Rank : host[r] = "cleared" /\ Fresh(r)
  BY DEF PrepareBarrier, EveryRankAt, HostInv
<1>2. \A k \in K : k[1] \in Rank
  BY DEF K
<1>3. \A k \in K : /\ pub[k] = "left" /\ packet[k].type = None
                   /\ \A w \in Worker : work[k][w] = "left"
  BY <1>1, <1>2 DEF HostInv
<1>4. UNCHANGED <<gemmHead, rsSlot, rsIdx, semaphore, gemm_out, pub, headR, packet, unread, work, job>>
  BY DEF PrepareBarrier, gemmQueue, rsQueue, data, pubVars, workVars
<1>5. GemmInv'
  <2>1. \A k \in K, w \in Worker, t \in GemmTask :
          ~Taking(k, t)' /\ ~Sent(k, w, t)' /\ ~Running(k, w, t)' /\ ~Notifying(k, w, t)'
    BY <1>3, <1>4 DEF Taking, Sent, Running, Notifying, None, GEMM
  <2>2. \A k \in K, w \in Worker, t \in GemmTask : ~Holds(k, w, t)'
    BY <2>1 DEF Holds
  <2>3. \A r \in Rank : gemm_out'[r] = {}
    BY <1>1, <1>4 DEF Fresh
  <2>. QED BY <2>1, <2>2, <2>3 DEF GemmInv
<1>6. SemInv'
  <2>1. ASSUME NEW r \in Rank, NEW t \in Tile PROVE Notified(r, t)' = {}
    BY <1>1, <1>4 DEF Notified, Fresh
  <2>2. ASSUME NEW r \in Rank, NEW t \in Tile PROVE semaphore'[r][t] = 0
    BY <1>1, <1>4 DEF Fresh, FreshSemaphore
  <2>. QED BY <2>1, <2>2, FS_EmptySet DEF SemInv
<1>7. RsInv'
  <2>1. \A r \in Rank, p \in RsPos : rsSlot'[r][p] = None
    BY <1>1, <1>4 DEF Fresh, FreshRsSlot
  <2>. QED BY <1>3, <1>4, <2>1 DEF RsInv, None, RS
<1>. QED BY <1>5, <1>6, <1>7

(* No share is summed from fewer ranks than all.                             *)
LEMMA ReduceStep ==
  ASSUME TypeOK, HostInv, ~Clearing => GemmInv /\ SemInv /\ RsInv,
         ReducedFromEveryRank, [Next]_vars
  PROVE  ReducedFromEveryRank'
<1>1. CASE out' = out
  BY <1>1 DEF ReducedFromEveryRank
<1>2. ASSUME NEW r \in Rank, Clear(r) PROVE ReducedFromEveryRank'
  BY <1>2 DEF Clear, FreshOut, ReducedFromEveryRank, TypeOK, DataTypeOK
<1>3. ASSUME NEW k \in K, NEW w \in Worker, ReduceShare(k, w) PROVE ReducedFromEveryRank'
  <2>. DEFINE t == job[k][w].task
  <2>1. ~Clearing /\ k[1] \in Rank /\ work[k][w] = "work" /\ job[k][w].type = RS
    BY <1>3, AtWork DEF ReduceShare
  <2>2. t \in Tile /\ w[1] \in CTA /\ Completed(k[1], t)
    BY <2>1, JobFacts DEF RsInv, TypeOK, WorkerTypeOK, Worker
  <2>3. \A q \in Rank : StoredPart(k[1], t, w[1]) \in gemm_out[q]
    BY <2>1, <2>2, CompletedStored
  <2>4. {q \in Rank : StoredPart(k[1], t, w[1]) \in gemm_out[q]} = Rank
    BY <2>3
  <2>5. out' = [out EXCEPT ![k[1]][<<t, w[1], w[2]>>] = Rank]
    BY <1>3, <2>4 DEF ReduceShare
  <2>. HIDE DEF t
  <2>. QED BY <2>5 DEF ReducedFromEveryRank, TypeOK, DataTypeOK
<1>4. ASSUME NEW k \in K, Publisher(k) \/ ExitArrive(k) \/ ExitLeave(k) PROVE out' = out
  BY <1>4 DEF Publisher, ClaimRS, MissRS, TakeRS, ClaimGEMM, TakeGEMM, ExitArrive, ExitLeave, data
<1>5. ASSUME NEW k \in K, NEW w \in Worker, Consumer(k, w), ~ReduceShare(k, w) PROVE out' = out
  BY <1>5 DEF Consumer, Receive, StoreTile, Notify, ClaimTail, WriteIndex, ReleaseType, data
<1>6. ASSUME NEW r \in Rank, Launch(r) \/ KernelDone(r) PROVE out' = out
  BY <1>6 DEF Launch, KernelDone, data
<1>7. CASE ResetBarrier \/ PrepareBarrier
  BY <1>1, <1>7 DEF ResetBarrier, PrepareBarrier, data
<1>8. ASSUME NEW r \in Rank, NEW q \in Rank, DeliverRed(r, q) PROVE out' = out
  BY <1>8 DEF DeliverRed, data
<1>9. CASE UNCHANGED vars
  BY <1>1, <1>9 DEF vars
<1>. QED BY <1>1, <1>2, <1>3, <1>4, <1>5, <1>6, <1>7, <1>8, <1>9 DEF Next

----------------------------------------------------------------------------
LEMMA InvInit == Init => IInv
<1>. SUFFICES ASSUME Init PROVE IInv
  OBVIOUS
<1>1. Clearing
  <2>1. 0 \in Rank
    BY WorldAssumption DEF Rank
  <2>2. host[0] = "cleared"
    BY <2>1 DEF Init
  <2>. QED BY <2>1, <2>2 DEF Clearing
<1>2. ReducedFromEveryRank
  BY DEF Init, ReducedFromEveryRank, FreshOut
<1>. QED BY <1>1, <1>2, TypeInit, HostInit DEF IInv

LEMMA HostStep ==
  ASSUME TypeOK, HostInv, [Next]_vars
  PROVE  HostInv' /\ (Clearing /\ ~Clearing' => PrepareBarrier)
<1>1. CASE ResetBarrier \/ \E r \in Rank : Clear(r) \/ Launch(r) \/ KernelDone(r)
  <2>1. Clearing => ~\E r \in Rank : Launch(r) \/ KernelDone(r)
    BY DEF HostInv, Launch, KernelDone
  <2>2. ResetBarrier => Clearing'
    BY WorldAssumption DEF ResetBarrier, Clearing, Rank
  <2>3. ASSUME NEW r \in Rank, Clear(r) PROVE Clearing'
    BY <2>3 DEF Clear, Clearing, TypeOK, HostTypeOK
  <2>. QED BY <1>1, <2>1, <2>2, <2>3, HostStepHost
<1>2. CASE PrepareBarrier
  BY <1>2, HostStepHost
<1>3. ASSUME NEW k \in K, Publisher(k) \/ ExitArrive(k) \/ ExitLeave(k)
      PROVE HostInv' /\ ~Clearing
  BY <1>3, HostStepCluster
<1>4. ASSUME NEW k \in K, NEW w \in Worker, Consumer(k, w) PROVE HostInv' /\ ~Clearing
  BY <1>4, HostStepConsumer
<1>5. CASE UNCHANGED vars \/ \E r, q \in Rank : DeliverRed(r, q)
  BY <1>5, HostStepOther
<1>. QED BY <1>1, <1>2, <1>3, <1>4, <1>5 DEF Next

LEMMA InvStep == IInv /\ [Next]_vars => IInv'
<1>. SUFFICES ASSUME IInv, [Next]_vars PROVE IInv'
  OBVIOUS
<1>1. TypeOK /\ HostInv /\ ReducedFromEveryRank /\ (~Clearing => GemmInv /\ SemInv /\ RsInv)
  BY DEF IInv
<1>2. TypeOK'
  BY <1>1, TypeStep
<1>3. HostInv' /\ (Clearing /\ ~Clearing' => PrepareBarrier)
  BY <1>1, HostStep
<1>4. ReducedFromEveryRank'
  BY <1>1, ReduceStep
<1>5. ASSUME ~Clearing' PROVE (GemmInv /\ SemInv /\ RsInv)'
  <2>1. CASE Clearing
    BY <1>1, <1>3, <1>5, <2>1, FreshStart
  <2>2. CASE ~Clearing
    BY <1>1, <1>5, <2>2, GemmStep, SemStep, RsStep
  <2>. QED BY <2>1, <2>2
<1>. QED BY <1>2, <1>3, <1>4, <1>5 DEF IInv

(* Every reduced share holds the contribution of every rank: an RS task is   *)
(* only ever named after all 2 * world_size notifications of its tile, and a *)
(* notification only follows its store (gemm_reduce_scatter.py:434-460).     *)
THEOREM ReductionComplete == Spec => []ReducedFromEveryRank
<1>1. IInv => ReducedFromEveryRank
  BY DEF IInv
<1>. QED BY InvInit, InvStep, <1>1, PTL DEF Spec

(* At every moment outside a reset, a semaphore is exactly the number of     *)
(* contributions whose data is in memory and whose worker has notified       *)
(* (gemm_reduce_scatter.py:434-460): never early, never twice.               *)
THEOREM SemaphoresExact == Spec => []SemaphoreCountsStores
<1>1. IInv => SemaphoreCountsStores
  <2>. SUFFICES ASSUME IInv, \A r \in Rank : host[r] # "clearing",
                       NEW r \in Rank, NEW t \in Tile
                PROVE  semaphore[r][t] = Cardinality(Notified(r, t))
    BY DEF SemaphoreCountsStores
  <2>1. CASE ~Clearing
    BY <2>1 DEF IInv, SemInv
  <2>2. CASE Clearing
    <3>1. \A q \in Rank : Fresh(q)
      BY <2>2 DEF IInv, HostInv
    <3>2. Notified(r, t) = {} /\ semaphore[r][t] = 0
      BY <3>1 DEF Fresh, Notified, FreshSemaphore
    <3>. QED BY <3>2, FS_EmptySet
  <2>. QED BY <2>1, <2>2
<1>. QED BY InvInit, InvStep, <1>1, PTL DEF Spec

----------------------------------------------------------------------------
(* The task queues: who waits on a position, what was enqueued, what ran.    *)

(* While ranks clear their memory nothing is at work.                        *)
LEMMA AtRest ==
  ASSUME TypeOK, HostInv, NEW k \in K, host[k[1]] # "running"
  PROVE  /\ pub[k] = "left" /\ packet[k].type = None /\ k[1] \in Rank
         /\ \A w \in Worker : work[k][w] = "left"
  BY DEF HostInv, TypeOK, HostTypeOK, K

----------------------------------------------------------------------------
(* The claims on queue positions: ClaimInv.                                  *)
LEMMA ClaimInit == Init => ClaimInv
<1>. SUFFICES ASSUME Init PROVE ClaimInv
  OBVIOUS
<1>1. \A k \in K : k[1] \in Rank /\ Claim(k) = -1
  BY DEF Init, Claim, K
<1>. QED BY <1>1, Sizes DEF Init, ClaimInv, ClaimsExclusive

LEMMA ClaimFramed ==
  ASSUME ClaimInv, UNCHANGED rsHead,
         \A k \in K : pub'[k] = pub[k] /\ rsRem'[k] = rsRem[k] /\ headR'[k] = headR[k]
  PROVE  ClaimInv'
<1>1. \A k \in K : Claim(k)' = Claim(k)
  BY DEF Claim
<1>. QED BY <1>1 DEF ClaimInv, ClaimsExclusive

LEMMA ClaimType ==
  ASSUME TypeOK, NEW k \in K
  PROVE  /\ k[1] \in Rank /\ Claim(k) \in RsPos \cup {-1} /\ rsHead[k[1]] \in Nat
         /\ Claim(k) \in Int /\ Claim(k) < RS_COUNT
  BY Sizes DEF TypeOK, PublisherTypeOK, QueueTypeOK, Claim, K, RsPos

LEMMA ClaimClear ==
  ASSUME TypeOK, HostInv, ClaimInv, NEW r \in Rank, Clear(r)
  PROVE  ClaimInv'
<1>1. /\ host[r] = "clearing" /\ rsHead' = [rsHead EXCEPT ![r] = 0]
      /\ UNCHANGED <<pub, rsRem, headR>>
  BY DEF Clear, pubVars
<1>2. ASSUME NEW k \in K, k[1] = r PROVE pub[k] = "left"
  BY <1>1, <1>2, AtRest
<1>3. \A k \in K : Claim(k)' = Claim(k) /\ k[1] \in Rank
  BY <1>1 DEF Claim, K
<1>4. ASSUME NEW k \in K PROVE Claim(k)' < rsHead'[k[1]]
  <2>1. CASE k[1] = r
    BY <1>1, <1>2, <1>3, <2>1 DEF ClaimInv, Claim, TypeOK, QueueTypeOK
  <2>2. CASE k[1] # r
    BY <1>1, <1>3, <2>2 DEF ClaimInv, TypeOK, QueueTypeOK
  <2>. QED BY <2>1, <2>2
<1>5. \A q \in Rank : rsHead'[q] <= RS_COUNT
  BY <1>1, Sizes DEF ClaimInv, TypeOK, QueueTypeOK
<1>. QED BY <1>1, <1>3, <1>4, <1>5 DEF ClaimInv, ClaimsExclusive

LEMMA ClaimLaunch ==
  ASSUME TypeOK, HostInv, ClaimInv, NEW r \in Rank, Launch(r)
  PROVE  ClaimInv' /\ \A k \in K : Claim(k)' = Claim(k)
<1>1. /\ host[r] = "ready" /\ rsHead' = rsHead
      /\ \A k \in K : k[1] # r => pub'[k] = pub[k] /\ rsRem'[k] = rsRem[k] /\ headR'[k] = headR[k]
      /\ \A k \in K : k[1] = r => pub'[k] = "publish" /\ rsRem'[k] = -1
  BY DEF Launch, rsQueue
<1>2. ASSUME NEW k \in K, k[1] = r PROVE Claim(k) = -1
  BY <1>1, <1>2, AtRest DEF ClaimInv, Claim
<1>3. \A k \in K : Claim(k)' = Claim(k) /\ k[1] \in Rank
  BY <1>1, <1>2 DEF Claim, K
<1>. QED BY <1>1, <1>3 DEF ClaimInv, ClaimsExclusive

(* What ClaimRS does: it moves its carried claim, or takes a fresh position. *)
LEMMA ClaimRSEffect ==
  ASSUME TypeOK, HostInv, ClaimInv, NEW k \in K, ClaimRS(k)
  PROVE  /\ \A l \in K : l # k => Claim(l)' = Claim(l)
         /\ \A l \in K : pub'[l] \in {"load", "left"} => rsRem'[l] = -1
         /\ \A r \in Rank : r # k[1] => rsHead'[r] = rsHead[r]
         /\ \/ Claim(k)' = Claim(k) /\ rsHead'[k[1]] = rsHead[k[1]]
            \/ /\ Claim(k) = -1 /\ Claim(k)' = rsHead[k[1]]
               /\ rsHead'[k[1]] = rsHead[k[1]] + 1 /\ rsHead[k[1]] < RS_COUNT
<1>. DEFINE r == k[1]
            pos == IF rsRem[k] >= 0 THEN rsRem[k] ELSE rsHead[r]
<1>1. /\ r \in Rank /\ rsHead[r] \in Nat /\ rsRem[k] \in Int /\ rsRem[k] < RS_COUNT /\ RS_COUNT \in Nat
      /\ (rsRem[k] >= 0 \/ rsRem[k] = -1) /\ rsHead[r] <= RS_COUNT
  BY Sizes DEF TypeOK, PublisherTypeOK, QueueTypeOK, K, RsPos, ClaimInv
<1>2. /\ pub[k] = "publish" /\ headR'[k] = pos /\ rsRem'[k] = -1
      /\ rsHead' = IF rsRem[k] >= 0 THEN rsHead ELSE [rsHead EXCEPT ![r] = Bump(@, RS_COUNT)]
      /\ pub'[k] = IF pos < RS_COUNT THEN "load" ELSE "claim"
      /\ \A l \in K : l # k => pub'[l] = pub[l] /\ rsRem'[l] = rsRem[l] /\ headR'[l] = headR[l]
  BY DEF ClaimRS, Queued, TypeOK, PublisherTypeOK
<1>3. \A l \in K : l # k => Claim(l)' = Claim(l)
  BY <1>2 DEF Claim
<1>4. \A l \in K : pub'[l] \in {"load", "left"} => rsRem'[l] = -1
  BY <1>2 DEF ClaimInv
<1>5. \A q \in Rank : q # r => rsHead'[q] = rsHead[q]
  BY <1>2 DEF TypeOK, QueueTypeOK
<1>6. Claim(k) = rsRem[k] /\ Claim(k)' = IF pos < RS_COUNT THEN pos ELSE -1
  BY <1>2 DEF Claim
<1>7. CASE rsRem[k] >= 0
  BY <1>1, <1>2, <1>3, <1>4, <1>5, <1>6, <1>7
<1>8. CASE ~(rsRem[k] >= 0)
  <2>1. rsHead'[r] = IF rsHead[r] < RS_COUNT THEN rsHead[r] + 1 ELSE RS_COUNT
    BY <1>1, <1>2, <1>8 DEF Bump, TypeOK, QueueTypeOK
  <2>. QED BY <1>1, <1>3, <1>4, <1>5, <1>6, <1>8, <2>1
<1>. QED BY <1>7, <1>8

LEMMA ClaimClaimRS ==
  ASSUME TypeOK, HostInv, ClaimInv, NEW k \in K, ClaimRS(k)
  PROVE  ClaimInv'
<1>1. \A l \in K : l[1] \in Rank /\ Claim(l) \in Int /\ Claim(l) < RS_COUNT
                   /\ rsHead[l[1]] \in Nat /\ Claim(l) < rsHead[l[1]]
  BY ClaimType DEF ClaimInv
<1>2. RS_COUNT \in Nat /\ \A r \in Rank : rsHead[r] <= RS_COUNT
  BY Sizes DEF ClaimInv
<1>3. CASE Claim(k)' = Claim(k) /\ rsHead'[k[1]] = rsHead[k[1]]
  BY <1>1, <1>2, <1>3, ClaimRSEffect DEF ClaimInv, ClaimsExclusive
<1>4. CASE /\ Claim(k) = -1 /\ Claim(k)' = rsHead[k[1]]
           /\ rsHead'[k[1]] = rsHead[k[1]] + 1 /\ rsHead[k[1]] < RS_COUNT
  <2>1. \A l \in K : Claim(l)' < rsHead'[l[1]]
    BY <1>1, <1>4, ClaimRSEffect
  <2>2. \A r \in Rank : rsHead'[r] <= RS_COUNT
    BY <1>1, <1>2, <1>4, ClaimRSEffect
  <2>3. \A l \in K : l # k /\ l[1] = k[1] => Claim(l)' # Claim(k)'
    BY <1>1, <1>4, ClaimRSEffect
  <2>4. ClaimsExclusive'
    BY <1>1, <2>3, ClaimRSEffect DEF ClaimInv, ClaimsExclusive
  <2>. QED BY <2>1, <2>2, <2>4, ClaimRSEffect DEF ClaimInv
<1>. QED BY <1>3, <1>4, ClaimRSEffect

(* The other publisher steps keep a claim or drop it.                        *)
LEMMA ClaimKeptOrDropped ==
  ASSUME TypeOK, HostInv, ClaimInv, NEW k \in K,
         MissRS(k) \/ TakeRS(k) \/ ClaimGEMM(k) \/ TakeGEMM(k)
  PROVE  /\ rsHead' = rsHead
         /\ \A l \in K : l # k => Claim(l)' = Claim(l)
         /\ \A l \in K : pub'[l] \in {"load", "left"} => rsRem'[l] = -1
         /\ Claim(k)' = IF TakeRS(k) THEN -1 ELSE Claim(k)
<1>1. \A l \in K : l # k => pub'[l] = pub[l] /\ rsRem'[l] = rsRem[l] /\ headR'[l] = headR[l]
  BY DEF MissRS, TakeRS, ClaimGEMM, TakeGEMM, Publish, TypeOK, PublisherTypeOK
<1>2. rsHead' = rsHead /\ \A l \in K : l # k => Claim(l)' = Claim(l)
  BY <1>1 DEF MissRS, TakeRS, ClaimGEMM, TakeGEMM, rsQueue, Claim
<1>3. rsRem[k] \in Int /\ (rsRem[k] >= 0 \/ rsRem[k] = -1)
  BY DEF TypeOK, PublisherTypeOK, RsPos
<1>4. CASE MissRS(k)
  <2>1. pub[k] = "load" /\ pub'[k] = "claim" /\ rsRem'[k] = headR[k]
    BY <1>4 DEF MissRS, TypeOK, PublisherTypeOK
  <2>2. ~TakeRS(k)
    BY <1>4 DEF MissRS, TakeRS
  <2>. QED BY <1>1, <1>2, <2>1, <2>2 DEF Claim, ClaimInv
<1>5. CASE TakeRS(k)
  <2>1. pub[k] = "load" /\ pub'[k] = "publish" /\ rsRem' = rsRem
    BY <1>5 DEF TakeRS, Publish, TypeOK, PublisherTypeOK, None, RS
  <2>. QED BY <1>1, <1>2, <1>5, <2>1 DEF Claim, ClaimInv
<1>6. CASE ClaimGEMM(k)
  <2>1. pub[k] = "claim" /\ pub'[k] \in {"take", "publish", "left"} /\ rsRem' = rsRem
        /\ (pub'[k] = "left" => rsRem[k] < 0)
    BY <1>6 DEF ClaimGEMM, Publish, TypeOK, PublisherTypeOK
  <2>2. ~TakeRS(k)
    BY <2>1 DEF TakeRS
  <2>. QED BY <1>1, <1>2, <1>3, <2>1, <2>2 DEF Claim, ClaimInv
<1>7. CASE TakeGEMM(k)
  <2>1. pub[k] = "take" /\ pub'[k] = "publish" /\ rsRem' = rsRem
    BY <1>7 DEF TakeGEMM, Publish, TypeOK, PublisherTypeOK, None, GEMM
  <2>2. ~TakeRS(k)
    BY <2>1 DEF TakeRS
  <2>. QED BY <1>1, <1>2, <2>1, <2>2 DEF Claim, ClaimInv
<1>. QED BY <1>4, <1>5, <1>6, <1>7

LEMMA ClaimStep ==
  ASSUME TypeOK, HostInv, ClaimInv, [Next]_vars
  PROVE  ClaimInv'
<1>1. ASSUME NEW k \in K, MissRS(k) \/ TakeRS(k) \/ ClaimGEMM(k) \/ TakeGEMM(k) PROVE ClaimInv'
  <2>1. \A l \in K : Claim(l)' = Claim(l) \/ Claim(l)' = -1
    BY <1>1, ClaimKeptOrDropped
  <2>2. \A l \in K : rsHead[l[1]] \in Nat /\ Claim(l) \in Int
    BY ClaimType
  <2>. QED BY <1>1, <2>1, <2>2, ClaimKeptOrDropped DEF ClaimInv, ClaimsExclusive
<1>2. ASSUME NEW k \in K, ClaimRS(k) PROVE ClaimInv'
  BY <1>2, ClaimClaimRS
<1>3. ASSUME NEW r \in Rank, Clear(r) \/ Launch(r) PROVE ClaimInv'
  BY <1>3, ClaimClear, ClaimLaunch
<1>4. CASE \/ UNCHANGED vars \/ ResetBarrier \/ PrepareBarrier
           \/ \E r \in Rank : KernelDone(r)
           \/ \E k \in K : ExitArrive(k) \/ ExitLeave(k)
           \/ \E r, q \in Rank : DeliverRed(r, q)
  BY <1>4, ClaimFramed
     DEF vars, ResetBarrier, PrepareBarrier, KernelDone, ExitArrive, ExitLeave, DeliverRed,
         rsQueue, pubVars
<1>5. ASSUME NEW k \in K, NEW w \in Worker, Consumer(k, w) PROVE ClaimInv'
  BY <1>5, ClaimFramed
     DEF Consumer, Receive, ReduceShare, StoreTile, Notify, ClaimTail, WriteIndex, ReleaseType,
         rsQueue, pubVars
<1>. QED BY <1>1, <1>2, <1>3, <1>4, <1>5 DEF Next, Publisher

----------------------------------------------------------------------------
(* Where completed tiles are placed: PlaceInv.                               *)
LEMMA PlaceInit == Init => PlaceInv
<1>. SUFFICES ASSUME Init PROVE PlaceInv
  OBVIOUS
<1>1. \A k \in K, w \in Worker : work[k][w] = "left"
  BY DEF Init
<1>2. \A s \in Rank, p \in RsPos : ~(p < rsTail[s])
  BY Sizes DEF Init, RsPos
<1>3. \A s \in Rank : rsTail[s] <= RS_COUNT
  BY Sizes DEF Init
<1>. QED BY <1>1, <1>2, <1>3
     DEF PlaceInv, OneEnqueuer, OnePlacer, TailBounded, PlacedOnce, PlacedLast, PlacedComplete,
         Enqueuing, Placing, Written

(* A worker's step that neither begins nor ends an enqueue.                  *)
EnqueueFrame ==
  \A l \in K, v \in Worker :
    \/ work'[l][v] = work[l][v] /\ job'[l][v] = job[l][v]
    \/ {work[l][v], work'[l][v]} \cap {"tail", "index", "release"} = {}

LEMMA EnqueueFramed ==
  ASSUME EnqueueFrame
  PROVE  \A l \in K, v \in Worker : \A s, x :
           /\ Enqueuing(l, v, s, x)' <=> Enqueuing(l, v, s, x)
           /\ Placing(l, v, s, x)' <=> Placing(l, v, s, x)
           /\ work[l][v] = "release" <=> work'[l][v] = "release"
           /\ Placing(l, v, s, x) => job'[l][v] = job[l][v] /\ work'[l][v] = work[l][v]
<1>. SUFFICES ASSUME NEW l \in K, NEW v \in Worker, NEW s, NEW x
              PROVE  /\ Enqueuing(l, v, s, x)' <=> Enqueuing(l, v, s, x)
                     /\ Placing(l, v, s, x)' <=> Placing(l, v, s, x)
                     /\ work[l][v] = "release" <=> work'[l][v] = "release"
                     /\ Placing(l, v, s, x) => job'[l][v] = job[l][v] /\ work'[l][v] = work[l][v]
  OBVIOUS
<1>1. CASE work'[l][v] = work[l][v] /\ job'[l][v] = job[l][v]
  BY <1>1 DEF Enqueuing, Placing
<1>2. CASE {work[l][v], work'[l][v]} \cap {"tail", "index", "release"} = {}
  <2>1. /\ work[l][v] # "tail" /\ work[l][v] # "index" /\ work[l][v] # "release"
        /\ work'[l][v] # "tail" /\ work'[l][v] # "index" /\ work'[l][v] # "release"
    BY <1>2
  <2>. QED BY <2>1 DEF Enqueuing, Placing
<1>. QED BY <1>1, <1>2 DEF EnqueueFrame

LEMMA PlaceFramed ==
  ASSUME PlaceInv, EnqueueFrame, UNCHANGED <<rsTail, rsIdx, semaphore>>
  PROVE  PlaceInv'
<1>1. \A s, p : Written(s, p)' <=> Written(s, p)
  BY EnqueueFramed DEF Written
<1>2. \A s, t : Completed(s, t)' <=> Completed(s, t)
  BY DEF Completed, COMPLETION
<1>3. (OneEnqueuer /\ OnePlacer)'
  BY EnqueueFramed DEF PlaceInv, OneEnqueuer, OnePlacer
<1>4. TailBounded'
  <2>1. ASSUME NEW k \in K, NEW w \in Worker, work'[k][w] \in {"index", "release"}
        PROVE  job'[k][w].pos < rsTail'[SignalRank(job'[k][w].task, w)]
    <3>1. work'[k][w] = work[k][w] /\ job'[k][w] = job[k][w]
      BY <2>1 DEF EnqueueFrame
    <3>. QED BY <2>1, <3>1 DEF PlaceInv, TailBounded
  <2>. QED BY <2>1 DEF PlaceInv, TailBounded
<1>5. (PlacedOnce /\ PlacedComplete)'
  BY <1>1, <1>2 DEF PlaceInv, PlacedOnce, PlacedComplete
<1>6. PlacedLast'
  BY <1>1, EnqueueFramed DEF PlaceInv, PlacedLast
<1>. QED BY <1>3, <1>4, <1>5, <1>6 DEF PlaceInv

LEMMA FrameHost ==
  ASSUME TypeOK, HostInv,
         \/ UNCHANGED vars \/ ResetBarrier \/ PrepareBarrier
         \/ \E r \in Rank : Clear(r) \/ Launch(r) \/ KernelDone(r)
         \/ \E k \in K : Publisher(k) \/ ExitArrive(k) \/ ExitLeave(k)
         \/ \E r, q \in Rank : DeliverRed(r, q)
  PROVE  EnqueueFrame
<1>1. CASE UNCHANGED <<work, job>>
  BY <1>1 DEF EnqueueFrame
<1>2. ASSUME NEW r \in Rank, Launch(r) PROVE EnqueueFrame
  <2>1. /\ host[r] = "ready"
        /\ work' = [k \in K |-> IF k[1] = r THEN [w \in Worker |-> "receive"] ELSE work[k]]
        /\ job' = [k \in K |-> IF k[1] = r THEN [w \in Worker |-> NoJob] ELSE job[k]]
    BY <1>2 DEF Launch
  <2>2. ASSUME NEW l \in K, NEW v \in Worker
        PROVE  \/ work'[l][v] = work[l][v] /\ job'[l][v] = job[l][v]
               \/ {work[l][v], work'[l][v]} \cap {"tail", "index", "release"} = {}
    <3>1. CASE l[1] = r
      <4>1. work[l][v] = "left" /\ work'[l][v] = "receive"
        BY <2>1, <3>1, AtRest
      <4>. QED BY <4>1
    <3>. QED BY <2>1, <3>1
  <2>. QED BY <2>2 DEF EnqueueFrame
<1>. QED BY <1>1, <1>2
     DEF vars, ResetBarrier, PrepareBarrier, Clear, KernelDone, ExitArrive, ExitLeave, DeliverRed,
         Publisher, ClaimRS, MissRS, TakeRS, ClaimGEMM, TakeGEMM, workVars

LEMMA FrameWorker ==
  ASSUME TypeOK, NEW k \in K, NEW w \in Worker,
         Receive(k, w) \/ ReduceShare(k, w) \/ StoreTile(k, w)
  PROVE  EnqueueFrame
<1>1. \A l \in K, v \in Worker : <<l, v>> # <<k, w>> =>
        work'[l][v] = work[l][v] /\ job'[l][v] = job[l][v]
  BY OneWorker DEF Consumer
<1>2. work[k][w] \in {"receive", "work"} /\ work'[k][w] \in {"receive", "work", "left", "notify"}
  BY DEF Receive, ReduceShare, StoreTile, TypeOK, WorkerTypeOK
<1>3. {work[k][w], work'[k][w]} \cap {"tail", "index", "release"} = {}
  BY <1>2
<1>. QED BY <1>1, <1>3 DEF EnqueueFrame

LEMMA PlaceClear ==
  ASSUME TypeOK, HostInv, PlaceInv, NEW r \in Rank, Clear(r)
  PROVE  PlaceInv'
<1>1. /\ host[r] = "clearing" /\ UNCHANGED <<work, job>>
      /\ \A q \in Rank : q # r => /\ rsTail'[q] = rsTail[q] /\ rsIdx'[q] = rsIdx[q]
                                  /\ semaphore'[q] = semaphore[q]
      /\ rsTail'[r] = 0
  BY DEF Clear, workVars, TypeOK, QueueTypeOK, DataTypeOK
<1>2. \A q \in Rank : host[q] # "running"
  BY <1>1 DEF HostInv, Clearing
<1>3. \A k \in K, w \in Worker : work[k][w] = "left"
  BY <1>2, AtRest DEF K
<1>4. \A k \in K, w \in Worker : \A s, x : ~Enqueuing(k, w, s, x)' /\ ~Placing(k, w, s, x)'
  BY <1>1, <1>3 DEF Enqueuing, Placing
<1>5. \A p \in RsPos : ~Written(r, p)'
  BY <1>1, Sizes DEF Written, RsPos
<1>6. \A s \in Rank : s # r =>
        /\ \A p : Written(s, p)' <=> Written(s, p)
        /\ \A t : Completed(s, t)' <=> Completed(s, t)
  BY <1>1 DEF Written, Completed, COMPLETION, Placing
<1>7. (OneEnqueuer /\ OnePlacer /\ PlacedLast)'
  BY <1>4 DEF OneEnqueuer, OnePlacer, PlacedLast
<1>8. TailBounded'
  BY <1>1, <1>3, Sizes DEF PlaceInv, TailBounded
<1>9. PlacedOnce' /\ PlacedComplete'
  BY <1>1, <1>5, <1>6 DEF PlaceInv, PlacedOnce, PlacedComplete
<1>. QED BY <1>7, <1>8, <1>9 DEF PlaceInv

(* What the three steps of an enqueue read of their job.                     *)
LEMMA EnqueuerFacts ==
  ASSUME TypeOK, NEW k \in K, NEW w \in Worker,
         work[k][w] \in {"notify", "tail", "index", "release"}
  PROVE  /\ job[k][w].task \in GemmTask /\ job[k][w].pos \in Nat
         /\ SignalRank(job[k][w].task, w) \in Rank /\ LocalTile(job[k][w].task, w) \in Tile
  BY JobFacts, RowFacts DEF TypeOK, WorkerTypeOK

LEMMA PlaceNotify ==
  ASSUME TypeOK, HostInv, GemmInv, SemInv, RsInv, PlaceInv, NEW k \in K, NEW w \in Worker,
         Notify(k, w)
  PROVE  PlaceInv'
<1>. PICK s \in Rank, u \in Tile :
       s = SignalRank(job[k][w].task, w) /\ u = LocalTile(job[k][w].task, w)
  BY EnqueuerFacts DEF Notify
<1>1. /\ work[k][w] = "notify" /\ work'[k][w] \in {"tail", "receive"}
      /\ work'[k][w] = "tail" => semaphore[s][u] + 1 = COMPLETION
      /\ UNCHANGED <<job, rsTail, rsIdx>>
  BY DEF Notify, IsLastArrival, rsQueue, TypeOK, WorkerTypeOK
<1>2. \A l \in K, v \in Worker : <<l, v>> # <<k, w>> => work'[l][v] = work[l][v]
  BY OneWorker DEF Consumer
<1>3. \A l \in K, v \in Worker : \A q, x :
        /\ Placing(l, v, q, x)' <=> Placing(l, v, q, x)
        /\ work'[l][v] = "release" <=> work[l][v] = "release"
        /\ Enqueuing(l, v, q, x)' => Enqueuing(l, v, q, x) \/ (l = k /\ v = w /\ q = s /\ x = u)
        /\ Enqueuing(l, v, q, x) => Enqueuing(l, v, q, x)'
  BY <1>1, <1>2 DEF Placing, Enqueuing
<1>4. \A q, p : Written(q, p)' <=> Written(q, p)
  BY <1>1, <1>3 DEF Written
<1>5. work'[k][w] = "tail" => ~Completed(s, u)
  <2>1. semaphore[s][u] \in Nat /\ COMPLETION \in Nat
    BY NotifiedFinite, FS_CardinalityType DEF TypeOK, DataTypeOK
  <2>. QED BY <1>1, <2>1 DEF Completed
<1>6. Enqueuing(k, w, s, u)' => work'[k][w] = "tail"
  BY <1>1 DEF Enqueuing
<1>7. \A l \in K, v \in Worker : \A q, x : Enqueuing(l, v, q, x) => Completed(q, x)
  BY DEF RsInv, Enqueuing
<1>8. OneEnqueuer'
  BY <1>3, <1>5, <1>6, <1>7 DEF PlaceInv, OneEnqueuer
<1>9. OnePlacer'
  BY <1>3 DEF PlaceInv, OnePlacer
<1>10. TailBounded'
  BY <1>1, <1>2 DEF PlaceInv, TailBounded
<1>11. PlacedOnce'
  BY <1>1, <1>4 DEF PlaceInv, PlacedOnce
<1>12. PlacedLast'
  BY <1>1, <1>3, <1>4, <1>5, <1>6 DEF PlaceInv, PlacedLast, PlacedComplete
<1>13. PlacedComplete'
  <2>1. \A r \in Rank, t \in Tile : Completed(r, t) => Completed(r, t)'
    BY SemNotify
  <2>. QED BY <1>1, <1>4, <2>1 DEF PlaceInv, PlacedComplete, TypeOK, QueueTypeOK
<1>. QED BY <1>8, <1>9, <1>10, <1>11, <1>12, <1>13 DEF PlaceInv

LEMMA IntervalSize ==
  ASSUME NEW n \in Nat
  PROVE  IsFiniteSet(0 .. n - 1) /\ Cardinality(0 .. n - 1) = n
<1>1. n - 1 \in Int /\ 0 \in Int /\ (0 > n - 1 => n = 0)
  OBVIOUS
<1>2. /\ IsFiniteSet(0 .. n - 1)
      /\ Cardinality(0 .. n - 1) = IF 0 > n - 1 THEN 0 ELSE (n - 1) - 0 + 1
  BY <1>1, FS_Interval
<1>. QED BY <1>1, <1>2

LEMMA TileCount == IsFiniteSet(Tile) /\ Cardinality(Tile) = RS_COUNT
<1>. DEFINE A == 0 .. RS_M_CLUSTERS - 1
            B == 0 .. N_CLUSTERS - 1
<1>1. /\ IsFiniteSet(A) /\ Cardinality(A) = RS_M_CLUSTERS
      /\ IsFiniteSet(B) /\ Cardinality(B) = N_CLUSTERS
  BY TileAssumption, IntervalSize
<1>2. IsFiniteSet(A \X B) /\ Cardinality(A \X B) = Cardinality(A) * Cardinality(B)
  BY <1>1, FS_Product
<1>. QED BY <1>1, <1>2 DEF Tile, RS_COUNT

(* A tile is at a position once it is written there or about to be.          *)
TileAt(s, p, t) ==
  \/ Written(s, p) /\ rsIdx[s][p] = t
  \/ \E k \in K, w \in Worker :
       work[k][w] = "index" /\ Placing(k, w, s, p) /\ Enqueuing(k, w, s, t)

(* The tail has room for a completed tile that has no position yet.          *)
LEMMA TailHasRoom ==
  ASSUME TypeOK, PlaceInv, NEW k \in K, NEW w \in Worker, work[k][w] = "tail"
  PROVE  rsTail[SignalRank(job[k][w].task, w)] < RS_COUNT
<1>. PICK s \in Rank, u \in Tile :
       s = SignalRank(job[k][w].task, w) /\ u = LocalTile(job[k][w].task, w)
  BY EnqueuerFacts
<1>. DEFINE n == rsTail[s]
            D == 0 .. n - 1
            f == [p \in D |-> CHOOSE t \in Tile : TileAt(s, p, t)]
<1>1. n \in Nat /\ n <= RS_COUNT /\ RS_COUNT \in Nat /\ D \subseteq RsPos
  BY Sizes DEF TypeOK, QueueTypeOK, PlaceInv, TailBounded, RsPos
<1>2. Enqueuing(k, w, s, u)
  BY DEF Enqueuing
<1>3. \A p \in D : \E t \in Tile : TileAt(s, p, t)
  <2>. SUFFICES ASSUME NEW p \in D PROVE \E t \in Tile : TileAt(s, p, t)
    OBVIOUS
  <2>1. CASE Written(s, p)
    BY <1>1, <2>1 DEF TileAt, TypeOK, QueueTypeOK
  <2>2. CASE ~Written(s, p)
    <3>1. p < n
      BY <1>1
    <3>2. PICK l \in K, v \in Worker : Placing(l, v, s, p) /\ work[l][v] = "index"
      BY <2>2, <3>1 DEF Written, Placing
    <3>3. LocalTile(job[l][v].task, v) \in Tile /\ Enqueuing(l, v, s, LocalTile(job[l][v].task, v))
      BY <3>2, EnqueuerFacts DEF Placing, Enqueuing
    <3>. QED BY <3>2, <3>3 DEF TileAt
  <2>. QED BY <2>1, <2>2
<1>4. \A p \in D : f[p] \in Tile /\ TileAt(s, p, f[p])
  BY <1>3
<1>5. ASSUME NEW p \in RsPos, NEW q \in RsPos, NEW t \in Tile, TileAt(s, p, t), TileAt(s, q, t)
      PROVE  p = q
  <2>1. CASE Written(s, p) /\ rsIdx[s][p] = t /\ Written(s, q) /\ rsIdx[s][q] = t
    BY <2>1 DEF PlaceInv, PlacedOnce
  <2>2. ASSUME NEW x \in RsPos, NEW y \in RsPos, Written(s, x), rsIdx[s][x] = t,
               NEW l \in K, NEW v \in Worker, Placing(l, v, s, y), Enqueuing(l, v, s, t)
        PROVE  x = y
    <3>1. Placing(l, v, s, x)
      BY <2>2 DEF PlaceInv, PlacedLast
    <3>. QED BY <2>2, <3>1 DEF Placing
  <2>3. ASSUME NEW l \in K, NEW v \in Worker, Placing(l, v, s, p), Enqueuing(l, v, s, t),
               NEW m \in K, NEW x \in Worker, Placing(m, x, s, q), Enqueuing(m, x, s, t)
        PROVE  p = q
    <3>1. l = m /\ v = x
      BY <2>3 DEF PlaceInv, OneEnqueuer
    <3>. QED BY <2>3, <3>1 DEF Placing
  <2>. QED BY <1>5, <2>1, <2>2, <2>3 DEF TileAt
<1>6. ASSUME NEW p \in D PROVE ~TileAt(s, p, u)
  <2>1. ~(Written(s, p) /\ rsIdx[s][p] = u)
    BY <1>1, <1>2 DEF PlaceInv, PlacedLast, Placing
  <2>2. ~\E l \in K, v \in Worker :
           work[l][v] = "index" /\ Placing(l, v, s, p) /\ Enqueuing(l, v, s, u)
    BY <1>2 DEF PlaceInv, OneEnqueuer
  <2>. QED BY <2>1, <2>2 DEF TileAt
<1>7. IsFiniteSet(Tile) /\ Cardinality(Tile) = RS_COUNT
  BY TileCount
<1>8. IsFiniteSet(Tile \ {u}) /\ Cardinality(Tile \ {u}) = RS_COUNT - 1
  BY <1>7, FS_RemoveElement
<1>9. f \in Injection(D, Tile \ {u})
  <2>1. f \in [D -> Tile \ {u}]
    BY <1>4, <1>6
  <2>2. \A p, q \in D : f[p] = f[q] => p = q
    BY <1>1, <1>4, <1>5
  <2>. HIDE DEF f, D
  <2>. QED BY <2>1, <2>2 DEF Injection, IsInjective
<1>10. IsFiniteSet(D) /\ Cardinality(D) = n
  BY <1>1, IntervalSize
<1>11. n <= RS_COUNT - 1
  <2>. HIDE DEF f, D
  <2>1. Cardinality(D) <= Cardinality(Tile \ {u})
    BY <1>8, <1>9, FS_Injection
  <2>. QED BY <1>8, <1>10, <2>1
<1>. QED BY <1>1, <1>11

LEMMA PlaceTail ==
  ASSUME TypeOK, PlaceInv, NEW k \in K, NEW w \in Worker, ClaimTail(k, w)
  PROVE  PlaceInv'
<1>. PICK s \in Rank, u \in Tile :
       s = SignalRank(job[k][w].task, w) /\ u = LocalTile(job[k][w].task, w)
  BY EnqueuerFacts DEF ClaimTail
<1>. PICK n \in RsPos : n = rsTail[s]
  BY TailHasRoom, Sizes DEF ClaimTail, TypeOK, QueueTypeOK, RsPos
<1>1. /\ work[k][w] = "tail" /\ work'[k][w] = "index"
      /\ job'[k][w].task = job[k][w].task /\ job'[k][w].pos = n
      /\ UNCHANGED <<rsIdx, semaphore>>
  BY DEF ClaimTail, data, TypeOK, WorkerTypeOK
<1>2. \A l \in K, v \in Worker : <<l, v>> # <<k, w>> =>
        work'[l][v] = work[l][v] /\ job'[l][v] = job[l][v]
  BY OneWorker DEF Consumer
<1>3. n \in Nat /\ n + 1 <= RS_COUNT /\ rsTail'[s] = n + 1
      /\ \A q \in Rank : q # s => rsTail'[q] = rsTail[q]
  BY Sizes DEF ClaimTail, TypeOK, QueueTypeOK, RsPos
<1>4. \A l \in K, v \in Worker : \A q, x :
        /\ Enqueuing(l, v, q, x)' <=> Enqueuing(l, v, q, x)
        /\ Placing(l, v, q, x)' <=> Placing(l, v, q, x) \/ (l = k /\ v = w /\ q = s /\ x = n)
        /\ work'[l][v] = "release" <=> work[l][v] = "release"
  BY <1>1, <1>2 DEF Enqueuing, Placing
<1>5. \A l \in K, v \in Worker : ~Placing(l, v, s, n)
  BY <1>3 DEF PlaceInv, TailBounded, Placing
<1>6. \A q \in Rank, p \in RsPos : Written(q, p)' <=> Written(q, p)
  <2>1. ASSUME NEW q \in Rank, NEW p \in RsPos, <<q, p>> # <<s, n>>
        PROVE  Written(q, p)' <=> Written(q, p)
    <3>1. p < rsTail'[q] <=> p < rsTail[q]
      BY <1>3, <2>1, Sizes DEF RsPos
    <3>2. \A l \in K, v \in Worker : Placing(l, v, q, p)' <=> Placing(l, v, q, p)
      BY <1>4, <2>1
    <3>. QED BY <1>4, <3>1, <3>2 DEF Written
  <2>2. ~Written(s, n)
    BY <1>3 DEF Written
  <2>3. ~Written(s, n)'
    BY <1>1, <1>4 DEF Written
  <2>. QED BY <2>1, <2>2, <2>3
<1>7. OneEnqueuer'
  BY <1>4 DEF PlaceInv, OneEnqueuer
<1>8. OnePlacer'
  BY <1>4, <1>5 DEF PlaceInv, OnePlacer
<1>9. TailBounded'
  <2>1. \A q \in Rank : rsTail'[q] <= RS_COUNT
    BY <1>3 DEF PlaceInv, TailBounded
  <2>2. ASSUME NEW l \in K, NEW v \in Worker, work'[l][v] \in {"index", "release"}
        PROVE  job'[l][v].pos < rsTail'[SignalRank(job'[l][v].task, v)]
    <3>1. CASE <<l, v>> = <<k, w>>
      BY <1>1, <1>3, <3>1
    <3>2. CASE <<l, v>> # <<k, w>>
      <4>1. work'[l][v] = work[l][v] /\ job'[l][v] = job[l][v]
        BY <1>2, <3>2
      <4>2. PICK q \in Rank, i \in Nat : q = SignalRank(job[l][v].task, v) /\ i = job[l][v].pos
        BY <2>2, <4>1, EnqueuerFacts
      <4>3. i < rsTail[q] /\ rsTail[q] \in Nat
        BY <2>2, <4>1, <4>2 DEF PlaceInv, TailBounded, TypeOK, QueueTypeOK
      <4>4. i < rsTail'[q]
        BY <1>3, <4>3
      <4>. QED BY <4>1, <4>2, <4>4
    <3>. QED BY <3>1, <3>2
  <2>. QED BY <2>1, <2>2 DEF TailBounded
<1>10. PlacedOnce' /\ PlacedComplete'
  BY <1>1, <1>6 DEF PlaceInv, PlacedOnce, PlacedComplete, Completed, COMPLETION
<1>11. PlacedLast'
  <2>1. ASSUME NEW q \in Rank, NEW p \in RsPos, NEW t \in Tile, NEW l \in K, NEW v \in Worker,
               rsIdx'[q][p] = t
        PROVE  /\ Written(q, p)' /\ Enqueuing(l, v, q, t)' => Placing(l, v, q, p)'
               /\ Placing(l, v, q, p)' /\ work'[l][v] = "release" => Enqueuing(l, v, q, t)'
    <3>1. /\ Written(q, p) /\ Enqueuing(l, v, q, t) => Placing(l, v, q, p)
          /\ Placing(l, v, q, p) /\ work[l][v] = "release" => Enqueuing(l, v, q, t)
      BY <1>1, <2>1 DEF PlaceInv, PlacedLast
    <3>. QED BY <1>1, <1>4, <1>6, <3>1
  <2>. QED BY <2>1 DEF PlacedLast
<1>. QED BY <1>7, <1>8, <1>9, <1>10, <1>11 DEF PlaceInv

LEMMA PlaceWrite ==
  ASSUME TypeOK, HostInv, RsInv, PlaceInv, NEW k \in K, NEW w \in Worker, WriteIndex(k, w)
  PROVE  PlaceInv'
<1>. PICK s \in Rank, u \in Tile :
       s = SignalRank(job[k][w].task, w) /\ u = LocalTile(job[k][w].task, w)
  BY EnqueuerFacts DEF WriteIndex
<1>0. /\ \A q \in Rank : rsTail[q] \in Nat /\ rsTail[q] <= RS_COUNT
      /\ job[k][w].pos \in Nat /\ job[k][w].pos < rsTail[s] /\ RS_COUNT \in Nat
  BY EnqueuerFacts, Sizes DEF WriteIndex, PlaceInv, TailBounded, TypeOK, QueueTypeOK
<1>. PICK n \in RsPos : n = job[k][w].pos /\ n < rsTail[s]
  BY <1>0 DEF RsPos
<1>1. /\ work[k][w] = "index" /\ work'[k][w] = "release"
      /\ rsIdx' = [rsIdx EXCEPT ![s] = [@ EXCEPT ![n] = u]]
      /\ UNCHANGED <<job, rsTail, semaphore>>
  BY DEF WriteIndex, Indexed, data, TypeOK, WorkerTypeOK
<1>2. \A l \in K, v \in Worker : <<l, v>> # <<k, w>> => work'[l][v] = work[l][v]
  BY OneWorker DEF Consumer
<1>3. rsIdx'[s][n] = u
      /\ \A q \in Rank, p \in RsPos : <<q, p>> # <<s, n>> => rsIdx'[q][p] = rsIdx[q][p]
  BY <1>1 DEF TypeOK, QueueTypeOK
<1>4. \A l \in K, v \in Worker : \A q, x :
        /\ Enqueuing(l, v, q, x)' <=> Enqueuing(l, v, q, x)
        /\ Placing(l, v, q, x)' <=> Placing(l, v, q, x)
        /\ <<l, v>> # <<k, w>> => (work'[l][v] = "release" <=> work[l][v] = "release")
  BY <1>1, <1>2 DEF Enqueuing, Placing
<1>5. Placing(k, w, s, n) /\ Enqueuing(k, w, s, u) /\ Completed(s, u) /\ ~Written(s, n)
  BY <1>1 DEF Placing, Enqueuing, RsInv, Written
<1>6. \A l \in K, v \in Worker : Placing(l, v, s, n) => l = k /\ v = w
  BY <1>5 DEF PlaceInv, OnePlacer
<1>7. \A q \in Rank, p \in RsPos : <<q, p>> # <<s, n>> => (Written(q, p)' <=> Written(q, p))
  <2>. SUFFICES ASSUME NEW q \in Rank, NEW p \in RsPos, <<q, p>> # <<s, n>>
                PROVE  Written(q, p)' <=> Written(q, p)
    OBVIOUS
  <2>1. ~Placing(k, w, q, p)
    BY DEF Placing
  <2>. QED BY <1>1, <1>2, <1>4, <2>1 DEF Written
<1>8. OneEnqueuer' /\ OnePlacer'
  BY <1>4 DEF PlaceInv, OneEnqueuer, OnePlacer
<1>9. TailBounded'
  BY <1>1, <1>2 DEF PlaceInv, TailBounded
<1>10. \A p \in RsPos : p # n => ~(Written(s, p) /\ rsIdx[s][p] = u)
  BY <1>5 DEF PlaceInv, PlacedLast, Placing
<1>11. PlacedOnce'
  BY <1>3, <1>7, <1>10 DEF PlaceInv, PlacedOnce
<1>12. PlacedComplete'
  <2>1. \A q, t : Completed(q, t)' <=> Completed(q, t)
    BY <1>1 DEF Completed, COMPLETION
  <2>. QED BY <1>3, <1>5, <1>7, <2>1 DEF PlaceInv, PlacedComplete
<1>13. PlacedLast'
  <2>1. ASSUME NEW q \in Rank, NEW p \in RsPos, NEW t \in Tile, NEW l \in K, NEW v \in Worker,
               rsIdx'[q][p] = t
        PROVE  /\ Written(q, p)' /\ Enqueuing(l, v, q, t)' => Placing(l, v, q, p)'
               /\ Placing(l, v, q, p)' /\ work'[l][v] = "release" => Enqueuing(l, v, q, t)'
    <3>1. CASE <<q, p>> = <<s, n>>
      <4>1. t = u
        BY <1>3, <2>1, <3>1
      <4>2. Enqueuing(l, v, s, u) => l = k /\ v = w
        BY <1>5 DEF PlaceInv, OneEnqueuer
      <4>. QED BY <1>4, <1>5, <1>6, <3>1, <4>1, <4>2
    <3>2. CASE <<q, p>> # <<s, n>>
      <4>1. /\ Written(q, p) /\ Enqueuing(l, v, q, t) => Placing(l, v, q, p)
            /\ Placing(l, v, q, p) /\ work[l][v] = "release" => Enqueuing(l, v, q, t)
        BY <1>3, <2>1, <3>2 DEF PlaceInv, PlacedLast
      <4>2. ~(Placing(l, v, q, p) /\ l = k /\ v = w)
        BY <3>2 DEF Placing
      <4>. QED BY <1>4, <1>7, <3>2, <4>1, <4>2
    <3>. QED BY <3>1, <3>2
  <2>. QED BY <2>1 DEF PlacedLast
<1>. QED BY <1>8, <1>9, <1>11, <1>12, <1>13 DEF PlaceInv

LEMMA PlaceRelease ==
  ASSUME TypeOK, PlaceInv, NEW k \in K, NEW w \in Worker, ReleaseType(k, w)
  PROVE  PlaceInv'
<1>1. /\ work[k][w] = "release" /\ work'[k][w] = "receive"
      /\ UNCHANGED <<job, rsTail, rsIdx, semaphore>>
  BY DEF ReleaseType, data, TypeOK, WorkerTypeOK
<1>2. \A l \in K, v \in Worker : <<l, v>> # <<k, w>> => work'[l][v] = work[l][v]
  BY OneWorker DEF Consumer
<1>3. \A l \in K, v \in Worker : \A q, x :
        /\ Enqueuing(l, v, q, x)' <=> Enqueuing(l, v, q, x) /\ <<l, v>> # <<k, w>>
        /\ Placing(l, v, q, x)' <=> Placing(l, v, q, x) /\ <<l, v>> # <<k, w>>
        /\ work'[l][v] = "release" => work[l][v] = "release"
  BY <1>1, <1>2 DEF Enqueuing, Placing
<1>4. \A q, p : Written(q, p)' <=> Written(q, p)
  BY <1>1, <1>2, <1>3 DEF Written
<1>5. OneEnqueuer' /\ OnePlacer'
  BY <1>3 DEF PlaceInv, OneEnqueuer, OnePlacer
<1>6. TailBounded'
  BY <1>1, <1>2 DEF PlaceInv, TailBounded
<1>7. PlacedOnce' /\ PlacedComplete'
  BY <1>1, <1>4 DEF PlaceInv, PlacedOnce, PlacedComplete, Completed, COMPLETION
<1>8. PlacedLast'
  BY <1>1, <1>3, <1>4 DEF PlaceInv, PlacedLast
<1>. QED BY <1>5, <1>6, <1>7, <1>8 DEF PlaceInv

LEMMA PlaceStep ==
  ASSUME TypeOK, HostInv, ~Clearing => GemmInv /\ SemInv /\ RsInv, PlaceInv, [Next]_vars
  PROVE  PlaceInv'
<1>1. ASSUME NEW r \in Rank, Clear(r) PROVE PlaceInv'
  BY <1>1, PlaceClear
<1>2. CASE \/ UNCHANGED vars \/ ResetBarrier \/ PrepareBarrier
           \/ \E r \in Rank : Launch(r) \/ KernelDone(r)
           \/ \E k \in K : Publisher(k) \/ ExitArrive(k) \/ ExitLeave(k)
           \/ \E r, q \in Rank : DeliverRed(r, q)
  <2>1. EnqueueFrame
    BY <1>2, FrameHost
  <2>2. UNCHANGED <<rsTail, rsIdx, semaphore>>
    BY <1>2 DEF vars, ResetBarrier, PrepareBarrier, Launch, KernelDone, ExitArrive, ExitLeave,
                DeliverRed, Publisher, ClaimRS, MissRS, TakeRS, ClaimGEMM, TakeGEMM, rsQueue, data
  <2>. QED BY <2>1, <2>2, PlaceFramed
<1>3. ASSUME NEW k \in K, NEW w \in Worker, Receive(k, w) \/ ReduceShare(k, w) \/ StoreTile(k, w)
      PROVE  PlaceInv'
  <2>1. UNCHANGED <<rsTail, rsIdx, semaphore>>
    BY <1>3 DEF Receive, ReduceShare, StoreTile, rsQueue, data
  <2>. QED BY <1>3, <2>1, FrameWorker, PlaceFramed
<1>4. ASSUME NEW k \in K, NEW w \in Worker,
             Notify(k, w) \/ ClaimTail(k, w) \/ WriteIndex(k, w) \/ ReleaseType(k, w)
      PROVE  PlaceInv'
  <2>1. GemmInv /\ SemInv /\ RsInv
    BY <1>4, AtWork DEF Notify, ClaimTail, WriteIndex, ReleaseType
  <2>. QED BY <1>4, <2>1, PlaceNotify, PlaceTail, PlaceWrite, PlaceRelease
<1>. QED BY <1>1, <1>2, <1>3, <1>4 DEF Next, Consumer

----------------------------------------------------------------------------
(* From the slot to the share: TakeInv.                                      *)
LEMMA TakeInit == Init => TakeInv
<1>. SUFFICES ASSUME Init PROVE TakeInv
  OBVIOUS
<1>1. \A r \in Rank, p \in RsPos : ~Gone(r, p) /\ rsSlot[r][p] = None
  BY Sizes DEF Init, Gone, FreshRsSlot, RsPos
<1>2. \A k \in K, w \in Worker, t \in Tile : ~RsSent(k, w, t) /\ ~RsRunning(k, w, t)
  BY DEF Init, RsSent, RsRunning
<1>3. \A r \in Rank, w \in Worker, t \in Tile : out[r][Share(t, w)] = {}
  BY DEF Init, FreshOut, Share, Part, Worker
<1>. QED BY <1>1, <1>2, <1>3 DEF TakeInv, GoneSettled, OneRsHolder, HeldOnce, RsHolds

LEMMA GoneKept ==
  ASSUME rsHead' = rsHead, \A k \in K : Claim(k)' = Claim(k)
  PROVE  \A r, p : Gone(r, p)' <=> Gone(r, p)
  BY DEF Gone

LEMMA SettledKept ==
  ASSUME EnqueueFrame, rsTail' = rsTail
  PROVE  \A s, p : Settled(s, p)' <=> Settled(s, p)
  BY EnqueueFramed DEF Settled

(* A step that takes no slot, moves no RS task to a new holder and reduces   *)
(* nothing.                                                                  *)
TakeFrame ==
  /\ UNCHANGED <<rsSlot, rsIdx, out>>
  /\ \A r \in Rank, p \in RsPos :
       (Gone(r, p)' <=> Gone(r, p)) /\ (Settled(r, p) => Settled(r, p)')
  /\ \A l \in K, v \in Worker, t \in Tile :
       /\ RsHolds(l, v, t)' => RsHolds(l, v, t)
       /\ ~(RsSent(l, v, t)' /\ RsRunning(l, v, t)')

LEMMA TakeFramed ==
  ASSUME TakeInv, TakeFrame
  PROVE  TakeInv'
<1>1. \A r \in Rank, t \in Tile : Served(r, t)' <=> Served(r, t)
  BY DEF TakeFrame, Served
<1>2. GoneSettled'
  BY DEF TakeInv, GoneSettled, TakeFrame
<1>3. OneRsHolder'
  BY DEF TakeInv, OneRsHolder, TakeFrame
<1>4. \A k \in K : k[1] \in Rank
  BY DEF K
<1>5. HeldOnce'
  BY <1>1, <1>4 DEF TakeInv, HeldOnce, TakeFrame
<1>. QED BY <1>2, <1>3, <1>5 DEF TakeInv

(* The steps that leave the queue, the packets and the workers alone.        *)
LEMMA TakeStill ==
  ASSUME TakeInv,
         UNCHANGED <<rsHead, rsTail, rsSlot, rsIdx, out, pub, rsRem, headR, packet, unread, work, job>>
  PROVE  TakeFrame
<1>1. EnqueueFrame
  BY DEF EnqueueFrame
<1>2. \A k \in K : Claim(k)' = Claim(k)
  BY DEF Claim
<1>3. \A l \in K, v \in Worker, t \in Tile :
        (RsSent(l, v, t)' <=> RsSent(l, v, t)) /\ (RsRunning(l, v, t)' <=> RsRunning(l, v, t))
  BY DEF RsSent, RsRunning
<1>. QED BY <1>1, <1>2, <1>3, GoneKept, SettledKept
     DEF TakeFrame, TakeInv, OneRsHolder, RsHolds

LEMMA TakeHost ==
  ASSUME TypeOK, HostInv, ClaimInv, TakeInv,
         \/ UNCHANGED vars \/ ResetBarrier \/ PrepareBarrier
         \/ \E r \in Rank : Launch(r) \/ KernelDone(r)
         \/ \E k \in K : ExitArrive(k) \/ ExitLeave(k)
         \/ \E r, q \in Rank : DeliverRed(r, q)
  PROVE  TakeFrame
<1>1. ASSUME NEW r \in Rank, Launch(r) PROVE TakeFrame
  <2>1. UNCHANGED <<rsHead, rsTail, rsSlot, rsIdx, out>>
    BY <1>1 DEF Launch, rsQueue, data
  <2>2. \A k \in K : Claim(k)' = Claim(k)
    BY <1>1, ClaimLaunch
  <2>3. EnqueueFrame
    BY <1>1, FrameHost
  <2>4. \A l \in K, v \in Worker, t \in Tile :
          (RsSent(l, v, t)' => RsSent(l, v, t)) /\ (RsRunning(l, v, t)' => RsRunning(l, v, t))
    BY <1>1 DEF Launch, NoTask, NoJob, RsSent, RsRunning, None, RS
  <2>. QED BY <2>1, <2>2, <2>3, <2>4, GoneKept, SettledKept
       DEF TakeFrame, TakeInv, OneRsHolder, RsHolds
<1>. QED BY <1>1, TakeStill
     DEF vars, ResetBarrier, PrepareBarrier, KernelDone, ExitArrive, ExitLeave, DeliverRed,
         rsQueue, data, pubVars, workVars

LEMMA TakeClear ==
  ASSUME TypeOK, HostInv, ClaimInv, TakeInv, NEW r \in Rank, Clear(r)
  PROVE  TakeInv'
<1>1. /\ host[r] = "clearing" /\ UNCHANGED <<pub, rsRem, headR, packet, unread, work, job>>
      /\ \A q \in Rank : q # r =>
           /\ rsHead'[q] = rsHead[q] /\ rsTail'[q] = rsTail[q] /\ rsSlot'[q] = rsSlot[q]
           /\ rsIdx'[q] = rsIdx[q] /\ out'[q] = out[q]
      /\ rsHead'[r] = 0 /\ rsSlot'[r] = FreshRsSlot /\ out'[r] = FreshOut
  BY DEF Clear, workVars, pubVars, TypeOK, QueueTypeOK, DataTypeOK
<1>2. \A q \in Rank : host[q] # "running"
  BY <1>1 DEF HostInv, Clearing
<1>3. \A k \in K : packet[k].type = None /\ \A w \in Worker : work[k][w] = "left"
  BY <1>2, AtRest DEF K
<1>4. \A k \in K, w \in Worker, t \in Tile :
        /\ ~RsSent(k, w, t) /\ ~RsRunning(k, w, t)
        /\ ~RsSent(k, w, t)' /\ ~RsRunning(k, w, t)' /\ ~RsHolds(k, w, t)'
  BY <1>1, <1>3 DEF RsSent, RsRunning, RsHolds, None, RS
<1>5. \A p \in RsPos : ~Gone(r, p)' /\ rsSlot'[r][p] = None
  BY <1>1, Sizes DEF Gone, FreshRsSlot, RsPos
<1>6. \A q \in Rank, p \in RsPos : q # r =>
        (Gone(q, p)' <=> Gone(q, p)) /\ (Settled(q, p)' <=> Settled(q, p))
  BY <1>1 DEF Gone, Settled, Claim, Placing
<1>7. \A q \in Rank, t \in Tile : q # r => (Served(q, t)' <=> Served(q, t))
  BY <1>1, <1>6 DEF Served
<1>8. \A w \in Worker, t \in Tile : out'[r][Share(t, w)] = {}
  BY <1>1 DEF FreshOut, Share, Part, Worker
<1>9. GoneSettled'
  BY <1>1, <1>5, <1>6 DEF TakeInv, GoneSettled
<1>10. OneRsHolder'
  BY <1>4 DEF OneRsHolder
<1>11. HeldOnce'
  <2>1. ASSUME NEW q \in Rank, NEW w \in Worker, NEW t \in Tile, out'[q][Share(t, w)] # {}
        PROVE  Served(q, t)'
    <3>1. q # r
      BY <1>8, <2>1
    <3>2. out[q][Share(t, w)] # {}
      BY <1>1, <2>1, <3>1
    <3>. QED BY <1>7, <3>1, <3>2 DEF TakeInv, HeldOnce
  <2>. QED BY <1>4, <2>1 DEF HeldOnce
<1>. QED BY <1>9, <1>10, <1>11 DEF TakeInv

LEMMA TakeClaim ==
  ASSUME TypeOK, HostInv, ClaimInv, TakeInv, NEW k \in K, ClaimRS(k)
  PROVE  TakeFrame
<1>1. /\ UNCHANGED <<rsTail, rsSlot, rsIdx, out, packet, unread, work, job>>
      /\ k[1] \in Rank
  BY DEF ClaimRS, data, workVars, K
<1>2. ASSUME NEW r \in Rank, NEW p \in RsPos PROVE Gone(r, p)' <=> Gone(r, p)
  <2>1. CASE r # k[1]
    BY <1>1, <2>1, ClaimRSEffect DEF Gone
  <2>2. CASE r = k[1] /\ Claim(k)' = Claim(k) /\ rsHead'[k[1]] = rsHead[k[1]]
    BY <1>1, <2>2, ClaimRSEffect DEF Gone
  <2>3. CASE /\ r = k[1] /\ Claim(k) = -1 /\ Claim(k)' = rsHead[r]
             /\ rsHead'[r] = rsHead[r] + 1 /\ rsHead[r] < RS_COUNT
    <3>1. p \in Nat /\ rsHead[r] \in Nat
      BY Sizes DEF RsPos, TypeOK, QueueTypeOK
    <3>2. p < rsHead'[r] /\ p # Claim(k)' <=> p < rsHead[r] /\ p # Claim(k)
      BY <2>3, <3>1
    <3>. QED BY <2>3, <3>2, ClaimRSEffect DEF Gone
  <2>. QED BY <2>1, <2>2, <2>3, ClaimRSEffect
<1>3. EnqueueFrame
  BY <1>1 DEF EnqueueFrame
<1>4. \A l \in K, v \in Worker, t \in Tile :
        (RsSent(l, v, t)' <=> RsSent(l, v, t)) /\ (RsRunning(l, v, t)' <=> RsRunning(l, v, t))
  BY <1>1 DEF RsSent, RsRunning
<1>. QED BY <1>1, <1>2, <1>3, <1>4, SettledKept DEF TakeFrame, TakeInv, OneRsHolder, RsHolds

LEMMA TakePublish ==
  ASSUME TypeOK, HostInv, ClaimInv, TakeInv, NEW k \in K,
         MissRS(k) \/ ClaimGEMM(k) \/ TakeGEMM(k)
  PROVE  TakeFrame
<1>1. UNCHANGED <<rsHead, rsTail, rsSlot, rsIdx, out, work, job>> /\ ~TakeRS(k)
  BY DEF MissRS, ClaimGEMM, TakeGEMM, TakeRS, rsQueue, data, workVars
<1>2. \A l \in K : Claim(l)' = Claim(l)
  BY <1>1, ClaimKeptOrDropped
<1>3. EnqueueFrame
  BY <1>1 DEF EnqueueFrame
<1>4. /\ \A l \in K : l # k => packet'[l] = packet[l] /\ unread'[l] = unread[l]
      /\ packet'[k].type # RS \/ (packet'[k] = packet[k] /\ unread'[k] = unread[k])
  BY DEF MissRS, ClaimGEMM, TakeGEMM, Publish, TypeOK, PublisherTypeOK, None, GEMM, RS
<1>5. \A l \in K, v \in Worker, t \in Tile :
        (RsSent(l, v, t)' => RsSent(l, v, t)) /\ (RsRunning(l, v, t)' <=> RsRunning(l, v, t))
  BY <1>1, <1>4 DEF RsSent, RsRunning
<1>. QED BY <1>1, <1>2, <1>3, <1>5, GoneKept, SettledKept
     DEF TakeFrame, TakeInv, OneRsHolder, RsHolds

LEMMA TakeWorker ==
  ASSUME TypeOK, HostInv, TakeInv, NEW k \in K, NEW w \in Worker,
         Receive(k, w) \/ StoreTile(k, w)
  PROVE  TakeFrame
<1>1. UNCHANGED <<rsHead, rsTail, rsSlot, rsIdx, out, pub, rsRem, headR, packet>>
  BY DEF Receive, StoreTile, rsQueue, pubVars, data
<1>2. \A l \in K : Claim(l)' = Claim(l)
  BY <1>1 DEF Claim
<1>3. EnqueueFrame
  BY FrameWorker
<1>4. \A l \in K, v \in Worker : <<l, v>> # <<k, w>> =>
        work'[l][v] = work[l][v] /\ job'[l][v] = job[l][v]
  BY OneWorker DEF Consumer
<1>5. \A l \in K, v \in Worker : v \in unread'[l] => v \in unread[l]
  BY DEF Receive, StoreTile, TypeOK, PublisherTypeOK
<1>6. CASE Receive(k, w)
  <2>1. /\ work[k][w] = "receive" /\ w \in unread[k] /\ w \notin unread'[k]
        /\ job'[k][w].type = packet[k].type /\ job'[k][w].task = packet[k].task
    BY <1>6 DEF Receive, TypeOK, PublisherTypeOK, WorkerTypeOK
  <2>2. \A t \in Tile : ~RsSent(k, w, t)' /\ (RsRunning(k, w, t)' => RsSent(k, w, t))
    BY <2>1 DEF RsSent, RsRunning
  <2>3. \A l \in K, v \in Worker, t \in Tile : <<l, v>> # <<k, w>> =>
          (RsSent(l, v, t)' => RsSent(l, v, t)) /\ (RsRunning(l, v, t)' <=> RsRunning(l, v, t))
    BY <1>1, <1>4, <1>5 DEF RsSent, RsRunning
  <2>. QED BY <1>1, <1>2, <1>3, <2>2, <2>3, GoneKept, SettledKept
       DEF TakeFrame, TakeInv, OneRsHolder, RsHolds
<1>7. CASE StoreTile(k, w)
  <2>1. work'[k][w] = "notify" /\ unread' = unread
    BY <1>7 DEF StoreTile, TypeOK, WorkerTypeOK
  <2>2. \A l \in K, v \in Worker, t \in Tile :
          (RsSent(l, v, t)' => RsSent(l, v, t)) /\ (RsRunning(l, v, t)' => RsRunning(l, v, t))
    BY <1>1, <1>4, <2>1 DEF RsSent, RsRunning
  <2>. QED BY <1>1, <1>2, <1>3, <2>2, GoneKept, SettledKept
       DEF TakeFrame, TakeInv, OneRsHolder, RsHolds
<1>. QED BY <1>6, <1>7

LEMMA TakeNotify ==
  ASSUME TypeOK, HostInv, PlaceInv, TakeInv, NEW k \in K, NEW w \in Worker,
         Notify(k, w) \/ ClaimTail(k, w)
  PROVE  TakeFrame
<1>1. UNCHANGED <<rsHead, rsSlot, rsIdx, out, pub, rsRem, headR, packet, unread>>
  BY DEF Notify, ClaimTail, rsQueue, pubVars, data
<1>2. \A l \in K : Claim(l)' = Claim(l)
  BY <1>1 DEF Claim
<1>3. \A l \in K, v \in Worker : <<l, v>> # <<k, w>> =>
        work'[l][v] = work[l][v] /\ job'[l][v] = job[l][v]
  BY OneWorker DEF Consumer
<1>4. work[k][w] \in {"notify", "tail"} /\ work'[k][w] \in {"tail", "receive", "index"}
  BY DEF Notify, ClaimTail, TypeOK, WorkerTypeOK
<1>5. \A l \in K, v \in Worker, t \in Tile :
        (RsSent(l, v, t)' => RsSent(l, v, t)) /\ (RsRunning(l, v, t)' => RsRunning(l, v, t))
  BY <1>1, <1>3, <1>4 DEF RsSent, RsRunning
<1>6. ASSUME NEW s \in Rank, NEW p \in RsPos, Settled(s, p) PROVE Settled(s, p)'
  <2>1. CASE Notify(k, w)
    <3>1. work'[k][w] \in {"tail", "receive"} /\ rsTail' = rsTail
      BY <2>1 DEF Notify, rsQueue, TypeOK, WorkerTypeOK
    <3>. QED BY <1>3, <1>6, <3>1 DEF Settled, Placing
  <2>2. CASE ClaimTail(k, w)
    <3>1. PICK r \in Rank, n \in Nat : r = SignalRank(job[k][w].task, w) /\ n = rsTail[r]
      BY <2>2, EnqueuerFacts DEF ClaimTail, TypeOK, QueueTypeOK
    <3>2. job'[k][w].task = job[k][w].task /\ job'[k][w].pos = n
      BY <2>2, <3>1 DEF ClaimTail, TypeOK, WorkerTypeOK
    <3>3. rsTail'[r] = n + 1 /\ \A q \in Rank : q # r => rsTail'[q] = rsTail[q]
      BY <2>2, <3>1 DEF ClaimTail, TypeOK, QueueTypeOK
    <3>4. p \in Nat /\ p < rsTail[s] /\ rsTail[s] \in Nat
      BY <1>6, Sizes DEF Settled, RsPos, TypeOK, QueueTypeOK
    <3>5. p < rsTail'[s] /\ <<r, n>> # <<s, p>>
      BY <3>1, <3>3, <3>4
    <3>6. ~Placing(k, w, s, p)'
      BY <3>1, <3>2, <3>5 DEF Placing
    <3>7. \A l \in K, v \in Worker : ~Placing(l, v, s, p)'
      BY <1>3, <1>6, <3>6 DEF Settled, Placing
    <3>. QED BY <3>5, <3>7 DEF Settled
  <2>. QED BY <2>1, <2>2
<1>. QED BY <1>1, <1>2, <1>5, <1>6, GoneKept DEF TakeFrame, TakeInv, OneRsHolder, RsHolds

(* An index or a type is written to a position that is not settled, which    *)
(* nobody has taken.                                                         *)
LEMMA TakePlaced ==
  ASSUME TypeOK, HostInv, PlaceInv, TakeInv, NEW k \in K, NEW w \in Worker,
         WriteIndex(k, w) \/ ReleaseType(k, w)
  PROVE  TakeInv'
<1>0. PICK s \in Rank, n \in Nat : s = SignalRank(job[k][w].task, w) /\ n = job[k][w].pos
  BY EnqueuerFacts DEF WriteIndex, ReleaseType
<1>1. UNCHANGED <<rsHead, rsTail, out, pub, rsRem, headR, packet, unread, job>>
  BY DEF WriteIndex, ReleaseType, pubVars, data
<1>2. /\ work[k][w] \in {"index", "release"} /\ work'[k][w] \in {"release", "receive"}
      /\ \A l \in K, v \in Worker : <<l, v>> # <<k, w>> => work'[l][v] = work[l][v]
  BY OneWorker DEF WriteIndex, ReleaseType, Consumer, TypeOK, WorkerTypeOK
<1>3. n < rsTail[s] /\ n \in RsPos
  <2>1. n < rsTail[s] /\ rsTail[s] <= RS_COUNT /\ rsTail[s] \in Nat /\ RS_COUNT \in Nat
    BY <1>0, <1>2, Sizes DEF PlaceInv, TailBounded, TypeOK, QueueTypeOK
  <2>. QED BY <2>1 DEF RsPos
<1>4. Placing(k, w, s, n) /\ \A q, p : Placing(k, w, q, p) => q = s /\ p = n
  BY <1>0, <1>2 DEF Placing
<1>5. ~Settled(s, n) /\ ~Gone(s, n) /\ rsSlot[s][n] = None
  BY <1>3, <1>4 DEF Settled, TakeInv, GoneSettled
<1>6. \A r, p : Gone(r, p)' <=> Gone(r, p)
  BY <1>1, GoneKept DEF Claim
<1>7. \A l \in K, v \in Worker : \A q, p : Placing(l, v, q, p)' => Placing(l, v, q, p)
  BY <1>1, <1>2 DEF Placing
<1>8. \A q, p : Settled(q, p) => Settled(q, p)'
  BY <1>1, <1>7 DEF Settled
<1>9. /\ \A q \in Rank, p \in RsPos : <<q, p>> # <<s, n>> =>
           rsIdx'[q][p] = rsIdx[q][p] /\ rsSlot'[q][p] = rsSlot[q][p]
      /\ rsSlot'[s][n] # None => work[k][w] = "release"
  <2>1. CASE WriteIndex(k, w)
    BY <1>0, <1>5, <2>1 DEF WriteIndex, Indexed, TypeOK, QueueTypeOK
  <2>2. CASE ReleaseType(k, w)
    BY <1>0, <2>2 DEF ReleaseType, TypeOK, QueueTypeOK
  <2>. QED BY <2>1, <2>2
<1>10. work[k][w] = "release" => Settled(s, n)'
  <2>. SUFFICES ASSUME work[k][w] = "release" PROVE Settled(s, n)'
    OBVIOUS
  <2>1. work'[k][w] = "receive"
    BY DEF WriteIndex, ReleaseType, TypeOK, WorkerTypeOK
  <2>2. \A l \in K, v \in Worker : Placing(l, v, s, n) => l = k /\ v = w
    BY <1>3, <1>4 DEF PlaceInv, OnePlacer
  <2>3. \A l \in K, v \in Worker : ~Placing(l, v, s, n)'
    BY <1>7, <2>1, <2>2 DEF Placing
  <2>. QED BY <1>1, <1>3, <2>3 DEF Settled
<1>11. \A q \in Rank, t \in Tile : Served(q, t)' <=> Served(q, t)
  BY <1>5, <1>6, <1>9 DEF Served
<1>12. \A l \in K, v \in Worker, t \in Tile :
         /\ RsSent(l, v, t)' <=> RsSent(l, v, t)
         /\ RsRunning(l, v, t)' <=> RsRunning(l, v, t)
         /\ RsHolds(l, v, t)' <=> RsHolds(l, v, t)
  BY <1>1, <1>2 DEF RsSent, RsRunning, RsHolds
<1>13. GoneSettled'
  <2>. SUFFICES ASSUME NEW q \in Rank, NEW p \in RsPos
                PROVE  /\ Gone(q, p)' => Settled(q, p)' /\ rsSlot'[q][p] = None
                       /\ rsSlot'[q][p] # None => Settled(q, p)'
    BY DEF GoneSettled
  <2>1. CASE <<q, p>> = <<s, n>>
    BY <1>5, <1>6, <1>9, <1>10, <2>1
  <2>2. CASE <<q, p>> # <<s, n>>
    BY <1>6, <1>8, <1>9, <2>2 DEF TakeInv, GoneSettled
  <2>. QED BY <2>1, <2>2
<1>14. OneRsHolder'
  BY <1>12 DEF TakeInv, OneRsHolder
<1>15. \A l \in K : l[1] \in Rank
  BY DEF K
<1>16. HeldOnce'
  BY <1>1, <1>11, <1>12, <1>15 DEF TakeInv, HeldOnce
<1>. QED BY <1>13, <1>14, <1>16 DEF TakeInv

(* A worker of a cluster reduces the share it holds, which it alone held.    *)
LEMMA TakeReduce ==
  ASSUME TypeOK, HostInv, TakeInv, NEW k \in K, NEW w \in Worker, ReduceShare(k, w)
  PROVE  TakeInv'
<1>0. PICK r \in Rank, u \in Tile : r = k[1] /\ u = job[k][w].task
  BY JobFacts DEF ReduceShare, K, TypeOK, WorkerTypeOK
<1>1. /\ UNCHANGED <<rsHead, rsTail, rsSlot, rsIdx, pub, rsRem, headR, packet, unread, job>>
      /\ RsRunning(k, w, u)
  BY <1>0 DEF ReduceShare, rsQueue, pubVars, RsRunning
<1>2. /\ work'[k][w] = "receive"
      /\ \A l \in K, v \in Worker : <<l, v>> # <<k, w>> => work'[l][v] = work[l][v]
  BY OneWorker DEF ReduceShare, Consumer, TypeOK, WorkerTypeOK
<1>3. ASSUME NEW q \in Rank, NEW v \in Worker, NEW t \in Tile, q # r \/ v # w \/ t # u
      PROVE  out'[q][Share(t, v)] = out[q][Share(t, v)]
  <2>1. \E x : out' = [out EXCEPT ![r][Share(u, w)] = x]
    BY <1>0 DEF ReduceShare, Share
  <2>2. q # r \/ Share(t, v) # Share(u, w)
    BY <1>3 DEF Share, Worker
  <2>3. Share(t, v) \in Part /\ Share(u, w) \in Part
    BY DEF Share, Part, Worker
  <2>. QED BY <2>1, <2>2, <2>3 DEF TypeOK, DataTypeOK
<1>4. EnqueueFrame
  BY FrameWorker
<1>5. /\ \A q, p : (Gone(q, p)' <=> Gone(q, p)) /\ (Settled(q, p)' <=> Settled(q, p))
      /\ \A q, t : Served(q, t)' <=> Served(q, t)
  BY <1>1, <1>4, GoneKept, SettledKept DEF Claim, Served
<1>6. \A l \in K, v \in Worker, t \in Tile :
        /\ RsSent(l, v, t)' <=> RsSent(l, v, t)
        /\ RsRunning(l, v, t)' <=> RsRunning(l, v, t) /\ <<l, v>> # <<k, w>>
        /\ RsHolds(l, v, t)' => RsHolds(l, v, t)
  BY <1>1, <1>2 DEF RsSent, RsRunning, RsHolds
<1>7. RsHolds(k, w, u) /\ Served(r, u) /\ ~RsSent(k, w, u)
  BY <1>0, <1>1 DEF RsHolds, TakeInv, HeldOnce, OneRsHolder
<1>8. GoneSettled'
  BY <1>1, <1>5 DEF TakeInv, GoneSettled
<1>9. OneRsHolder'
  BY <1>6 DEF TakeInv, OneRsHolder
<1>10. ASSUME NEW l \in K, NEW v \in Worker, NEW t \in Tile, RsHolds(l, v, t)'
       PROVE  Served(l[1], t)' /\ out'[l[1]][Share(t, v)] = {}
  <2>1. l[1] \in Rank /\ RsHolds(l, v, t) /\ Served(l[1], t) /\ out[l[1]][Share(t, v)] = {}
    BY <1>6, <1>10 DEF TakeInv, HeldOnce, K
  <2>2. ~(l[1] = r /\ v = w /\ t = u)
    <3>1. CASE l = k
      BY <1>6, <1>7, <1>10, <3>1 DEF RsHolds
    <3>2. CASE l # k
      BY <1>0, <1>7, <2>1, <3>2 DEF TakeInv, OneRsHolder
    <3>. QED BY <3>1, <3>2
  <2>. QED BY <1>3, <1>5, <2>1, <2>2
<1>11. ASSUME NEW q \in Rank, NEW v \in Worker, NEW t \in Tile, out'[q][Share(t, v)] # {}
       PROVE  Served(q, t)'
  BY <1>3, <1>5, <1>7, <1>11 DEF TakeInv, HeldOnce
<1>12. HeldOnce'
  BY <1>10, <1>11 DEF HeldOnce
<1>. QED BY <1>8, <1>9, <1>12 DEF TakeInv

(* A cluster takes the slot it claims: the tile in it was never held.        *)
LEMMA TakeTake ==
  ASSUME TypeOK, HostInv, ClaimInv, PlaceInv, TakeInv, NEW k \in K, TakeRS(k)
  PROVE  TakeInv'
<1>0. PICK r \in Rank, p \in RsPos, u \in Tile :
        r = k[1] /\ p = headR[k] /\ u = rsIdx[r][p]
  BY DEF TakeRS, K, TypeOK, PublisherTypeOK, QueueTypeOK
<1>1. /\ pub[k] = "load" /\ rsSlot[r][p] # None
      /\ UNCHANGED <<rsHead, rsTail, rsIdx, out, work, job>>
      /\ packet'[k].type = RS /\ packet'[k].task = u /\ unread'[k] = Worker
      /\ \A l \in K : l # k => packet'[l] = packet[l] /\ unread'[l] = unread[l]
  BY <1>0 DEF TakeRS, Publish, data, workVars, TypeOK, PublisherTypeOK
<1>2. Claim(k) = p /\ p >= 0 /\ p < rsHead[r]
  <2>1. Claim(k) = p
    BY <1>0, <1>1 DEF Claim
  <2>. QED BY <1>0, <2>1, Sizes DEF ClaimInv, RsPos
<1>3. Claim(k)' = -1 /\ \A l \in K : l # k => Claim(l)' = Claim(l)
  BY ClaimKeptOrDropped
<1>4. rsSlot'[r][p] = None
      /\ \A q \in Rank, x \in RsPos : <<q, x>> # <<r, p>> => rsSlot'[q][x] = rsSlot[q][x]
  BY <1>0 DEF TakeRS, Emptied, TypeOK, QueueTypeOK
<1>5. Settled(r, p) /\ ~Gone(r, p)
  BY <1>0, <1>1, <1>2 DEF TakeInv, GoneSettled, Gone
<1>6. Gone(r, p)'
  <2>1. \A l \in K : l[1] = r => Claim(l)' # p
    BY <1>0, <1>2, <1>3 DEF ClaimInv, ClaimsExclusive
  <2>. QED BY <1>1, <1>2, <2>1 DEF Gone
<1>7. \A q \in Rank, x \in RsPos : <<q, x>> # <<r, p>> => (Gone(q, x)' <=> Gone(q, x))
  <2>1. \A x \in RsPos : x # -1
    BY Sizes DEF RsPos
  <2>2. \A q \in Rank, x \in RsPos, l \in K :
          <<q, x>> # <<r, p>> /\ l[1] = q => (Claim(l)' # x <=> Claim(l) # x)
    BY <1>0, <1>2, <1>3, <2>1
  <2>. QED BY <1>1, <2>2 DEF Gone
<1>8. \A q, x : Settled(q, x)' <=> Settled(q, x)
  BY <1>1 DEF Settled, Placing
<1>9. ~Served(r, u)
  <2>. SUFFICES ASSUME NEW x \in RsPos, Gone(r, x), rsIdx[r][x] = u PROVE FALSE
    BY DEF Served
  <2>1. Settled(r, x)
    BY DEF TakeInv, GoneSettled
  <2>2. Written(r, x) /\ Written(r, p)
    BY <1>5, <2>1 DEF Settled, Written
  <2>3. x = p
    BY <1>0, <2>2 DEF PlaceInv, PlacedOnce
  <2>. QED BY <1>5, <2>3
<1>10. Served(r, u)' /\ \A q \in Rank, t \in Tile : Served(q, t) => Served(q, t)'
  <2>1. Served(r, u)'
    BY <1>0, <1>1, <1>6 DEF Served
  <2>2. ASSUME NEW q \in Rank, NEW x \in RsPos, Gone(q, x) PROVE Gone(q, x)'
    BY <1>5, <1>7, <2>2
  <2>. QED BY <1>1, <2>1, <2>2 DEF Served
<1>11. \A l \in K, v \in Worker, t \in Tile :
         /\ RsRunning(l, v, t)' <=> RsRunning(l, v, t)
         /\ RsSent(l, v, t)' => RsSent(l, v, t) \/ (l = k /\ t = u)
         /\ RsHolds(l, v, t)' => RsHolds(l, v, t) \/ (l = k /\ t = u)
  BY <1>1 DEF RsRunning, RsSent, RsHolds
<1>12. \A l \in K, v \in Worker : l[1] = r => ~RsHolds(l, v, u)
  BY <1>9 DEF TakeInv, HeldOnce
<1>13. \A v \in Worker : out[r][Share(u, v)] = {}
  BY <1>9 DEF TakeInv, HeldOnce
<1>14. GoneSettled'
  <2>. SUFFICES ASSUME NEW q \in Rank, NEW x \in RsPos
                PROVE  /\ Gone(q, x)' => Settled(q, x)' /\ rsSlot'[q][x] = None
                       /\ rsSlot'[q][x] # None => Settled(q, x)'
    BY DEF GoneSettled
  <2>1. CASE <<q, x>> = <<r, p>>
    BY <1>4, <1>5, <1>8, <2>1
  <2>2. CASE <<q, x>> # <<r, p>>
    BY <1>4, <1>7, <1>8, <2>2 DEF TakeInv, GoneSettled
  <2>. QED BY <2>1, <2>2
<1>15. OneRsHolder'
  <2>1. ASSUME NEW l \in K, NEW v \in Worker, NEW t \in Tile
        PROVE  ~(RsSent(l, v, t)' /\ RsRunning(l, v, t)')
    <3>1. RsRunning(l, v, t) => RsHolds(l, v, t)
      BY DEF RsHolds
    <3>. QED BY <1>0, <1>11, <1>12, <3>1 DEF TakeInv, OneRsHolder
  <2>2. \A l, m \in K, v \in Worker, t \in Tile :
          RsHolds(l, v, t)' /\ RsHolds(m, v, t)' /\ l[1] = m[1] => l = m
    BY <1>0, <1>11, <1>12 DEF TakeInv, OneRsHolder
  <2>. QED BY <2>1, <2>2 DEF OneRsHolder
<1>16. \A l \in K : l[1] \in Rank
  BY DEF K
<1>17. HeldOnce'
  <2>1. ASSUME NEW l \in K, NEW v \in Worker, NEW t \in Tile, RsHolds(l, v, t)'
        PROVE  Served(l[1], t)' /\ out'[l[1]][Share(t, v)] = {}
    <3>1. CASE RsHolds(l, v, t)
      BY <1>1, <1>10, <1>16, <3>1 DEF TakeInv, HeldOnce
    <3>2. CASE l = k /\ t = u
      BY <1>0, <1>1, <1>10, <1>13, <3>2
    <3>. QED BY <1>11, <2>1, <3>1, <3>2
  <2>2. \A q \in Rank, v \in Worker, t \in Tile : out'[q][Share(t, v)] # {} => Served(q, t)'
    BY <1>1, <1>10 DEF TakeInv, HeldOnce
  <2>. QED BY <2>1, <2>2 DEF HeldOnce
<1>. QED BY <1>14, <1>15, <1>17 DEF TakeInv

LEMMA TakeStep ==
  ASSUME TypeOK, HostInv, ClaimInv, PlaceInv, TakeInv, [Next]_vars
  PROVE  TakeInv'
<1>1. CASE \/ UNCHANGED vars \/ ResetBarrier \/ PrepareBarrier
           \/ \E r \in Rank : Launch(r) \/ KernelDone(r)
           \/ \E k \in K : ExitArrive(k) \/ ExitLeave(k)
           \/ \E r, q \in Rank : DeliverRed(r, q)
  BY <1>1, TakeHost, TakeFramed
<1>2. ASSUME NEW r \in Rank, Clear(r) PROVE TakeInv'
  BY <1>2, TakeClear
<1>3. ASSUME NEW k \in K, Publisher(k) PROVE TakeInv'
  BY <1>3, TakeClaim, TakePublish, TakeTake, TakeFramed DEF Publisher
<1>4. ASSUME NEW k \in K, NEW w \in Worker, Consumer(k, w) PROVE TakeInv'
  BY <1>4, TakeWorker, TakeNotify, TakePlaced, TakeReduce, TakeFramed DEF Consumer
<1>. QED BY <1>1, <1>2, <1>3, <1>4 DEF Next

----------------------------------------------------------------------------
LEMMA QueueInvariant == Spec => [](IInv /\ QueueInv)
<1>1. Init => IInv /\ QueueInv
  BY InvInit, ClaimInit, PlaceInit, TakeInit DEF QueueInv
<1>2. ASSUME IInv, QueueInv, [Next]_vars PROVE (IInv /\ QueueInv)'
  <2>1. TypeOK /\ HostInv /\ (~Clearing => GemmInv /\ SemInv /\ RsInv)
    BY <1>2 DEF IInv
  <2>2. IInv'
    BY <1>2, InvStep
  <2>. QED BY <1>2, <2>1, <2>2, ClaimStep, PlaceStep, TakeStep DEF QueueInv
<1>. QED BY <1>1, <1>2, PTL DEF Spec

(* No two clusters of a rank ever wait on one position of the RS queue: the  *)
(* position a publisher carries between polls (rs_rem) is its own            *)
(* (RSMPMCQueue.dequeue).                                                    *)
THEOREM ClaimsAreExclusive == Spec => []ClaimsExclusive
<1>1. QueueInv => ClaimsExclusive
  BY DEF QueueInv, ClaimInv
<1>. QED BY <1>1, QueueInvariant, PTL

(* No GEMM task and no RS task is executed twice in a launch: a worker about *)
(* to store or to reduce finds its part not yet written.                     *)
THEOREM EveryTaskRunsOnce == Spec => []TasksRunOnce
<1>1. IInv /\ QueueInv => TasksRunOnce
  <2>. SUFFICES ASSUME IInv, QueueInv, NEW k \in K, NEW w \in Worker, work[k][w] = "work",
                       NEW t, t = job[k][w].task
                PROVE  /\ job[k][w].type = GEMM => HalfTile(t, w) \notin gemm_out[k[1]]
                       /\ job[k][w].type = RS => out[k[1]][Share(t, w)] = {}
    BY DEF TasksRunOnce, HalfTile, Share
  <2>1. TypeOK /\ HostInv /\ (~Clearing => GemmInv) /\ TakeInv
    BY DEF IInv, QueueInv
  <2>2. GemmInv
    BY <2>1, AtWork
  <2>3. job[k][w].type = GEMM => t \in GemmTask /\ Running(k, w, t)
    BY <2>1, JobFacts DEF Running, TypeOK, WorkerTypeOK
  <2>4. job[k][w].type = RS => t \in Tile /\ RsRunning(k, w, t)
    BY <2>1, JobFacts DEF RsRunning, TypeOK, WorkerTypeOK
  <2>. QED BY <2>1, <2>2, <2>3, <2>4 DEF GemmInv, Holds, TakeInv, HeldOnce, RsHolds
<1>. QED BY <1>1, QueueInvariant, PTL

----------------------------------------------------------------------------
(* The exit barrier: who has been heard of, and who is still in the loop.     *)
LEMMA LeftFacts ==
  /\ NUM_CLUSTERS \in Nat \ {0}
  /\ \A r : /\ IsFiniteSet(Left(r)) /\ Cardinality(Left(r)) \in Nat
            /\ Cardinality(Left(r)) <= NUM_CLUSTERS
            /\ Cardinality(Left(r)) = NUM_CLUSTERS <=> Left(r) = Cluster
<1>1. NUM_CLUSTERS \in Nat \ {0}
  BY SetsAssumption, FS_CardinalityType, FS_EmptySet DEF NUM_CLUSTERS
<1>2. ASSUME NEW r
      PROVE  /\ IsFiniteSet(Left(r)) /\ Cardinality(Left(r)) \in Nat
             /\ Cardinality(Left(r)) <= NUM_CLUSTERS
             /\ Cardinality(Left(r)) = NUM_CLUSTERS <=> Left(r) = Cluster
  <2>1. Left(r) \in SUBSET Cluster
    BY DEF Left
  <2>2. IsFiniteSet(Left(r)) /\ Cardinality(Left(r)) <= NUM_CLUSTERS
        /\ (Cardinality(Left(r)) = NUM_CLUSTERS => Left(r) = Cluster)
    BY <2>1, SetsAssumption, FS_Subset DEF NUM_CLUSTERS
  <2>. QED BY <2>2, FS_CardinalityType DEF NUM_CLUSTERS
<1>. QED BY <1>1, <1>2

LEMMA HeardFacts ==
  \A q : /\ IsFiniteSet(Heard(q)) /\ Cardinality(Heard(q)) \in Nat
         /\ Cardinality(Heard(q)) = WORLD_SIZE <=> Heard(q) = Rank
<1>1. IsFiniteSet(Rank) /\ Cardinality(Rank) = WORLD_SIZE
  BY WorldAssumption, FS_Interval DEF Rank
<1>2. \A q : Heard(q) \in SUBSET Rank
  BY DEF Heard
<1>. QED BY <1>1, <1>2, FS_Subset, FS_CardinalityType

(* What a rank that has returned knows: every rank has arrived.              *)
LEMMA HeardOfAll ==
  ASSUME TypeOK, ExitInv, ~Clearing, NEW q \in Rank, exitRank[q] = WORLD_SIZE
  PROVE  \A r \in Rank : Arrived(r) /\ q \notin redTo[r]
<1>1. Heard(q) = Rank
  BY HeardFacts DEF ExitInv, ExitRankInv
<1>. QED BY <1>1 DEF Heard

LEMMA ReturnedHeard ==
  ASSUME TypeOK, ExitInv, ~Clearing, NEW q \in Rank, host[q] = "idle", WORLD_SIZE > 1
  PROVE  exitRank[q] = WORLD_SIZE
<1>1. Left(q) = Cluster /\ \A c \in Cluster : cluster[<<q, c>>] # "spin"
  BY DEF ExitInv, ExitLocalInv, Left
<1>2. Arrived(q)
  BY <1>1, LeftFacts DEF ExitInv, ExitLocalInv, Arrived
<1>. QED BY <1>1, <1>2 DEF ExitInv, ExitRankInv

LEMMA ExitInit == Init => ExitInv
<1>. SUFFICES ASSUME Init PROVE ExitInv
  OBVIOUS
<1>1. Clearing
  <2>1. host[0] = "cleared" /\ 0 \in Rank
    BY Sizes DEF Init
  <2>. QED BY <2>1 DEF Clearing
<1>2. \A r \in Rank : ~Arrived(r)
  BY LeftFacts DEF Init, Arrived
<1>. QED BY <1>1, <1>2 DEF Init, ExitInv, ExitLocalInv, ExitRankInv

LEMMA ExitFramed ==
  ASSUME ExitInv, UNCHANGED <<host, cluster, exitLocal, exitRank, redTo>>
  PROVE  ExitInv'
<1>1. \A r : Left(r)' = Left(r) /\ (Arrived(r)' <=> Arrived(r)) /\ Heard(r)' = Heard(r)
  BY DEF Left, Arrived, Heard
<1>2. Clearing' <=> Clearing
  BY DEF Clearing
<1>. QED BY <1>1, <1>2 DEF ExitInv, ExitLocalInv, ExitRankInv

LEMMA ExitReset ==
  ASSUME TypeOK, HostInv, ExitInv, ResetBarrier
  PROVE  ExitInv'
<1>1. /\ \A r \in Rank : host[r] = "idle" /\ host'[r] = "clearing"
      /\ UNCHANGED <<cluster, exitLocal, exitRank, redTo>>
  BY DEF ResetBarrier, EveryRankAt, exitVars
<1>2. ~Clearing
  BY <1>1 DEF Clearing
<1>3. Clearing'
  BY <1>1, WorldAssumption DEF Clearing, Rank
<1>4. ASSUME NEW r \in Rank PROVE redTo[r] = {}
  <2>1. CASE WORLD_SIZE > 1
    <3>1. \A q \in Rank : q \notin redTo[r]
      BY <1>1, <1>2, <2>1, ReturnedHeard, HeardOfAll
    <3>. QED BY <3>1 DEF TypeOK, HostTypeOK
  <2>2. CASE ~(WORLD_SIZE > 1)
    BY <1>1, <2>2, LeftFacts DEF ExitInv, ExitLocalInv, Arrived
  <2>. QED BY <2>1, <2>2
<1>5. \A r \in Rank : \A c \in Cluster : cluster[<<r, c>>] = "done"
  BY <1>1 DEF ExitInv, ExitLocalInv
<1>. QED BY <1>1, <1>3, <1>4, <1>5 DEF ExitInv, ExitLocalInv, ExitRankInv

LEMMA ExitClear ==
  ASSUME TypeOK, HostInv, ExitInv, NEW r \in Rank, Clear(r)
  PROVE  ExitInv'
<1>1. /\ host[r] = "clearing" /\ host' = [host EXCEPT ![r] = "cleared"]
      /\ exitLocal' = [exitLocal EXCEPT ![r] = 0] /\ exitRank' = [exitRank EXCEPT ![r] = 0]
      /\ UNCHANGED <<redTo, cluster>>
  BY DEF Clear
<1>2. Clearing /\ \A q \in Rank : host[q] \in {"clearing", "cleared"}
  BY <1>1 DEF Clearing, HostInv
<1>3. \A q \in Rank : host'[q] \in {"clearing", "cleared"}
  BY <1>1, <1>2 DEF TypeOK, HostTypeOK
<1>4. Clearing' /\ \A q \in Rank : redTo'[q] = {}
  BY <1>1, <1>2, <1>3 DEF Clearing, ExitInv, ExitRankInv
<1>5. ExitLocalInv'
  BY <1>1, <1>3, <1>4 DEF ExitInv, ExitLocalInv, TypeOK, HostTypeOK
<1>6. ExitRankInv'
  BY <1>3, <1>4 DEF ExitRankInv
<1>. QED BY <1>5, <1>6 DEF ExitInv

LEMMA ExitPrepare ==
  ASSUME TypeOK, HostInv, ExitInv, PrepareBarrier
  PROVE  ExitInv'
<1>1. /\ \A r \in Rank : host[r] = "cleared" /\ host'[r] = "ready"
      /\ UNCHANGED <<cluster, exitLocal, exitRank, redTo>>
  BY DEF PrepareBarrier, EveryRankAt, exitVars
<1>2. Clearing
  BY <1>1, WorldAssumption DEF Clearing, Rank
<1>3. \A r \in Rank : ~Arrived(r)' /\ redTo'[r] = {} /\ exitRank'[r] = 0 /\ exitLocal'[r] = 0
  BY <1>1, <1>2, LeftFacts DEF ExitInv, ExitLocalInv, ExitRankInv, Arrived
<1>4. \A q \in Rank : Heard(q)' = {}
  BY <1>3 DEF Heard
<1>5. ~Clearing'
  BY <1>1 DEF Clearing
<1>. QED BY <1>1, <1>3, <1>4, <1>5, FS_EmptySet DEF ExitInv, ExitLocalInv, ExitRankInv

LEMMA ExitLaunch ==
  ASSUME TypeOK, HostInv, ExitInv, NEW r \in Rank, Launch(r)
  PROVE  ExitInv'
<1>1. /\ host[r] = "ready" /\ host' = [host EXCEPT ![r] = "running"]
      /\ cluster' = [k \in K |-> IF k[1] = r THEN "run" ELSE cluster[k]]
      /\ UNCHANGED <<exitLocal, exitRank, redTo>>
  BY DEF Launch
<1>2. ~Clearing /\ ~Clearing'
  BY <1>1 DEF Clearing, HostInv, TypeOK, HostTypeOK
<1>3. \A q \in Rank, c \in Cluster : cluster'[<<q, c>>] = IF q = r THEN "run" ELSE cluster[<<q, c>>]
  BY <1>1 DEF K
<1>4. /\ Left(r)' = {} /\ \A q \in Rank : q # r => Left(q)' = Left(q)
      /\ \A q \in Rank : (Arrived(q)' <=> Arrived(q)) /\ Heard(q)' = Heard(q)
  BY <1>1, <1>3 DEF Left, Arrived, Heard
<1>5. ~Arrived(r) /\ exitLocal[r] = 0
  BY <1>1, LeftFacts DEF ExitInv, ExitLocalInv, Arrived
<1>6. ASSUME NEW q \in Rank
      PROVE  /\ q # r => host'[q] = host[q] /\ \A c \in Cluster : cluster'[<<q, c>>] = cluster[<<q, c>>]
             /\ q = r => host'[q] = "running"
  BY <1>1, <1>3 DEF TypeOK, HostTypeOK
<1>7. ExitLocalInv'
  BY <1>1, <1>4, <1>5, <1>6, FS_EmptySet DEF ExitInv, ExitLocalInv
<1>8. ExitRankInv'
  BY <1>1, <1>2, <1>4, <1>5, <1>6 DEF ExitInv, ExitRankInv
<1>. QED BY <1>7, <1>8 DEF ExitInv

LEMMA ExitDone ==
  ASSUME TypeOK, HostInv, ExitInv, NEW r \in Rank, KernelDone(r)
  PROVE  ExitInv'
<1>1. /\ host[r] = "running" /\ host' = [host EXCEPT ![r] = "idle"]
      /\ \A c \in Cluster : cluster[<<r, c>>] = "done"
      /\ UNCHANGED <<cluster, exitLocal, exitRank, redTo>>
  BY DEF KernelDone, K, exitVars
<1>2. ~Clearing /\ ~Clearing'
  BY <1>1 DEF Clearing, HostInv, TypeOK, HostTypeOK
<1>3. \A q \in Rank : Left(q)' = Left(q) /\ (Arrived(q)' <=> Arrived(q)) /\ Heard(q)' = Heard(q)
  BY <1>1 DEF Left, Arrived, Heard
<1>4. ASSUME NEW q \in Rank
      PROVE  (q # r => host'[q] = host[q]) /\ (q = r => host'[q] = "idle")
  BY <1>1 DEF TypeOK, HostTypeOK
<1>. QED BY <1>1, <1>2, <1>3, <1>4 DEF ExitInv, ExitLocalInv, ExitRankInv

LEMMA ExitArriveKeeps ==
  ASSUME TypeOK, HostInv, ExitInv, NEW k \in K, ExitArrive(k)
  PROVE  ExitInv'
<1>. PICK r \in Rank, c \in Cluster : k = <<r, c>>
  BY DEF K
<1>1. /\ cluster[k] = "run" /\ host[r] = "running" /\ ~Clearing
      /\ UNCHANGED <<host, exitRank>>
  BY AtWork DEF ExitArrive
<1>2. ~Clearing'
  BY <1>1 DEF Clearing
<1>3. CASE WORLD_SIZE = 1
  <2>1. cluster' = [cluster EXCEPT ![k] = "done"] /\ UNCHANGED <<exitLocal, redTo>>
    BY <1>3 DEF ExitArrive
  <2>2. \A q \in Rank : (Arrived(q)' <=> Arrived(q)) /\ Heard(q)' = Heard(q)
    BY <2>1 DEF Arrived, Heard
  <2>3. \A q \in Rank, d \in Cluster :
          /\ cluster[<<q, d>>] = "spin" => cluster'[<<q, d>>] = "spin"
          /\ cluster[<<q, d>>] = "done" => cluster'[<<q, d>>] = "done"
    BY <1>1, <2>1 DEF TypeOK, HostTypeOK, K
  <2>. QED BY <1>1, <1>2, <1>3, <2>1, <2>2, <2>3 DEF ExitInv, ExitLocalInv, ExitRankInv
<1>4. CASE WORLD_SIZE # 1
  <2>. DEFINE last == exitLocal[r] + 1 = NUM_CLUSTERS
  <2>0. WORLD_SIZE > 1
    BY <1>4, WorldAssumption
  <2>1. /\ cluster' = [cluster EXCEPT ![k] = IF last THEN "spin" ELSE "done"]
        /\ exitLocal' = [exitLocal EXCEPT ![r] = @ + 1]
        /\ redTo' = IF last THEN [redTo EXCEPT ![r] = Rank] ELSE redTo
    BY <1>4 DEF ExitArrive
  <2>2. \A q \in Rank, d \in Cluster :
          cluster'[<<q, d>>] = IF <<q, d>> = k THEN (IF last THEN "spin" ELSE "done")
                               ELSE cluster[<<q, d>>]
    BY <2>1 DEF TypeOK, HostTypeOK, K
  <2>3. Left(r)' = Left(r) \cup {c} /\ c \notin Left(r) /\ \A q \in Rank : q # r => Left(q)' = Left(q)
    BY <1>1, <2>2 DEF Left
  <2>4. exitLocal[r] = Cardinality(Left(r)) /\ exitLocal[r] \in Nat
    BY <1>1, <2>0, LeftFacts DEF ExitInv, ExitLocalInv
  <2>5. Cardinality(Left(r)') = exitLocal[r] + 1
    <3>1. IsFiniteSet(Left(r)) /\ c \notin Left(r)
      BY <1>1, <2>3, LeftFacts
    <3>2. Cardinality(Left(r) \cup {c}) = Cardinality(Left(r)) + 1
      BY <3>1, FS_AddElement
    <3>. QED BY <2>3, <2>4, <3>2
  <2>6. exitLocal'[r] = exitLocal[r] + 1 /\ \A q \in Rank : q # r => exitLocal'[q] = exitLocal[q]
    BY <2>1 DEF TypeOK, HostTypeOK
  <2>7. /\ ~Arrived(r) /\ (Arrived(r)' <=> last)
        /\ \A q \in Rank : q # r => (Arrived(q)' <=> Arrived(q))
    <3>1. Left(r) # Cluster
      BY <2>3
    <3>2. exitLocal[r] # NUM_CLUSTERS
      BY <2>4, <3>1, LeftFacts
    <3>. QED BY <2>6, <3>2 DEF Arrived
  <2>8. \A q \in Rank : q # r => redTo'[q] = redTo[q]
    BY <2>1 DEF TypeOK, HostTypeOK
  <2>9. redTo[r] = {} /\ (last => redTo'[r] = Rank) /\ (~last => redTo'[r] = {})
    BY <2>1, <2>7 DEF ExitInv, ExitLocalInv, TypeOK, HostTypeOK
  <2>10. \A q \in Rank : Heard(q)' = Heard(q)
    BY <2>7, <2>8, <2>9 DEF Heard
  <2>11. ExitLocalInv'
    BY <1>1, <2>0, <2>2, <2>3, <2>5, <2>6, <2>7, <2>8, <2>9 DEF ExitInv, ExitLocalInv
  <2>12. ExitRankInv'
    <3>1. ASSUME NEW q \in Rank, Arrived(q)', host'[q] \in {"running", "idle"}
          PROVE  exitRank'[q] = WORLD_SIZE \/ \E d \in Cluster : cluster'[<<q, d>>] = "spin"
      <4>1. CASE q = r
        BY <2>2, <2>7, <3>1, <4>1
      <4>2. CASE q # r
        BY <1>1, <2>2, <2>7, <3>1, <4>2 DEF ExitInv, ExitRankInv
      <4>. QED BY <4>1, <4>2
    <3>. QED BY <1>1, <1>2, <2>10, <3>1 DEF ExitInv, ExitRankInv
  <2>. QED BY <2>11, <2>12 DEF ExitInv
<1>. QED BY <1>3, <1>4

LEMMA ExitLeaveKeeps ==
  ASSUME TypeOK, HostInv, ExitInv, NEW k \in K, ExitLeave(k)
  PROVE  ExitInv'
<1>. PICK r \in Rank, c \in Cluster : k = <<r, c>>
  BY DEF K
<1>1. /\ cluster[k] = "spin" /\ exitRank[r] = WORLD_SIZE
      /\ cluster' = [cluster EXCEPT ![k] = "done"]
      /\ UNCHANGED <<host, exitLocal, exitRank, redTo>>
  BY DEF ExitLeave, EveryRankArrived
<1>2. \A q \in Rank, d \in Cluster :
        cluster'[<<q, d>>] = IF <<q, d>> = k THEN "done" ELSE cluster[<<q, d>>]
  BY <1>1 DEF TypeOK, HostTypeOK, K
<1>3. \A q \in Rank : Left(q)' = Left(q) /\ (Arrived(q)' <=> Arrived(q)) /\ Heard(q)' = Heard(q)
  BY <1>1, <1>2 DEF Left, Arrived, Heard
<1>4. Clearing' <=> Clearing
  BY <1>1 DEF Clearing
<1>. QED BY <1>1, <1>2, <1>3, <1>4 DEF ExitInv, ExitLocalInv, ExitRankInv

LEMMA ExitDeliver ==
  ASSUME TypeOK, HostInv, ExitInv, NEW r \in Rank, NEW q \in Rank, DeliverRed(r, q)
  PROVE  ExitInv'
<1>1. /\ q \in redTo[r] /\ redTo' = [redTo EXCEPT ![r] = @ \ {q}]
      /\ exitRank' = [exitRank EXCEPT ![q] = @ + 1]
      /\ UNCHANGED <<host, exitLocal, cluster>>
  BY DEF DeliverRed
<1>2. ~Clearing /\ ~Clearing' /\ Arrived(r)
  BY <1>1 DEF Clearing, ExitInv, ExitLocalInv, ExitRankInv
<1>3. \A p \in Rank : Left(p)' = Left(p) /\ (Arrived(p)' <=> Arrived(p))
  BY <1>1 DEF Left, Arrived
<1>4. \A p \in Rank : redTo'[p] = IF p = r THEN redTo[r] \ {q} ELSE redTo[p]
  BY <1>1 DEF TypeOK, HostTypeOK
<1>5. \A p \in Rank : exitRank'[p] = IF p = q THEN exitRank[q] + 1 ELSE exitRank[p]
  BY <1>1 DEF TypeOK, HostTypeOK
<1>6. r \notin Heard(q) /\ Heard(q)' = Heard(q) \cup {r} /\ \A p \in Rank : p # q => Heard(p)' = Heard(p)
  BY <1>1, <1>2, <1>3, <1>4 DEF Heard
<1>7. Cardinality(Heard(q)') = Cardinality(Heard(q)) + 1
  BY <1>6, HeardFacts, FS_AddElement
<1>8. \A p \in Rank : exitRank'[p] = Cardinality(Heard(p)')
  BY <1>2, <1>5, <1>6, <1>7 DEF ExitInv, ExitRankInv
<1>9. exitRank[q] # WORLD_SIZE
  BY <1>1, <1>2, HeardOfAll
<1>10. ExitLocalInv'
  BY <1>1, <1>2, <1>3, <1>4 DEF ExitInv, ExitLocalInv, Clearing
<1>11. ExitRankInv'
  BY <1>1, <1>2, <1>3, <1>5, <1>8, <1>9 DEF ExitInv, ExitRankInv
<1>. QED BY <1>10, <1>11 DEF ExitInv

LEMMA ExitStep ==
  ASSUME TypeOK, HostInv, ExitInv, [Next]_vars
  PROVE  ExitInv'
<1>1. CASE UNCHANGED vars
  BY <1>1, ExitFramed DEF vars
<1>2. ASSUME NEW k \in K, Publisher(k) PROVE ExitInv'
  BY <1>2, ExitFramed DEF Publisher, ClaimRS, MissRS, TakeRS, ClaimGEMM, TakeGEMM, exitVars
<1>3. ASSUME NEW k \in K, NEW w \in Worker, Consumer(k, w) PROVE ExitInv'
  BY <1>3, ExitFramed DEF Consumer, Receive, ReduceShare, StoreTile, Notify, ClaimTail,
                          WriteIndex, ReleaseType, exitVars
<1>. QED BY <1>1, <1>2, <1>3, ExitReset, ExitClear, ExitPrepare, ExitLaunch, ExitDone,
            ExitArriveKeeps, ExitLeaveKeeps, ExitDeliver DEF Next

LEMMA ExitInvariant == Spec => [](TypeOK /\ HostInv /\ ExitInv)
<1>1. Init => TypeOK /\ HostInv /\ ExitInv
  BY TypeInit, HostInit, ExitInit
<1>2. TypeOK /\ HostInv /\ ExitInv /\ [Next]_vars => (TypeOK /\ HostInv /\ ExitInv)'
  BY TypeStep, HostStep, ExitStep
<1>. QED BY <1>1, <1>2, PTL DEF Spec

LEMMA PeersDone ==
  ASSUME TypeOK, HostInv, ExitInv, NEW r \in Rank, host[r] = "idle", NEW k \in K
  PROVE  cluster[k] \in {"spin", "done"} /\ host[k[1]] \in {"running", "idle"} /\ Left(k[1]) = Cluster
<1>. PICK q \in Rank, c \in Cluster : k = <<q, c>>
  BY DEF K
<1>1. ~Clearing
  BY DEF HostInv
<1>2. CASE WORLD_SIZE > 1
  <2>1. Arrived(q)
    BY <1>1, <1>2, ReturnedHeard, HeardOfAll
  <2>2. host[q] \notin {"cleared", "ready", "clearing"}
    BY <1>1, <2>1, LeftFacts DEF ExitInv, ExitLocalInv, Arrived, Clearing
  <2>3. host[q] \in {"running", "idle"}
    BY <2>2 DEF TypeOK, HostTypeOK
  <2>4. Left(q) = Cluster
    BY <1>2, <2>1, <2>3, LeftFacts DEF ExitInv, ExitLocalInv, Arrived
  <2>. QED BY <2>3, <2>4 DEF Left
<1>3. CASE ~(WORLD_SIZE > 1)
  <2>1. q = r
    BY <1>3, WorldAssumption DEF Rank
  <2>. QED BY <2>1 DEF ExitInv, ExitLocalInv, Left
<1>. QED BY <1>2, <1>3

(* A launch that has completed on one rank has completed its work on every   *)
(* rank (exit_barrier_arrive_and_wait, gemm_reduce_scatter.py).              *)
THEOREM PeersAreDone == Spec => []DoneMeansPeersDone
<1>1. TypeOK /\ HostInv /\ ExitInv => DoneMeansPeersDone
  BY PeersDone DEF DoneMeansPeersDone
<1>. QED BY <1>1, ExitInvariant, PTL

(* A rank's memory is never cleared while a cluster of any rank, or an add   *)
(* of the exit barrier that is still under way, can touch it (reset).        *)
THEOREM QuietWhenCleared == Spec => []ClearWhileQuiet
<1>1. TypeOK /\ HostInv /\ ExitInv => ClearWhileQuiet
  <2>. SUFFICES ASSUME TypeOK, HostInv, ExitInv, Clearing
                PROVE  /\ \A k \in K : cluster[k] \in {"off", "done"}
                       /\ \A r \in Rank : redTo[r] = {}
    BY DEF ClearWhileQuiet, Clearing
  <2>1. \A k \in K : host[k[1]] # "running"
    BY DEF HostInv, K
  <2>2. \A k \in K : cluster[k] \in {"off", "done"}
    BY <2>1 DEF HostInv, TypeOK, HostTypeOK
  <2>. QED BY <2>2 DEF ExitInv, ExitRankInv
<1>. QED BY <1>1, ExitInvariant, PTL

----------------------------------------------------------------------------

(* A launch finds the clusters of its rank at rest.                          *)
LEMMA LaunchFacts ==
  ASSUME TypeOK, HostInv, NEW r \in Rank, Launch(r)
  PROVE  /\ host[r] = "ready" /\ host'[r] = "running"
         /\ \A q \in Rank : q # r => host'[q] = host[q]
         /\ UNCHANGED <<gemmHead, gemmSlot, rsHead, rsTail, rsSlot, rsIdx, semaphore, gemm_out, out>>
         /\ \A k \in K : k[1] = r =>
              /\ pub[k] = "left" /\ packet[k].type = None /\ pub'[k] = "publish"
              /\ \A w \in Worker : work[k][w] = "left"
         /\ \A k \in K : k[1] # r =>
              /\ pub'[k] = pub[k] /\ rsRem'[k] = rsRem[k] /\ headR'[k] = headR[k]
              /\ packet'[k] = packet[k] /\ unread'[k] = unread[k]
              /\ work'[k] = work[k] /\ job'[k] = job[k]
<1>1. host[r] = "ready" /\ host'[r] = "running" /\ \A q \in Rank : q # r => host'[q] = host[q]
  BY DEF Launch, TypeOK, HostTypeOK
<1>2. \A k \in K : k[1] = r =>
        pub[k] = "left" /\ packet[k].type = None /\ \A w \in Worker : work[k][w] = "left"
  BY <1>1, AtRest
<1>. QED BY <1>1, <1>2 DEF Launch, gemmQueue, rsQueue, data

(* A publisher overwrites a packet only when every worker has read it.       *)
LEMMA PublisherKeepsSent ==
  ASSUME TypeOK, HostInv, NEW k \in K, Publisher(k)
  PROVE  /\ \A l \in K : unread[l] # {} => packet'[l] = packet[l] /\ unread'[l] = unread[l]
         /\ \A l \in K : l # k => pub'[l] = pub[l] /\ headR'[l] = headR[l] /\ rsRem'[l] = rsRem[l]
         /\ UNCHANGED <<host, gemm_out, semaphore, out, rsTail, rsIdx, work, job>>
<1>1. unread[k] = {} /\ \A l \in K : l # k =>
        /\ packet'[l] = packet[l] /\ unread'[l] = unread[l]
        /\ pub'[l] = pub[l] /\ headR'[l] = headR[l] /\ rsRem'[l] = rsRem[l]
  BY DEF Publisher, ClaimRS, MissRS, TakeRS, ClaimGEMM, TakeGEMM, Publish, HostInv, TypeOK,
         PublisherTypeOK
<1>2. UNCHANGED <<host, gemm_out, semaphore, out, rsTail, rsIdx, work, job>>
  BY DEF Publisher, ClaimRS, MissRS, TakeRS, ClaimGEMM, TakeGEMM, rsQueue, data, workVars
<1>. QED BY <1>1, <1>2

LEMMA ConsumerKeeps ==
  ASSUME NEW k \in K, NEW w \in Worker, Consumer(k, w)
  PROVE  UNCHANGED <<host, pub, rsRem, headR, packet, rsHead, gemmHead, gemmSlot>>
<1>1. CASE Receive(k, w) \/ ReduceShare(k, w) \/ StoreTile(k, w)
  BY <1>1 DEF Receive, ReduceShare, StoreTile, pubVars, gemmQueue, rsQueue
<1>2. CASE Notify(k, w) \/ ClaimTail(k, w) \/ WriteIndex(k, w) \/ ReleaseType(k, w)
  BY <1>2 DEF Notify, ClaimTail, WriteIndex, ReleaseType, pubVars, gemmQueue, rsQueue
<1>. QED BY <1>1, <1>2 DEF Consumer

----------------------------------------------------------------------------
(* Nobody leaves early: HeadsDone.                                           *)
LEMMA HeadsInit == Init => HeadsDone
  BY Sizes DEF Init, HeadsDone, K

LEMMA HeadsFramed ==
  ASSUME HeadsDone, UNCHANGED <<pub, rsRem, rsHead, gemmHead>>,
         \A r \in Rank : host'[r] \in {"running", "idle"} => host[r] \in {"running", "idle"}
  PROVE  HeadsDone'
  BY DEF HeadsDone, K

LEMMA HeadsPublisher ==
  ASSUME TypeOK, HostInv, ClaimInv, HeadsDone, NEW k \in K, Publisher(k)
  PROVE  HeadsDone'
<1>0. /\ \A l \in K : l[1] \in Rank /\ rsRem[l] \in Int /\ (rsRem[l] >= 0 \/ rsRem[l] = -1)
      /\ \A r \in Rank : gemmHead[r] \in Nat /\ rsHead[r] \in Nat /\ gemmHead[r] <= GEMM_COUNT
                         /\ rsHead[r] <= RS_COUNT
      /\ GEMM_COUNT \in Nat /\ RS_COUNT \in Nat
  BY Sizes DEF TypeOK, PublisherTypeOK, QueueTypeOK, K, RsPos, HeadsDone, ClaimInv
<1>1. /\ host' = host
      /\ \A l \in K : l # k => pub'[l] = pub[l] /\ rsRem'[l] = rsRem[l]
  BY PublisherKeepsSent
<1>2. CASE ClaimRS(k)
  <2>1. gemmHead' = gemmHead /\ pub'[k] \in {"load", "claim"}
    BY <1>2 DEF ClaimRS, gemmQueue, TypeOK, PublisherTypeOK
  <2>2. \A r \in Rank : rsHead[r] = RS_COUNT => rsHead'[r] = RS_COUNT
    BY <1>0, <1>2, ClaimRSEffect
  <2>3. ASSUME pub'[k] = "claim" PROVE rsHead'[k[1]] = RS_COUNT
    <3>. DEFINE pos == IF rsRem[k] >= 0 THEN rsRem[k] ELSE rsHead[k[1]]
    <3>1. ~(pos < RS_COUNT)
      BY <1>2, <2>3 DEF ClaimRS, Queued, TypeOK, PublisherTypeOK
    <3>2. ~(rsRem[k] >= 0)
      BY <1>0, <3>1, Sizes DEF TypeOK, PublisherTypeOK, RsPos
    <3>3. rsHead[k[1]] = RS_COUNT
      BY <1>0, <3>1, <3>2
    <3>. QED BY <1>0, <2>2, <3>3
  <2>. QED BY <1>0, <1>1, <2>1, <2>2, <2>3 DEF HeadsDone
<1>3. CASE MissRS(k)
  <2>1. /\ UNCHANGED <<rsHead, gemmHead>> /\ pub'[k] = "claim" /\ rsRem'[k] # -1
    BY <1>3, Sizes DEF MissRS, gemmQueue, rsQueue, TypeOK, PublisherTypeOK, RsPos
  <2>. QED BY <1>0, <1>1, <2>1 DEF HeadsDone
<1>4. CASE TakeRS(k) \/ TakeGEMM(k)
  <2>1. UNCHANGED <<rsHead, gemmHead>> /\ pub'[k] = "publish"
    BY <1>4 DEF TakeRS, TakeGEMM, Publish, gemmQueue, rsQueue, TypeOK, PublisherTypeOK, None, RS, GEMM
  <2>. QED BY <1>0, <1>1, <2>1 DEF HeadsDone
<1>5. CASE ClaimGEMM(k)
  <2>. PICK r \in Rank : r = k[1]
    BY <1>0
  <2>1. /\ rsHead' = rsHead /\ rsRem' = rsRem /\ pub[k] = "claim"
        /\ gemmHead' = [gemmHead EXCEPT ![r] = IF gemmHead[r] < GEMM_COUNT THEN gemmHead[r] + 1
                                               ELSE GEMM_COUNT]
    BY <1>5 DEF ClaimGEMM, Bump, rsQueue
  <2>2. \A q \in Rank : /\ gemmHead'[q] <= GEMM_COUNT
                        /\ gemmHead[q] = GEMM_COUNT => gemmHead'[q] = GEMM_COUNT
    BY <1>0, <2>1 DEF TypeOK, QueueTypeOK
  <2>3. pub'[k] \in {"take", "publish", "left"}
        /\ (pub'[k] = "left" => rsRem[k] < 0 /\ ~(gemmHead[r] < GEMM_COUNT))
    BY <1>5 DEF ClaimGEMM, Queued, Publish, TypeOK, PublisherTypeOK
  <2>4. pub'[k] = "left" => rsHead[r] = RS_COUNT /\ gemmHead'[r] = GEMM_COUNT
    BY <1>0, <2>1, <2>2, <2>3 DEF HeadsDone
  <2>. QED BY <1>0, <1>1, <2>1, <2>2, <2>3, <2>4 DEF HeadsDone
<1>. QED BY <1>2, <1>3, <1>4, <1>5 DEF Publisher

LEMMA HeadsStep ==
  ASSUME TypeOK, HostInv, ClaimInv, HeadsDone, [Next]_vars
  PROVE  HeadsDone'
<1>1. CASE UNCHANGED vars \/ ResetBarrier \/ PrepareBarrier \/ \E r \in Rank : KernelDone(r)
  <2>1. UNCHANGED <<pub, rsRem, rsHead, gemmHead>>
    BY <1>1 DEF vars, ResetBarrier, PrepareBarrier, KernelDone, pubVars, gemmQueue, rsQueue
  <2>2. \A r \in Rank : host'[r] \in {"running", "idle"} => host[r] \in {"running", "idle"}
    BY <1>1 DEF vars, ResetBarrier, PrepareBarrier, KernelDone, TypeOK, HostTypeOK
  <2>. QED BY <2>1, <2>2, HeadsFramed
<1>2. CASE \/ \E k \in K : ExitArrive(k) \/ ExitLeave(k)
           \/ \E k \in K, w \in Worker : Consumer(k, w)
           \/ \E r, q \in Rank : DeliverRed(r, q)
  <2>1. UNCHANGED <<host, pub, rsRem, rsHead, gemmHead>>
    BY <1>2, ConsumerKeeps DEF ExitArrive, ExitLeave, DeliverRed, pubVars, gemmQueue, rsQueue
  <2>. QED BY <2>1, HeadsFramed
<1>3. ASSUME NEW k \in K, Publisher(k) PROVE HeadsDone'
  BY <1>3, HeadsPublisher
<1>4. ASSUME NEW r \in Rank, Launch(r) PROVE HeadsDone'
  BY <1>4, LaunchFacts DEF HeadsDone, K
<1>5. ASSUME NEW r \in Rank, Clear(r) PROVE HeadsDone'
  <2>1. /\ host[r] = "clearing" /\ host' = [host EXCEPT ![r] = "cleared"]
        /\ UNCHANGED <<pub, rsRem>>
        /\ gemmHead' = [gemmHead EXCEPT ![r] = 0] /\ rsHead' = [rsHead EXCEPT ![r] = 0]
    BY <1>5 DEF Clear, pubVars
  <2>2. \A k \in K : k[1] \in Rank /\ (k[1] = r => pub[k] = "left")
    BY <2>1, AtRest DEF K
  <2>3. \A q \in Rank : gemmHead'[q] <= GEMM_COUNT
    BY <2>1, Sizes DEF HeadsDone, TypeOK, QueueTypeOK
  <2>4. \A q \in Rank : q # r => /\ host'[q] = host[q] /\ rsHead'[q] = rsHead[q]
                                 /\ gemmHead'[q] = gemmHead[q]
    BY <2>1 DEF TypeOK, HostTypeOK, QueueTypeOK
  <2>5. host'[r] = "cleared"
    BY <2>1 DEF TypeOK, HostTypeOK
  <2>. QED BY <2>1, <2>2, <2>3, <2>4, <2>5 DEF HeadsDone
<1>. QED BY <1>1, <1>2, <1>3, <1>4, <1>5 DEF Next

----------------------------------------------------------------------------
(* A claimed GEMM slot is emptied by its claimer: GemmSlotsTaken.            *)
LEMMA SlotsInit == Init => GemmSlotsTaken
  BY Sizes DEF Init, GemmSlotsTaken, GemmPos

LEMMA SlotsStep ==
  ASSUME TypeOK, HostInv, GemmSlotsTaken, [Next]_vars
  PROVE  GemmSlotsTaken'
<1>0. \A r \in Rank : gemmHead[r] \in Nat /\ GEMM_COUNT \in Nat
  BY Sizes DEF TypeOK, QueueTypeOK
<1>1. CASE \/ UNCHANGED vars \/ ResetBarrier \/ PrepareBarrier \/ \E r \in Rank : KernelDone(r)
           \/ \E k \in K : ExitArrive(k) \/ ExitLeave(k)
           \/ \E k \in K, w \in Worker : Consumer(k, w)
           \/ \E r, q \in Rank : DeliverRed(r, q)
  <2>1. UNCHANGED <<pub, headR, gemmHead, gemmSlot>>
    BY <1>1, ConsumerKeeps
       DEF vars, ResetBarrier, PrepareBarrier, KernelDone, ExitArrive, ExitLeave, DeliverRed,
           pubVars, gemmQueue
  <2>. QED BY <2>1 DEF GemmSlotsTaken
<1>2. ASSUME NEW r \in Rank, Launch(r) PROVE GemmSlotsTaken'
  <2>1. \A k \in K : pub[k] = "take" => pub'[k] = "take" /\ headR'[k] = headR[k]
    BY <1>2, LaunchFacts
  <2>. QED BY <1>2, <2>1, LaunchFacts DEF GemmSlotsTaken
<1>3. ASSUME NEW r \in Rank, Clear(r) PROVE GemmSlotsTaken'
  <2>1. /\ UNCHANGED <<pub, headR>> /\ gemmHead' = [gemmHead EXCEPT ![r] = 0]
        /\ \A q \in Rank : q # r => gemmSlot'[q] = gemmSlot[q]
    BY <1>3 DEF Clear, pubVars, TypeOK, QueueTypeOK
  <2>2. \A p \in GemmPos : ~(p < gemmHead'[r])
    BY <2>1, Sizes DEF GemmPos, TypeOK, QueueTypeOK
  <2>3. \A q \in Rank : q # r => gemmHead'[q] = gemmHead[q]
    BY <2>1 DEF TypeOK, QueueTypeOK
  <2>. QED BY <2>1, <2>2, <2>3 DEF GemmSlotsTaken
<1>4. ASSUME NEW k \in K, Publisher(k) PROVE GemmSlotsTaken'
  <2>0. /\ \A l \in K : l # k => pub'[l] = pub[l] /\ headR'[l] = headR[l]
        /\ k[1] \in Rank
    BY <1>4, PublisherKeepsSent DEF K
  <2>1. CASE ClaimRS(k) \/ MissRS(k) \/ TakeRS(k)
    <3>1. pub[k] # "take" /\ UNCHANGED <<gemmHead, gemmSlot>>
      BY <2>1 DEF ClaimRS, MissRS, TakeRS, gemmQueue
    <3>. QED BY <2>0, <3>1 DEF GemmSlotsTaken
  <2>2. CASE ClaimGEMM(k)
    <3>. PICK r \in Rank : r = k[1]
      BY <2>0
    <3>1. /\ pub[k] = "claim" /\ gemmSlot' = gemmSlot /\ headR'[k] = gemmHead[r]
          /\ gemmHead' = [gemmHead EXCEPT ![r] = IF gemmHead[r] < GEMM_COUNT THEN gemmHead[r] + 1
                                                 ELSE GEMM_COUNT]
          /\ gemmHead[r] < GEMM_COUNT => pub'[k] = "take"
      BY <2>2 DEF ClaimGEMM, Bump, Queued, TypeOK, PublisherTypeOK
    <3>2. ASSUME NEW q \in Rank, NEW p \in GemmPos, p < gemmHead'[q]
          PROVE  p < gemmHead[q] \/ (q = r /\ p = headR'[k] /\ pub'[k] = "take")
      <4>1. p \in Nat /\ p < GEMM_COUNT
        BY <1>0 DEF GemmPos
      <4>2. CASE q # r
        BY <3>1, <3>2, <4>2 DEF TypeOK, QueueTypeOK
      <4>3. CASE q = r /\ gemmHead[r] < GEMM_COUNT
        <5>1. gemmHead'[r] = gemmHead[r] + 1
          BY <3>1, <4>3 DEF TypeOK, QueueTypeOK
        <5>. QED BY <1>0, <3>1, <3>2, <4>1, <4>3, <5>1
      <4>4. CASE q = r /\ ~(gemmHead[r] < GEMM_COUNT)
        BY <1>0, <4>1, <4>4
      <4>. QED BY <4>2, <4>3, <4>4
    <3>. QED BY <2>0, <3>1, <3>2 DEF GemmSlotsTaken
  <2>3. CASE TakeGEMM(k)
    <3>1. /\ gemmHead' = gemmHead /\ pub[k] = "take" /\ headR[k] \in GemmPos
          /\ gemmSlot' = [gemmSlot EXCEPT ![k[1]] = [@ EXCEPT ![headR[k]] = None]]
      BY <2>3 DEF TakeGEMM, Emptied, TypeOK, PublisherTypeOK
    <3>2. gemmSlot'[k[1]][headR[k]] = None
      BY <2>0, <3>1 DEF TypeOK, QueueTypeOK
    <3>3. \A q \in Rank, p \in GemmPos : <<q, p>> # <<k[1], headR[k]>> =>
            gemmSlot'[q][p] = gemmSlot[q][p]
      BY <2>0, <3>1 DEF TypeOK, QueueTypeOK
    <3>. QED BY <2>0, <3>1, <3>2, <3>3 DEF GemmSlotsTaken
  <2>. QED BY <1>4, <2>1, <2>2, <2>3 DEF Publisher
<1>. QED BY <1>1, <1>2, <1>3, <1>4 DEF Next

----------------------------------------------------------------------------
(* Tasks are not dropped: GemmKept, TilesKept and RsKept.                    *)

(* Every step but the one that executes a task keeps it with a holder.       *)
LEMMA ReceiveKeeps ==
  ASSUME TypeOK, NEW k \in K, NEW w \in Worker, Receive(k, w)
  PROVE  \A l \in K, v \in Worker : \A t :
           (Holds(l, v, t) => Holds(l, v, t)') /\ (RsHolds(l, v, t) => RsHolds(l, v, t)')
<1>1. /\ UNCHANGED <<pub, headR, packet>> /\ work[k][w] = "receive"
      /\ job'[k][w].type = packet[k].type /\ job'[k][w].task = packet[k].task
      /\ packet[k].type # None => work'[k][w] = "work"
      /\ \A l \in K, v \in Worker : <<l, v>> # <<k, w>> => (v \in unread'[l] <=> v \in unread[l])
  BY DEF Receive, pubVars, TypeOK, PublisherTypeOK, WorkerTypeOK
<1>2. \A l \in K, v \in Worker : <<l, v>> # <<k, w>> =>
        work'[l][v] = work[l][v] /\ job'[l][v] = job[l][v]
  BY OneWorker DEF Consumer
<1>3. ASSUME NEW l \in K, NEW v \in Worker, NEW t, <<l, v>> # <<k, w>>
      PROVE  (Holds(l, v, t) => Holds(l, v, t)') /\ (RsHolds(l, v, t) => RsHolds(l, v, t)')
  BY <1>1, <1>2, <1>3 DEF Holds, Taking, Sent, Running, RsHolds, RsSent, RsRunning
<1>4. ASSUME NEW t
      PROVE  (Holds(k, w, t) => Holds(k, w, t)') /\ (RsHolds(k, w, t) => RsHolds(k, w, t)')
  BY <1>1 DEF Holds, Taking, Sent, Running, RsHolds, RsSent, RsRunning, None, GEMM, RS
<1>. QED BY <1>3, <1>4

LEMMA WorkerKeeps ==
  ASSUME TypeOK, NEW k \in K, NEW w \in Worker, Consumer(k, w), ~Receive(k, w)
  PROVE  /\ \A l \in K, v \in Worker : \A t :
              /\ Holds(l, v, t) => Holds(l, v, t)' \/ (StoreTile(k, w) /\ l = k /\ v = w /\ Running(k, w, t))
              /\ RsHolds(l, v, t) => RsHolds(l, v, t)' \/ (ReduceShare(k, w) /\ l = k /\ v = w /\ RsRunning(k, w, t))
<1>1. UNCHANGED <<pub, headR, packet, unread>>
  BY DEF Consumer, ReduceShare, StoreTile, Notify, ClaimTail, WriteIndex, ReleaseType, pubVars
<1>2. \A l \in K, v \in Worker : <<l, v>> # <<k, w>> =>
        work'[l][v] = work[l][v] /\ job'[l][v] = job[l][v]
  BY OneWorker
<1>3. /\ work[k][w] = "work" => StoreTile(k, w) \/ ReduceShare(k, w)
      /\ StoreTile(k, w) => job[k][w].type = GEMM
      /\ ReduceShare(k, w) => job[k][w].type = RS
  BY DEF Consumer, ReduceShare, StoreTile, Notify, ClaimTail, WriteIndex, ReleaseType
<1>4. ASSUME NEW l \in K, NEW v \in Worker, NEW t
      PROVE  /\ Running(l, v, t) => Running(l, v, t)' \/ (StoreTile(k, w) /\ l = k /\ v = w)
             /\ RsRunning(l, v, t) => RsRunning(l, v, t)' \/ (ReduceShare(k, w) /\ l = k /\ v = w)
  BY <1>2, <1>3 DEF Running, RsRunning, GEMM, RS
<1>5. \A l \in K, v \in Worker : \A t :
        /\ Taking(l, t)' <=> Taking(l, t)
        /\ Sent(l, v, t)' <=> Sent(l, v, t)
        /\ RsSent(l, v, t)' <=> RsSent(l, v, t)
  BY <1>1 DEF Taking, Sent, RsSent
<1>. QED BY <1>4, <1>5 DEF Holds, RsHolds

LEMMA LaunchKeeps ==
  ASSUME TypeOK, HostInv, NEW r \in Rank, Launch(r)
  PROVE  \A l \in K, v \in Worker : \A t :
           (Holds(l, v, t) => Holds(l, v, t)') /\ (RsHolds(l, v, t) => RsHolds(l, v, t)')
<1>. SUFFICES ASSUME NEW l \in K, NEW v \in Worker, NEW t
              PROVE  (Holds(l, v, t) => Holds(l, v, t)') /\ (RsHolds(l, v, t) => RsHolds(l, v, t)')
  OBVIOUS
<1>1. CASE l[1] = r
  BY <1>1, LaunchFacts
     DEF Holds, Taking, Sent, Running, RsHolds, RsSent, RsRunning, None, GEMM, RS
<1>2. CASE l[1] # r
  BY <1>2, LaunchFacts DEF Holds, Taking, Sent, Running, RsHolds, RsSent, RsRunning
<1>. QED BY <1>1, <1>2

LEMMA PublisherKeeps ==
  ASSUME TypeOK, HostInv, NEW k \in K, Publisher(k)
  PROVE  \A l \in K, v \in Worker : \A t :
           /\ RsHolds(l, v, t) => RsHolds(l, v, t)'
           /\ Holds(l, v, t) => Holds(l, v, t)'
<1>. SUFFICES ASSUME NEW l \in K, NEW v \in Worker, NEW t
              PROVE  /\ RsHolds(l, v, t) => RsHolds(l, v, t)'
                     /\ Holds(l, v, t) => Holds(l, v, t)'
  OBVIOUS
<1>1. /\ Sent(l, v, t) => Sent(l, v, t)'
      /\ RsSent(l, v, t) => RsSent(l, v, t)'
      /\ Running(l, v, t) => Running(l, v, t)'
      /\ RsRunning(l, v, t) => RsRunning(l, v, t)'
  <2>1. (v \in unread[l] => packet'[l] = packet[l] /\ unread'[l] = unread[l])
        /\ work' = work /\ job' = job
    BY PublisherKeepsSent
  <2>. QED BY <2>1 DEF Sent, RsSent, Running, RsRunning
<1>2. Taking(l, t) => Taking(l, t)' \/ Sent(l, v, t)'
  <2>1. CASE l # k
    BY <2>1, PublisherKeepsSent DEF Taking
  <2>2. CASE l = k /\ TakeGEMM(k)
    <3>1. packet'[k].type = GEMM /\ packet'[k].task = QueueOrder[headR[k]] /\ unread'[k] = Worker
      BY <2>2 DEF TakeGEMM, Publish, TypeOK, PublisherTypeOK
    <3>. QED BY <2>2, <3>1 DEF Taking, Sent
  <2>3. CASE ~TakeGEMM(k)
    <3>1. pub[k] # "take"
      BY <2>3 DEF Publisher, ClaimRS, MissRS, TakeRS, ClaimGEMM
    <3>. QED BY <2>1, <3>1 DEF Taking
  <2>. QED BY <2>1, <2>2, <2>3
<1>. QED BY <1>1, <1>2 DEF Holds, RsHolds

LEMMA GemmKeptInit == Init => GemmKept
  BY Sizes DEF Init, GemmKept, Claimed, GemmPos

LEMMA GemmKeptFramed ==
  ASSUME GemmKept,
         \A r \in Rank : gemm_out[r] \subseteq gemm_out'[r],
         \A r \in Rank, t \in GemmTask : Claimed(r, t)' => Claimed(r, t),
         \A l \in K, v \in Worker, t \in GemmTask : Holds(l, v, t) => Holds(l, v, t)'
  PROVE  GemmKept'
  BY DEF GemmKept

LEMMA GemmKeptClaim ==
  ASSUME TypeOK, HostInv, GemmKept, NEW k \in K, ClaimGEMM(k)
  PROVE  GemmKept'
<1>. PICK r \in Rank, p \in Nat : r = k[1] /\ p = gemmHead[r]
  BY DEF K, TypeOK, QueueTypeOK
<1>1. /\ gemmHead' = [gemmHead EXCEPT ![r] = IF p < GEMM_COUNT THEN p + 1 ELSE GEMM_COUNT]
      /\ p < GEMM_COUNT => pub'[k] = "take" /\ headR'[k] = p
  BY DEF ClaimGEMM, Bump, Queued, TypeOK, PublisherTypeOK
<1>2. gemm_out' = gemm_out /\ \A l \in K, v \in Worker : \A t : Holds(l, v, t) => Holds(l, v, t)'
  BY PublisherKeeps, PublisherKeepsSent DEF Publisher
<1>3. ASSUME NEW q \in Rank, NEW t \in GemmTask, Claimed(q, t)', ~Claimed(q, t)
      PROVE  q = r /\ Taking(k, t)'
  <2>1. PICK i \in GemmPos : i < gemmHead'[q] /\ QueueOrder[i] = t
    BY <1>3 DEF Claimed
  <2>2. ~(i < gemmHead[q])
    BY <1>3, <2>1 DEF Claimed
  <2>3. q = r
    BY <1>1, <2>1, <2>2 DEF TypeOK, QueueTypeOK
  <2>4. i \in Nat /\ i < GEMM_COUNT /\ GEMM_COUNT \in Nat
    BY Sizes DEF GemmPos
  <2>5. i < (IF p < GEMM_COUNT THEN p + 1 ELSE GEMM_COUNT) /\ ~(i < p)
    BY <1>1, <2>1, <2>2, <2>3 DEF TypeOK, QueueTypeOK
  <2>6. i = p /\ p < GEMM_COUNT
    BY <2>4, <2>5
  <2>. QED BY <1>1, <2>1, <2>3, <2>6 DEF Taking
<1>. QED BY <1>2, <1>3 DEF GemmKept, Holds

LEMMA GemmKeptStep ==
  ASSUME TypeOK, HostInv, GemmKept, [Next]_vars
  PROVE  GemmKept'
<1>1. CASE \/ UNCHANGED vars \/ ResetBarrier \/ PrepareBarrier \/ \E r \in Rank : KernelDone(r)
           \/ \E k \in K : ExitArrive(k) \/ ExitLeave(k)
           \/ \E r, q \in Rank : DeliverRed(r, q)
  <2>1. UNCHANGED <<gemmHead, gemm_out, pub, headR, packet, unread, work, job>>
    BY <1>1 DEF vars, ResetBarrier, PrepareBarrier, KernelDone, ExitArrive, ExitLeave, DeliverRed,
                gemmQueue, data, pubVars, workVars
  <2>. QED BY <2>1, GemmKeptFramed DEF Claimed, Holds, Taking, Sent, Running
<1>2. ASSUME NEW r \in Rank, Launch(r) PROVE GemmKept'
  BY <1>2, LaunchFacts, LaunchKeeps, GemmKeptFramed DEF Claimed
<1>3. ASSUME NEW r \in Rank, Clear(r) PROVE GemmKept'
  <2>1. /\ gemmHead' = [gemmHead EXCEPT ![r] = 0] /\ gemm_out' = [gemm_out EXCEPT ![r] = {}]
        /\ UNCHANGED <<pub, headR, packet, unread, work, job>>
    BY <1>3 DEF Clear, pubVars, workVars
  <2>2. \A t \in GemmTask : ~Claimed(r, t)'
    BY <2>1, Sizes DEF Claimed, GemmPos, TypeOK, QueueTypeOK
  <2>3. \A q \in Rank : q # r => /\ gemm_out'[q] = gemm_out[q]
                                 /\ \A t : Claimed(q, t)' <=> Claimed(q, t)
    BY <2>1 DEF Claimed, TypeOK, QueueTypeOK, DataTypeOK
  <2>4. \A l \in K, v \in Worker : \A t : Holds(l, v, t)' <=> Holds(l, v, t)
    BY <2>1 DEF Holds, Taking, Sent, Running
  <2>. QED BY <2>2, <2>3, <2>4 DEF GemmKept
<1>4. ASSUME NEW k \in K, Publisher(k) PROVE GemmKept'
  <2>1. CASE ClaimGEMM(k)
    BY <2>1, GemmKeptClaim
  <2>2. CASE ~ClaimGEMM(k)
    <3>1. gemmHead' = gemmHead
      BY <1>4, <2>2 DEF Publisher, ClaimRS, MissRS, TakeRS, TakeGEMM, gemmQueue
    <3>. QED BY <1>4, <3>1, PublisherKeeps, PublisherKeepsSent, GemmKeptFramed DEF Claimed
  <2>. QED BY <2>1, <2>2
<1>5. ASSUME NEW k \in K, NEW w \in Worker, Consumer(k, w) PROVE GemmKept'
  <2>1. \A r \in Rank, t \in GemmTask : Claimed(r, t)' => Claimed(r, t)
    BY <1>5, ConsumerKeeps DEF Claimed
  <2>2. CASE StoreTile(k, w)
    <3>. PICK u \in GemmTask : u = job[k][w].task
      BY <2>2, JobFacts DEF StoreTile, TypeOK, WorkerTypeOK
    <3>1. gemm_out' = [gemm_out EXCEPT ![k[1]] = @ \cup {HalfTile(u, w)}] /\ k[1] \in Rank
      BY <2>2 DEF StoreTile, HalfTile, K
    <3>2. HalfTile(u, w) \in gemm_out'[k[1]] /\ \A r \in Rank : gemm_out[r] \subseteq gemm_out'[r]
      BY <3>1 DEF TypeOK, DataTypeOK
    <3>3. \A l \in K, v \in Worker : \A t : Holds(l, v, t) =>
            Holds(l, v, t)' \/ (l = k /\ v = w /\ t = u)
      <4>1. ~Receive(k, w)
        BY <2>2 DEF StoreTile, Receive
      <4>. QED BY <1>5, <4>1, WorkerKeeps DEF Running
    <3>. QED BY <2>1, <3>2, <3>3 DEF GemmKept
  <2>3. CASE ~StoreTile(k, w)
    <3>1. gemm_out' = gemm_out
      BY <1>5, <2>3 DEF Consumer, Receive, ReduceShare, Notify, ClaimTail, WriteIndex, ReleaseType, data
    <3>2. \A l \in K, v \in Worker : \A t : Holds(l, v, t) => Holds(l, v, t)'
      BY <1>5, <2>3, ReceiveKeeps, WorkerKeeps
    <3>. QED BY <2>1, <3>1, <3>2, GemmKeptFramed
  <2>. QED BY <2>2, <2>3
<1>. QED BY <1>1, <1>2, <1>3, <1>4, <1>5 DEF Next

----------------------------------------------------------------------------
(* A completed tile stays with its enqueuer until its index is stored.       *)
LEMMA CompletionPositive == COMPLETION \in Nat \ {0}
<1>1. COMPLETION = Cardinality(Rank \X CTA) /\ IsFiniteSet(Rank \X CTA)
  BY NotifiedFinite
<1>2. Rank \X CTA # {}
  <2>. PICK c \in CTA : TRUE
    BY SetsAssumption
  <2>1. <<0, c>> \in Rank \X CTA
    BY Sizes
  <2>. QED BY <2>1
<1>. QED BY <1>1, <1>2, FS_CardinalityType, FS_EmptySet

LEMMA TilesInit == Init => TilesKept
<1>. SUFFICES ASSUME Init, NEW s \in Rank, NEW t \in Tile PROVE ~Completed(s, t)
  BY DEF TilesKept
<1>1. semaphore[s][t] = 0
  BY DEF Init, FreshSemaphore
<1>. QED BY <1>1, CompletionPositive DEF Completed

LEMMA TilesFramed ==
  ASSUME TilesKept, EnqueueFrame, UNCHANGED <<rsTail, rsIdx, semaphore>>
  PROVE  TilesKept'
<1>1. \A q, x : /\ Written(q, x)' <=> Written(q, x)
                /\ Completed(q, x)' <=> Completed(q, x)
  BY EnqueueFramed DEF Written, Completed, COMPLETION
<1>2. \A l \in K, v \in Worker : \A q, x : Enqueuing(l, v, q, x)' <=> Enqueuing(l, v, q, x)
  BY EnqueueFramed
<1>. QED BY <1>1, <1>2 DEF TilesKept

LEMMA TilesClear ==
  ASSUME TypeOK, HostInv, TilesKept, NEW r \in Rank, Clear(r)
  PROVE  TilesKept'
<1>1. EnqueueFrame
  BY FrameHost
<1>2. \A t \in Tile : ~Completed(r, t)'
  <2>1. \A t \in Tile : semaphore'[r][t] = 0
    BY DEF Clear, FreshSemaphore, TypeOK, DataTypeOK
  <2>. QED BY <2>1, CompletionPositive DEF Completed, COMPLETION
<1>3. \A q \in Rank : q # r =>
        rsTail'[q] = rsTail[q] /\ rsIdx'[q] = rsIdx[q] /\ semaphore'[q] = semaphore[q]
  BY DEF Clear, TypeOK, QueueTypeOK, DataTypeOK
<1>4. \A q \in Rank : \A x : q # r =>
        (Written(q, x)' <=> Written(q, x)) /\ (Completed(q, x)' <=> Completed(q, x))
  BY <1>1, <1>3, EnqueueFramed DEF Written, Completed, COMPLETION
<1>. QED BY <1>1, <1>2, <1>3, <1>4, EnqueueFramed DEF TilesKept

LEMMA TilesNotify ==
  ASSUME TypeOK, TilesKept, NEW k \in K, NEW w \in Worker, Notify(k, w)
  PROVE  TilesKept'
<1>. PICK s \in Rank, u \in Tile :
       s = SignalRank(job[k][w].task, w) /\ u = LocalTile(job[k][w].task, w)
  BY EnqueuerFacts DEF Notify
<1>1. /\ work[k][w] = "notify" /\ work'[k][w] \in {"tail", "receive"}
      /\ semaphore[s][u] + 1 = COMPLETION => work'[k][w] = "tail"
      /\ semaphore'[s][u] = semaphore[s][u] + 1
      /\ \A q \in Rank, x \in Tile : <<q, x>> # <<s, u>> => semaphore'[q][x] = semaphore[q][x]
      /\ UNCHANGED <<job, rsTail, rsIdx>>
  BY DEF Notify, IsLastArrival, rsQueue, TypeOK, WorkerTypeOK, DataTypeOK
<1>2. \A l \in K, v \in Worker : <<l, v>> # <<k, w>> => work'[l][v] = work[l][v]
  BY OneWorker DEF Consumer
<1>3. \A l \in K, v \in Worker : \A q, x :
        /\ Placing(l, v, q, x)' <=> Placing(l, v, q, x)
        /\ work'[l][v] = "release" <=> work[l][v] = "release"
        /\ Enqueuing(l, v, q, x) => Enqueuing(l, v, q, x)'
  BY <1>1, <1>2 DEF Placing, Enqueuing
<1>4. \A q, p : Written(q, p)' <=> Written(q, p)
  BY <1>1, <1>3 DEF Written
<1>5. \A q \in Rank, x \in Tile : Completed(q, x)' =>
        Completed(q, x) \/ (q = s /\ x = u /\ Enqueuing(k, w, s, u)')
  BY <1>1 DEF Completed, COMPLETION, Enqueuing
<1>. QED BY <1>1, <1>3, <1>4, <1>5 DEF TilesKept

LEMMA TilesTail ==
  ASSUME TypeOK, PlaceInv, TilesKept, NEW k \in K, NEW w \in Worker, ClaimTail(k, w)
  PROVE  TilesKept'
<1>. PICK s \in Rank :
       s = SignalRank(job[k][w].task, w)
  BY EnqueuerFacts DEF ClaimTail
<1>. PICK n \in Nat : n = rsTail[s]
  BY DEF TypeOK, QueueTypeOK
<1>1. /\ work[k][w] = "tail" /\ work'[k][w] = "index"
      /\ job'[k][w].task = job[k][w].task /\ job'[k][w].pos = n
      /\ UNCHANGED <<rsIdx, semaphore>>
  BY DEF ClaimTail, data, TypeOK, WorkerTypeOK
<1>2. \A l \in K, v \in Worker : <<l, v>> # <<k, w>> =>
        work'[l][v] = work[l][v] /\ job'[l][v] = job[l][v]
  BY OneWorker DEF Consumer
<1>3. rsTail'[s] = n + 1 /\ \A q \in Rank : rsTail[q] \in Nat /\ (q # s => rsTail'[q] = rsTail[q])
  BY DEF ClaimTail, TypeOK, QueueTypeOK
<1>4. \A l \in K, v \in Worker : \A q, x :
        /\ Enqueuing(l, v, q, x)' <=> Enqueuing(l, v, q, x)
        /\ Placing(l, v, q, x)' <=> Placing(l, v, q, x) \/ (l = k /\ v = w /\ q = s /\ x = n)
        /\ work'[l][v] = "release" <=> work[l][v] = "release"
  BY <1>1, <1>2 DEF Enqueuing, Placing
<1>5. \A q \in Rank, p \in RsPos : Written(q, p) => Written(q, p)'
  <2>. SUFFICES ASSUME NEW q \in Rank, NEW p \in RsPos, Written(q, p) PROVE Written(q, p)'
    OBVIOUS
  <2>1. p < rsTail[q] /\ p \in Int
    BY Sizes DEF Written, RsPos
  <2>2. p < rsTail'[q] /\ ~(q = s /\ p = n)
    BY <1>3, <2>1
  <2>. QED BY <1>4, <2>2 DEF Written
<1>. QED BY <1>1, <1>4, <1>5 DEF TilesKept, Completed, COMPLETION

LEMMA TilesWrite ==
  ASSUME TypeOK, PlaceInv, TilesKept, NEW k \in K, NEW w \in Worker, WriteIndex(k, w)
  PROVE  TilesKept'
<1>. PICK s \in Rank, n \in Nat : s = SignalRank(job[k][w].task, w) /\ n = job[k][w].pos
  BY EnqueuerFacts DEF WriteIndex
<1>1. /\ work[k][w] = "index" /\ work'[k][w] = "release"
      /\ \A q \in Rank, p \in RsPos : <<q, p>> # <<s, n>> => rsIdx'[q][p] = rsIdx[q][p]
      /\ UNCHANGED <<job, rsTail, semaphore>>
  BY DEF WriteIndex, Indexed, data, TypeOK, WorkerTypeOK, QueueTypeOK
<1>2. \A l \in K, v \in Worker : <<l, v>> # <<k, w>> => work'[l][v] = work[l][v]
  BY OneWorker DEF Consumer
<1>3. \A l \in K, v \in Worker : \A q, x :
        /\ Enqueuing(l, v, q, x)' <=> Enqueuing(l, v, q, x)
        /\ Placing(l, v, q, x)' <=> Placing(l, v, q, x)
        /\ work[l][v] = "release" => work'[l][v] = "release"
  BY <1>1, <1>2 DEF Enqueuing, Placing
<1>4. ~Written(s, n) /\ \A q, p : Written(q, p) => Written(q, p)'
  BY <1>1, <1>3 DEF Written, Placing
<1>5. \A q \in Rank, p \in RsPos : Written(q, p) => rsIdx'[q][p] = rsIdx[q][p]
  BY <1>1, <1>4
<1>. QED BY <1>1, <1>3, <1>4, <1>5 DEF TilesKept, Completed, COMPLETION

LEMMA TilesRelease ==
  ASSUME TypeOK, PlaceInv, TilesKept, NEW k \in K, NEW w \in Worker, ReleaseType(k, w)
  PROVE  TilesKept'
<1>. PICK s \in Rank, u \in Tile :
       s = SignalRank(job[k][w].task, w) /\ u = LocalTile(job[k][w].task, w)
  BY EnqueuerFacts DEF ReleaseType
<1>0. /\ rsTail[s] \in Nat /\ rsTail[s] <= RS_COUNT
      /\ job[k][w].pos \in Nat /\ job[k][w].pos < rsTail[s] /\ RS_COUNT \in Nat
  BY EnqueuerFacts, Sizes DEF ReleaseType, PlaceInv, TailBounded, TypeOK, QueueTypeOK
<1>. PICK n \in RsPos : n = job[k][w].pos /\ n < rsTail[s]
  BY <1>0 DEF RsPos
<1>1. /\ work[k][w] = "release" /\ work'[k][w] = "receive"
      /\ UNCHANGED <<job, rsTail, rsIdx, semaphore>>
  BY DEF ReleaseType, data, TypeOK, WorkerTypeOK
<1>2. \A l \in K, v \in Worker : <<l, v>> # <<k, w>> => work'[l][v] = work[l][v]
  BY OneWorker DEF Consumer
<1>3. \A l \in K, v \in Worker : \A q, x :
        /\ Enqueuing(l, v, q, x) => Enqueuing(l, v, q, x)' \/ <<l, v>> = <<k, w>>
        /\ Placing(l, v, q, x)' => Placing(l, v, q, x) /\ <<l, v>> # <<k, w>>
  BY <1>1, <1>2 DEF Enqueuing, Placing
<1>4. Placing(k, w, s, n) /\ Enqueuing(k, w, s, u)
  BY <1>1 DEF Placing, Enqueuing
<1>5. Written(s, n) /\ \A q, p : Written(q, p) => Written(q, p)'
  <2>1. Written(s, n)
    BY <1>1, <1>4 DEF Written, PlaceInv, OnePlacer
  <2>2. \A q, p : Written(q, p) => Written(q, p)'
    BY <1>1, <1>2, <1>3 DEF Written
  <2>. QED BY <2>1, <2>2
<1>6. rsIdx[s][n] = u
  <2>. PICK t \in Tile : t = rsIdx[s][n]
    BY DEF TypeOK, QueueTypeOK
  <2>1. Enqueuing(k, w, s, t)
    BY <1>1, <1>4 DEF PlaceInv, PlacedLast
  <2>. QED BY <2>1 DEF Enqueuing
<1>7. \A q \in Rank, x \in Tile : Enqueuing(k, w, q, x) => q = s /\ x = u
  BY DEF Enqueuing
<1>8. ASSUME NEW q \in Rank, NEW x \in Tile, Completed(q, x)'
      PROVE  \/ \E p \in RsPos : Written(q, p)' /\ rsIdx'[q][p] = x
             \/ \E l \in K, v \in Worker : Enqueuing(l, v, q, x)'
  <2>1. Completed(q, x)
    BY <1>1, <1>8 DEF Completed, COMPLETION
  <2>2. CASE \E p \in RsPos : Written(q, p) /\ rsIdx[q][p] = x
    BY <1>1, <1>5, <2>2
  <2>3. CASE \E l \in K, v \in Worker : Enqueuing(l, v, q, x)
    BY <1>1, <1>3, <1>5, <1>6, <1>7, <2>3
  <2>. QED BY <2>1, <2>2, <2>3 DEF TilesKept
<1>. QED BY <1>8 DEF TilesKept

LEMMA TilesStep ==
  ASSUME TypeOK, HostInv, PlaceInv, TilesKept, [Next]_vars
  PROVE  TilesKept'
<1>1. CASE \/ UNCHANGED vars \/ ResetBarrier \/ PrepareBarrier
           \/ \E r \in Rank : Launch(r) \/ KernelDone(r)
           \/ \E k \in K : Publisher(k) \/ ExitArrive(k) \/ ExitLeave(k)
           \/ \E r, q \in Rank : DeliverRed(r, q)
  <2>1. UNCHANGED <<rsTail, rsIdx, semaphore>>
    BY <1>1, LaunchFacts, PublisherKeepsSent
       DEF vars, ResetBarrier, PrepareBarrier, KernelDone, ExitArrive, ExitLeave, DeliverRed,
           rsQueue, data
  <2>2. EnqueueFrame
    BY <1>1, FrameHost
  <2>. QED BY <2>1, <2>2, TilesFramed
<1>2. ASSUME NEW r \in Rank, Clear(r) PROVE TilesKept'
  BY <1>2, TilesClear
<1>3. ASSUME NEW k \in K, NEW w \in Worker, Receive(k, w) \/ ReduceShare(k, w) \/ StoreTile(k, w)
      PROVE  TilesKept'
  <2>1. UNCHANGED <<rsTail, rsIdx, semaphore>>
    BY <1>3 DEF Receive, ReduceShare, StoreTile, rsQueue, data
  <2>. QED BY <1>3, <2>1, FrameWorker, TilesFramed
<1>4. ASSUME NEW k \in K, NEW w \in Worker,
             Notify(k, w) \/ ClaimTail(k, w) \/ WriteIndex(k, w) \/ ReleaseType(k, w)
      PROVE  TilesKept'
  BY <1>4, TilesNotify, TilesTail, TilesWrite, TilesRelease
<1>. QED BY <1>1, <1>2, <1>3, <1>4 DEF Next, Consumer

----------------------------------------------------------------------------
(* A tile a publisher took is reduced by every worker of its cluster.        *)
LEMMA RsKeptInit == Init => RsKept
<1>. SUFFICES ASSUME Init, NEW r \in Rank, NEW p \in RsPos, Gone(r, p) PROVE FALSE
  BY DEF RsKept, Served
<1>. QED BY Sizes DEF Init, Gone, RsPos

LEMMA RsKeptFramed ==
  ASSUME RsKept,
         \A r \in Rank, t \in Tile : Served(r, t)' => Served(r, t),
         \A r \in Rank, t \in Tile, w \in Worker :
           out[r][Share(t, w)] # {} => out'[r][Share(t, w)] # {},
         \A l \in K, v \in Worker, t \in Tile : RsHolds(l, v, t) => RsHolds(l, v, t)'
  PROVE  RsKept'
  BY DEF RsKept

LEMMA TakeFrameServed ==
  ASSUME TakeFrame
  PROVE  out' = out /\ \A r \in Rank, t \in Tile : Served(r, t)' => Served(r, t)
  BY DEF TakeFrame, Served

LEMMA RsKeptClear ==
  ASSUME TypeOK, HostInv, ClaimInv, RsKept, NEW r \in Rank, Clear(r)
  PROVE  RsKept'
<1>1. /\ UNCHANGED <<pub, rsRem, headR, packet, unread, work, job>>
      /\ rsHead'[r] = 0
      /\ \A q \in Rank : q # r =>
           rsHead'[q] = rsHead[q] /\ rsIdx'[q] = rsIdx[q] /\ out'[q] = out[q]
  BY DEF Clear, pubVars, workVars, TypeOK, QueueTypeOK, DataTypeOK
<1>2. \A t \in Tile : ~Served(r, t)'
  BY <1>1, Sizes DEF Served, Gone, RsPos
<1>3. \A q \in Rank, t \in Tile : q # r => (Served(q, t)' <=> Served(q, t))
  BY <1>1 DEF Served, Gone, Claim
<1>4. \A l \in K, v \in Worker, t \in Tile : RsHolds(l, v, t)' <=> RsHolds(l, v, t)
  BY <1>1 DEF RsHolds, RsSent, RsRunning
<1>. QED BY <1>1, <1>2, <1>3, <1>4 DEF RsKept

LEMMA RsKeptTake ==
  ASSUME TypeOK, HostInv, ClaimInv, RsKept, NEW k \in K, TakeRS(k)
  PROVE  RsKept'
<1>0. PICK r \in Rank, p \in RsPos, u \in Tile :
        r = k[1] /\ p = headR[k] /\ u = rsIdx[r][p]
  BY DEF TakeRS, K, TypeOK, PublisherTypeOK, QueueTypeOK
<1>1. /\ pub[k] = "load" /\ UNCHANGED <<rsHead, rsIdx, out>>
      /\ packet'[k].type = RS /\ packet'[k].task = u /\ unread'[k] = Worker
  BY <1>0 DEF TakeRS, Publish, data, TypeOK, PublisherTypeOK
<1>2. \A l \in K : l # k => Claim(l)' = Claim(l)
  BY ClaimKeptOrDropped
<1>3. Claim(k) = p
  BY <1>0, <1>1 DEF Claim
<1>4. ASSUME NEW q \in Rank, NEW t \in Tile, Served(q, t)'
      PROVE  Served(q, t) \/ (q = r /\ t = u)
  <2>. PICK x \in RsPos : Gone(q, x)' /\ rsIdx'[q][x] = t
    BY <1>4 DEF Served
  <2>1. CASE <<q, x>> = <<r, p>>
    BY <1>0, <1>1, <2>1
  <2>2. CASE <<q, x>> # <<r, p>>
    <3>1. ASSUME NEW l \in K, l[1] = q PROVE Claim(l) # x
      <4>1. Claim(l)' # x
        BY <3>1 DEF Gone
      <4>. QED BY <1>0, <1>2, <1>3, <2>2, <3>1, <4>1
    <3>2. Gone(q, x)
      BY <1>1, <3>1 DEF Gone
    <3>. QED BY <1>1, <3>2 DEF Served
  <2>. QED BY <2>1, <2>2
<1>5. \A v \in Worker : RsHolds(k, v, u)'
  BY <1>1 DEF RsHolds, RsSent
<1>6. \A l \in K, v \in Worker, t \in Tile : RsHolds(l, v, t) => RsHolds(l, v, t)'
  BY PublisherKeeps DEF Publisher
<1>. QED BY <1>0, <1>1, <1>4, <1>5, <1>6 DEF RsKept

LEMMA RsKeptPlaced ==
  ASSUME TypeOK, HostInv, TakeInv, RsKept, NEW k \in K, NEW w \in Worker,
         WriteIndex(k, w) \/ ReleaseType(k, w)
  PROVE  RsKept'
<1>1. UNCHANGED <<rsHead, pub, rsRem, headR, out>>
  BY DEF WriteIndex, ReleaseType, pubVars, data
<1>2. \A q, p : Gone(q, p)' <=> Gone(q, p)
  BY <1>1, GoneKept DEF Claim
<1>3. \A q \in Rank, p \in RsPos : Gone(q, p) => rsIdx'[q][p] = rsIdx[q][p]
  <2>1. CASE WriteIndex(k, w)
    <3>. PICK s \in Rank, n \in Nat : s = SignalRank(job[k][w].task, w) /\ n = job[k][w].pos
      BY <2>1, EnqueuerFacts DEF WriteIndex
    <3>1. /\ work[k][w] = "index"
          /\ \A q \in Rank, p \in RsPos : <<q, p>> # <<s, n>> => rsIdx'[q][p] = rsIdx[q][p]
      BY <2>1 DEF WriteIndex, Indexed, TypeOK, QueueTypeOK
    <3>2. Placing(k, w, s, n)
      BY <3>1 DEF Placing
    <3>3. n \in RsPos => ~Gone(s, n)
      BY <3>2 DEF TakeInv, GoneSettled, Settled
    <3>. QED BY <3>1, <3>3
  <2>2. CASE ReleaseType(k, w)
    BY <2>2 DEF ReleaseType
  <2>. QED BY <2>1, <2>2
<1>4. \A q \in Rank, t \in Tile : Served(q, t)' => Served(q, t)
  BY <1>2, <1>3 DEF Served
<1>5. Consumer(k, w) /\ ~Receive(k, w) /\ ~ReduceShare(k, w)
  BY DEF Consumer, WriteIndex, ReleaseType, Receive, ReduceShare
<1>. QED BY <1>1, <1>4, <1>5, WorkerKeeps, RsKeptFramed

LEMMA RsKeptReduce ==
  ASSUME TypeOK, HostInv, SemInv, RsInv, RsKept,
         NEW k \in K, NEW w \in Worker, ReduceShare(k, w)
  PROVE  RsKept'
<1>0. PICK r \in Rank, u \in Tile : r = k[1] /\ u = job[k][w].task
  BY JobFacts DEF ReduceShare, K, TypeOK, WorkerTypeOK
<1>1. /\ UNCHANGED <<rsHead, rsIdx, pub, rsRem, headR>>
      /\ out' = [out EXCEPT ![r][Share(u, w)] =
                   {q \in Rank : StoredPart(r, u, w[1]) \in gemm_out[q]}]
  BY <1>0 DEF ReduceShare, rsQueue, pubVars, Share
<1>2. {q \in Rank : StoredPart(r, u, w[1]) \in gemm_out[q]} # {}
  <2>1. Completed(r, u)
    BY <1>0 DEF ReduceShare, RsInv
  <2>2. w[1] \in CTA /\ 0 \in Rank
    BY Sizes DEF Worker
  <2>3. StoredPart(r, u, w[1]) \in gemm_out[0]
    BY <2>1, <2>2, CompletedStored
  <2>. QED BY <2>2, <2>3
<1>3. \A q \in Rank, x \in Part : /\ out[q][x] # {} => out'[q][x] # {}
                                  /\ q = r /\ x = Share(u, w) => out'[q][x] # {}
  BY <1>1, <1>2 DEF TypeOK, DataTypeOK
<1>4. \A t \in Tile, v \in Worker : Share(t, v) \in Part
  BY DEF Share, Part, Worker
<1>5. \A q \in Rank, t \in Tile : Served(q, t)' <=> Served(q, t)
  BY <1>1 DEF Served, Gone, Claim
<1>6. \A l \in K, v \in Worker, t \in Tile :
        RsHolds(l, v, t) => RsHolds(l, v, t)' \/ (l = k /\ v = w /\ t = u)
  <2>1. Consumer(k, w) /\ ~Receive(k, w)
    BY DEF Consumer, Receive, ReduceShare
  <2>. QED BY <1>0, <2>1, WorkerKeeps DEF RsRunning
<1>. QED BY <1>0, <1>3, <1>4, <1>5, <1>6 DEF RsKept

LEMMA RsKeptStep ==
  ASSUME TypeOK, HostInv, ~Clearing => GemmInv /\ SemInv /\ RsInv,
         ClaimInv, PlaceInv, TakeInv, RsKept, [Next]_vars
  PROVE  RsKept'
<1>1. CASE \/ UNCHANGED vars \/ ResetBarrier \/ PrepareBarrier
           \/ \E r \in Rank : KernelDone(r)
           \/ \E k \in K : ExitArrive(k) \/ ExitLeave(k)
           \/ \E r, q \in Rank : DeliverRed(r, q)
  <2>1. TakeFrame
    BY <1>1, TakeHost
  <2>2. UNCHANGED <<packet, unread, work, job>>
    BY <1>1 DEF vars, ResetBarrier, PrepareBarrier, KernelDone, ExitArrive, ExitLeave, DeliverRed,
                workVars
  <2>3. \A l \in K, v \in Worker, t \in Tile : RsHolds(l, v, t) => RsHolds(l, v, t)'
    BY <2>2 DEF RsHolds, RsSent, RsRunning
  <2>. QED BY <2>1, <2>3, TakeFrameServed, RsKeptFramed
<1>2. ASSUME NEW r \in Rank, Launch(r) PROVE RsKept'
  BY <1>2, TakeHost, LaunchKeeps, TakeFrameServed, RsKeptFramed
<1>3. ASSUME NEW r \in Rank, Clear(r) PROVE RsKept'
  BY <1>3, RsKeptClear
<1>4. ASSUME NEW k \in K, Publisher(k) PROVE RsKept'
  <2>1. CASE TakeRS(k)
    BY <2>1, RsKeptTake
  <2>2. CASE ~TakeRS(k)
    <3>1. TakeFrame
      BY <1>4, <2>2, TakeClaim, TakePublish DEF Publisher
    <3>. QED BY <1>4, <3>1, PublisherKeeps, TakeFrameServed, RsKeptFramed
  <2>. QED BY <2>1, <2>2
<1>5. ASSUME NEW k \in K, NEW w \in Worker, Consumer(k, w) PROVE RsKept'
  <2>1. CASE ReduceShare(k, w)
    <3>1. ~Clearing
      BY <1>5, HostStepConsumer
    <3>. QED BY <2>1, <3>1, RsKeptReduce
  <2>2. CASE WriteIndex(k, w) \/ ReleaseType(k, w)
    BY <2>2, RsKeptPlaced
  <2>3. CASE ~ReduceShare(k, w) /\ ~WriteIndex(k, w) /\ ~ReleaseType(k, w)
    <3>1. TakeFrame
      BY <1>5, <2>3, TakeWorker, TakeNotify DEF Consumer
    <3>2. \A l \in K, v \in Worker, t \in Tile : RsHolds(l, v, t) => RsHolds(l, v, t)'
      BY <1>5, <2>3, ReceiveKeeps, WorkerKeeps
    <3>. QED BY <3>1, <3>2, TakeFrameServed, RsKeptFramed
  <2>. QED BY <2>1, <2>2, <2>3
<1>. QED BY <1>1, <1>2, <1>3, <1>4, <1>5 DEF Next

----------------------------------------------------------------------------
LEMMA DrainInvariant == Spec => [](IInv /\ ExitInv /\ QueueInv /\ DrainInv)
<1>1. Init => IInv /\ ExitInv /\ QueueInv /\ DrainInv
  BY InvInit, ExitInit, ClaimInit, PlaceInit, TakeInit, HeadsInit, SlotsInit, GemmKeptInit,
     TilesInit, RsKeptInit
     DEF QueueInv, DrainInv
<1>2. ASSUME IInv, ExitInv, QueueInv, DrainInv, [Next]_vars
      PROVE  (IInv /\ ExitInv /\ QueueInv /\ DrainInv)'
  <2>1. TypeOK /\ HostInv /\ (~Clearing => GemmInv /\ SemInv /\ RsInv)
    BY <1>2 DEF IInv
  <2>2. IInv' /\ ExitInv'
    BY <1>2, <2>1, InvStep, ExitStep
  <2>3. QueueInv'
    BY <1>2, <2>1, ClaimStep, PlaceStep, TakeStep DEF QueueInv
  <2>4. DrainInv'
    BY <1>2, <2>1, HeadsStep, SlotsStep, GemmKeptStep, TilesStep, RsKeptStep DEF QueueInv, DrainInv
  <2>. QED BY <2>2, <2>3, <2>4
<1>. QED BY <1>1, <1>2, PTL DEF Spec
----------------------------------------------------------------------------
(* Where the queues and the data end up once every cluster has left.         *)
Quiet ==
  \A k \in K :
    /\ pub[k] = "left" /\ packet[k].type = None /\ host[k[1]] \in {"running", "idle"}
    /\ \A w \in Worker : work[k][w] = "left"

LEMMA DoneIsQuiet ==
  ASSUME TypeOK, HostInv, ExitInv, NEW r \in Rank, host[r] = "idle"
  PROVE  Quiet /\ ~Clearing
<1>1. Quiet
  <2>. SUFFICES ASSUME NEW k \in K
                PROVE  /\ pub[k] = "left" /\ packet[k].type = None
                       /\ host[k[1]] \in {"running", "idle"}
                       /\ \A w \in Worker : work[k][w] = "left"
    BY DEF Quiet
  <2>1. cluster[k] \in {"spin", "done"} /\ host[k[1]] \in {"running", "idle"}
    BY PeersDone
  <2>. QED BY <2>1 DEF HostInv
<1>2. ~Clearing
  BY DEF HostInv
<1>. QED BY <1>1, <1>2

LEMMA QuietFacts ==
  ASSUME TypeOK, HeadsDone, ClaimInv, Quiet
  PROVE  /\ \A q \in Rank : rsHead[q] = RS_COUNT /\ gemmHead[q] = GEMM_COUNT
         /\ \A k \in K : Claim(k) = -1
         /\ \A k \in K, w \in Worker : \A t : ~Holds(k, w, t) /\ ~RsHolds(k, w, t)
         /\ \A k \in K, w \in Worker : \A s, x : ~Enqueuing(k, w, s, x) /\ ~Placing(k, w, s, x)
<1>1. ASSUME NEW q \in Rank PROVE rsHead[q] = RS_COUNT /\ gemmHead[q] = GEMM_COUNT
  <2>. PICK c \in Cluster : TRUE
    BY SetsAssumption
  <2>1. <<q, c>> \in K /\ <<q, c>>[1] = q
    BY DEF K
  <2>2. pub[<<q, c>>] = "left" /\ host[q] \in {"running", "idle"}
    BY <2>1 DEF Quiet
  <2>. QED BY <2>1, <2>2 DEF HeadsDone
<1>2. \A k \in K : Claim(k) = -1
  BY DEF Quiet, Claim, ClaimInv
<1>3. \A k \in K, w \in Worker : \A t : ~Holds(k, w, t) /\ ~RsHolds(k, w, t)
  BY DEF Quiet, Holds, Taking, Sent, Running, RsHolds, RsSent, RsRunning, None, GEMM, RS
<1>4. \A k \in K, w \in Worker : \A s, x : ~Enqueuing(k, w, s, x) /\ ~Placing(k, w, s, x)
  BY DEF Quiet, Enqueuing, Placing
<1>. QED BY <1>1, <1>2, <1>3, <1>4

(* The queue order enumerates every GEMM task.                               *)
LEMMA TaskCount == IsFiniteSet(GemmTask) /\ Cardinality(GemmTask) = GEMM_COUNT
<1>. DEFINE A == 0 .. GEMM_M_CLUSTERS - 1
            B == 0 .. N_CLUSTERS - 1
<1>1. /\ IsFiniteSet(A) /\ Cardinality(A) = GEMM_M_CLUSTERS
      /\ IsFiniteSet(B) /\ Cardinality(B) = N_CLUSTERS
  BY TileAssumption, IntervalSize, Sizes
<1>2. IsFiniteSet(A \X B) /\ Cardinality(A \X B) = Cardinality(A) * Cardinality(B)
  BY <1>1, FS_Product
<1>. QED BY <1>1, <1>2 DEF GemmTask, GEMM_COUNT

LEMMA EveryTaskQueued ==
  ASSUME NEW t \in GemmTask
  PROVE  \E p \in GemmPos : QueueOrder[p] = t
<1>1. QueueOrder \in Injection(GemmPos, GemmTask)
  BY OrderAssumption DEF Injection, IsInjective
<1>2. Cardinality(GemmPos) = Cardinality(GemmTask)
  BY Sizes, IntervalSize, TaskCount DEF GemmPos
<1>3. QueueOrder \in Surjection(GemmPos, GemmTask)
  BY <1>1, <1>2, TaskCount, FS_Injection
<1>. QED BY <1>3 DEF Surjection

(* Every stored part is the half tile of some task.                          *)
LEMMA StoredIsHalfTile ==
  ASSUME NEW x \in Stored
  PROVE  \E t \in GemmTask, w \in Worker : x = HalfTile(t, w)
<1>. PICK row \in 0 .. WORLD_SIZE * RS_M_CLUSTERS - 1, col \in 0 .. N_CLUSTERS - 1, c \in CTA :
       x = <<row, col, c>>
  BY DEF Stored
<1>. DEFINE M == WORLD_SIZE * RS_M_CLUSTERS
<1>1. M \in Nat /\ M % 2 = 0
  BY WorldAssumption, TileAssumption
<1>2. row \in Nat /\ row < M
  BY <1>1
<1>3. row \div 2 \in 0 .. (M \div 2) - 1 /\ row % 2 \in WG /\ 2 * (row \div 2) + (row % 2) = row
  <2>. HIDE DEF M
  <2>. QED BY <1>1, <1>2 DEF WG
<1>4. <<row \div 2, col>> \in GemmTask
  BY <1>3 DEF GemmTask, GEMM_M_CLUSTERS
<1>5. <<c, row % 2>> \in Worker
  BY <1>3 DEF Worker
<1>6. x = HalfTile(<<row \div 2, col>>, <<c, row % 2>>)
  BY <1>3 DEF HalfTile, CommRow
<1>. QED BY <1>4, <1>5, <1>6

LEMMA StoredPartStored ==
  ASSUME NEW r \in Rank, NEW t \in Tile, NEW c \in CTA
  PROVE  StoredPart(r, t, c) \in Stored
<1>1. /\ r \in Nat /\ r + 1 <= WORLD_SIZE /\ WORLD_SIZE \in Nat
      /\ RS_M_CLUSTERS \in Nat /\ t[1] \in Nat /\ t[1] + 1 <= RS_M_CLUSTERS
      /\ t[2] \in 0 .. N_CLUSTERS - 1
  BY WorldAssumption, TileAssumption DEF Rank, Tile
<1>2. (r + 1) * RS_M_CLUSTERS <= WORLD_SIZE * RS_M_CLUSTERS
  BY <1>1
<1>3. (r + 1) * RS_M_CLUSTERS = r * RS_M_CLUSTERS + RS_M_CLUSTERS
  BY <1>1
<1>4. r * RS_M_CLUSTERS \in Nat /\ WORLD_SIZE * RS_M_CLUSTERS \in Nat
  BY <1>1
<1>5. r * RS_M_CLUSTERS + t[1] \in 0 .. WORLD_SIZE * RS_M_CLUSTERS - 1
  BY <1>1, <1>2, <1>3, <1>4
<1>. QED BY <1>1, <1>5 DEF StoredPart, Stored

LEMMA AllStored ==
  ASSUME TypeOK, HeadsDone, ClaimInv, GemmKept, Quiet, NEW r \in Rank
  PROVE  gemm_out[r] = Stored
<1>1. gemm_out[r] \subseteq Stored
  BY DEF TypeOK, DataTypeOK
<1>2. ASSUME NEW x \in Stored PROVE x \in gemm_out[r]
  <2>. PICK t \in GemmTask, w \in Worker : x = HalfTile(t, w)
    BY StoredIsHalfTile
  <2>. PICK p \in GemmPos : QueueOrder[p] = t
    BY EveryTaskQueued
  <2>1. p < gemmHead[r]
    BY QuietFacts, Sizes DEF GemmPos
  <2>2. Claimed(r, t)
    BY <2>1 DEF Claimed
  <2>. QED BY <2>2, QuietFacts DEF GemmKept
<1>. QED BY <1>1, <1>2

LEMMA AllCompleted ==
  ASSUME TypeOK, HeadsDone, ClaimInv, GemmKept, SemInv, Quiet, NEW r \in Rank, NEW t \in Tile
  PROVE  Completed(r, t)
<1>1. ASSUME NEW q \in Rank, NEW c \in CTA PROVE <<q, c>> \in Notified(r, t)
  <2>1. StoredPart(r, t, c) \in gemm_out[q]
    BY AllStored, StoredPartStored
  <2>2. ~Pending(q, r * RS_M_CLUSTERS + t[1], t[2], c)
    BY DEF Pending, Quiet
  <2>. QED BY <2>1, <2>2 DEF Notified
<1>2. Notified(r, t) = Rank \X CTA
  BY <1>1, NotifiedSubset
<1>. QED BY <1>2, NotifiedFinite DEF SemInv, Completed

(* Every tile has a position, so every position is used.                     *)
LEMMA AllPlaced ==
  ASSUME TypeOK, HeadsDone, ClaimInv, PlaceInv, GemmKept, TilesKept, SemInv, Quiet, NEW r \in Rank
  PROVE  /\ rsTail[r] = RS_COUNT
         /\ \A t \in Tile : \E p \in RsPos : Written(r, p) /\ rsIdx[r][p] = t
<1>1. \A t \in Tile : \E p \in RsPos : Written(r, p) /\ rsIdx[r][p] = t
  BY AllCompleted, QuietFacts DEF TilesKept
<1>. PICK n \in Nat : n = rsTail[r]
  BY DEF TypeOK, QueueTypeOK
<1>. DEFINE D == 0 .. n - 1
            f == [t \in Tile |-> CHOOSE p \in RsPos : Written(r, p) /\ rsIdx[r][p] = t]
<1>2. \A t \in Tile : f[t] \in RsPos /\ Written(r, f[t]) /\ rsIdx[r][f[t]] = t
  BY <1>1
<1>3. \A p \in RsPos : Written(r, p) => p \in D
  BY Sizes DEF Written, RsPos
<1>4. f \in Injection(Tile, D)
  <2>1. f \in [Tile -> D]
    BY <1>2, <1>3
  <2>2. \A t, u \in Tile : f[t] = f[u] => t = u
    BY <1>2
  <2>. HIDE DEF f, D
  <2>. QED BY <2>1, <2>2 DEF Injection, IsInjective
<1>5. IsFiniteSet(D) /\ Cardinality(D) = n
  BY IntervalSize
<1>6. RS_COUNT <= n
  <2>. HIDE DEF f, D
  <2>. QED BY <1>4, <1>5, TileCount, FS_Injection
<1>7. n <= RS_COUNT /\ RS_COUNT \in Nat
  BY Sizes DEF PlaceInv, TailBounded
<1>. QED BY <1>1, <1>6, <1>7

LEMMA AllReduced ==
  ASSUME TypeOK, HeadsDone, ClaimInv, PlaceInv, TakeInv, GemmKept, TilesKept, RsKept, SemInv,
         ReducedFromEveryRank, Quiet, NEW r \in Rank
  PROVE  /\ \A p \in RsPos : rsSlot[r][p] = None
         /\ \A x \in Part : out[r][x] = Rank
<1>1. \A p \in RsPos : Gone(r, p)
  <2>. SUFFICES ASSUME NEW p \in RsPos PROVE p < rsHead[r] /\ p # -1
    BY QuietFacts DEF Gone
  <2>. QED BY QuietFacts, Sizes DEF RsPos
<1>2. \A t \in Tile : Served(r, t)
  BY <1>1, AllPlaced DEF Served
<1>3. ASSUME NEW x \in Part PROVE out[r][x] = Rank
  <2>. PICK t \in Tile, w \in Worker : x = Share(t, w)
    <3>. PICK t \in Tile, c \in CTA, g \in WG : x = <<t, c, g>>
      BY DEF Part
    <3>1. <<c, g>> \in Worker /\ x = Share(t, <<c, g>>)
      BY DEF Worker, Share
    <3>. QED BY <3>1
  <2>1. out[r][Share(t, w)] # {}
    BY <1>2, QuietFacts DEF RsKept
  <2>. QED BY <2>1 DEF ReducedFromEveryRank
<1>. QED BY <1>1, <1>3 DEF TakeInv, GoneSettled

LEMMA ExitCounters ==
  ASSUME TypeOK, HostInv, ExitInv, NEW r \in Rank, host[r] = "idle"
  PROVE  <<exitLocal[r], exitRank[r]>> =
           IF WORLD_SIZE > 1 THEN <<NUM_CLUSTERS, WORLD_SIZE>> ELSE <<0, 0>>
<1>1. ASSUME NEW q \in Rank PROVE Left(q) = Cluster /\ host[q] \in {"running", "idle"}
  <2>. PICK c \in Cluster : TRUE
    BY SetsAssumption
  <2>1. <<q, c>> \in K /\ <<q, c>>[1] = q
    BY DEF K
  <2>. QED BY <2>1, PeersDone
<1>2. ~Clearing
  BY DEF HostInv
<1>3. CASE WORLD_SIZE > 1
  <2>1. exitLocal[r] = NUM_CLUSTERS
    BY <1>1, <1>3 DEF ExitInv, ExitLocalInv, NUM_CLUSTERS
  <2>. QED BY <1>2, <1>3, <2>1, ReturnedHeard
<1>4. CASE ~(WORLD_SIZE > 1)
  <2>1. \A q \in Rank : exitLocal[q] = 0
    BY <1>1, <1>4 DEF ExitInv, ExitLocalInv
  <2>2. Heard(r) = {}
    BY <2>1, LeftFacts DEF Heard, Arrived
  <2>3. exitRank[r] = 0
    BY <1>2, <2>2, FS_EmptySet DEF ExitInv, ExitRankInv
  <2>. QED BY <1>4, <2>1, <2>3
<1>. QED BY <1>3, <1>4

LEMMA IdleIsTerminal ==
  ASSUME IInv, ExitInv, QueueInv, DrainInv, NEW r \in Rank, host[r] = "idle"
  PROVE  Terminal(r)
<1>1. /\ TypeOK /\ HostInv /\ ReducedFromEveryRank /\ (~Clearing => SemInv)
      /\ ClaimInv /\ PlaceInv /\ TakeInv
      /\ HeadsDone /\ GemmSlotsTaken /\ GemmKept /\ TilesKept /\ RsKept
  BY DEF IInv, QueueInv, DrainInv
<1>2. Quiet /\ SemInv
  BY <1>1, DoneIsQuiet
<1>3. rsHead[r] = RS_COUNT /\ gemmHead[r] = GEMM_COUNT
  BY <1>1, <1>2, QuietFacts
<1>4. rsHead[r] >= RS_COUNT /\ gemmHead[r] >= GEMM_COUNT
  BY <1>3, Sizes
<1>5. ASSUME NEW p \in GemmPos PROVE gemmSlot[r][p] = None
  <2>1. p < gemmHead[r]
    BY <1>3, Sizes DEF GemmPos
  <2>2. \A k \in K : pub[k] # "take"
    BY <1>2 DEF Quiet
  <2>. QED BY <1>1, <2>1, <2>2 DEF GemmSlotsTaken
<1>6. rsTail[r] = RS_COUNT
  BY <1>1, <1>2, AllPlaced
<1>7. /\ \A p \in RsPos : rsSlot[r][p] = None
      /\ \A x \in Part : out[r][x] = Rank
  BY <1>1, <1>2, AllReduced
<1>8. /\ \A t \in Tile : semaphore[r][t] = COMPLETION
      /\ gemm_out[r] = Stored
  BY <1>1, <1>2, AllCompleted, AllStored DEF Completed
<1>9. <<exitLocal[r], exitRank[r]>> =
        IF WORLD_SIZE > 1 THEN <<NUM_CLUSTERS, WORLD_SIZE>> ELSE <<0, 0>>
  BY <1>1, ExitCounters
<1>. QED BY <1>4, <1>5, <1>6, <1>7, <1>8, <1>9 DEF Terminal

(* assert_terminal_state of the host cannot fail: whenever a launch has       *)
(* completed on a rank, its queues are exhausted and empty, its semaphores    *)
(* and exit counters are full, and its output is summed from every rank.      *)
THEOREM LaunchEndsTerminal == Spec => []TerminalState
<1>1. IInv /\ ExitInv /\ QueueInv /\ DrainInv => TerminalState
  BY IdleIsTerminal DEF TerminalState
<1>. QED BY <1>1, DrainInvariant, PTL

----------------------------------------------------------------------------
(* The kernel as one reduce-scatter per launch.                              *)
phaseOf == [r \in Rank |-> Phase(host[r])]

LEMMA PhaseFacts ==
  /\ \A r \in Rank :
       /\ phaseOf[r] = Phase(host[r])
       /\ host[r] \in {"idle", "clearing"} => phaseOf[r] = "complete"
       /\ host[r] = "cleared" => phaseOf[r] = "fresh"
       /\ host[r] \in {"ready", "running"} => phaseOf[r] = "active"
  /\ host' = host => phaseOf' = phaseOf
  BY DEF phaseOf, Phase

LEMMA AbstractInit == Init => Abstract!Init
  BY DEF Init, Abstract!Init, Phase, FreshOut

(* Clearing and launching: Erase, Begin and Complete, or nothing to see.     *)
LEMMA AbstractHost ==
  ASSUME TypeOK, HostInv, [Next]_vars,
         \A r \in Rank : host'[r] = "idle" => gemm_out'[r] = Stored /\ \A x \in Part : out'[r][x] = Rank,
         \/ ResetBarrier \/ PrepareBarrier
         \/ \E r \in Rank : Clear(r) \/ Launch(r) \/ KernelDone(r)
  PROVE  Abstract!Next \/ UNCHANGED Abstract!vars
<1>1. CASE ResetBarrier
  <2>1. phaseOf' = phaseOf
    BY <1>1 DEF ResetBarrier, EveryRankAt, phaseOf, Phase
  <2>. QED BY <1>1, <2>1 DEF ResetBarrier, data, Abstract!vars, phaseOf
<1>2. CASE PrepareBarrier
  <2>1. /\ \A r \in Rank : phaseOf[r] = "fresh"
        /\ phaseOf' = [r \in Rank |-> "active"]
    BY <1>2 DEF PrepareBarrier, EveryRankAt, phaseOf, Phase
  <2>2. Abstract!Begin
    BY <1>2, <2>1 DEF PrepareBarrier, data, Abstract!Begin, phaseOf
  <2>. QED BY <2>2 DEF Abstract!Next
<1>3. ASSUME NEW r \in Rank, Clear(r) PROVE Abstract!Next
  <2>1. /\ host[r] = "clearing" /\ host' = [host EXCEPT ![r] = "cleared"]
        /\ \A q \in Rank : host[q] \in {"clearing", "cleared"}
    BY <1>3 DEF Clear, HostInv, Clearing
  <2>2. /\ phaseOf[r] = "complete" /\ \A q \in Rank : phaseOf[q] # "active"
        /\ phaseOf' = [phaseOf EXCEPT ![r] = "fresh"]
    BY <2>1 DEF phaseOf, Phase, TypeOK, HostTypeOK
  <2>3. Abstract!Erase(r)
    BY <1>3, <2>2 DEF Clear, FreshOut, Abstract!Erase, phaseOf
  <2>. QED BY <2>3 DEF Abstract!Next
<1>4. ASSUME NEW r \in Rank, Launch(r) PROVE UNCHANGED Abstract!vars
  <2>1. host[r] = "ready" /\ host' = [host EXCEPT ![r] = "running"]
    BY <1>4 DEF Launch
  <2>2. phaseOf' = phaseOf
    BY <2>1 DEF phaseOf, Phase, TypeOK, HostTypeOK
  <2>. QED BY <1>4, <2>2 DEF Launch, data, Abstract!vars, phaseOf
<1>5. ASSUME NEW r \in Rank, KernelDone(r) PROVE Abstract!Next
  <2>1. /\ host[r] = "running" /\ host' = [host EXCEPT ![r] = "idle"] /\ host'[r] = "idle"
        /\ UNCHANGED <<gemm_out, out>>
    BY <1>5 DEF KernelDone, data, TypeOK, HostTypeOK
  <2>2. phaseOf[r] = "active" /\ phaseOf' = [phaseOf EXCEPT ![r] = "complete"]
    BY <2>1 DEF phaseOf, Phase, TypeOK, HostTypeOK
  <2>3. gemm_out[r] = Stored /\ \A x \in Part : out[r][x] = Rank
    BY <2>1
  <2>4. Abstract!Complete(r)
    BY <2>1, <2>2, <2>3 DEF Abstract!Complete, phaseOf
  <2>. QED BY <2>4 DEF Abstract!Next
<1>. QED BY <1>1, <1>2, <1>3, <1>4, <1>5

LEMMA AbstractStore ==
  ASSUME TypeOK, HostInv, GemmInv, NEW k \in K, NEW w \in Worker, StoreTile(k, w)
  PROVE  Abstract!Next
<1>. PICK r \in Rank, u \in GemmTask : r = k[1] /\ u = job[k][w].task
  BY JobFacts DEF StoreTile, K, TypeOK, WorkerTypeOK
<1>1. HalfTile(u, w) \notin gemm_out[r] /\ Running(k, w, u)
  BY DEF StoreTile, Running, Holds, GemmInv
<1>2. HalfTile(u, w) \in Stored
  BY RowFacts DEF HalfTile, Stored, GemmTask, Worker
<1>3. host[r] = "running"
  BY AtWork DEF StoreTile
<1>4. phaseOf[r] = "active" /\ phaseOf' = phaseOf
  BY <1>3, PhaseFacts DEF StoreTile
<1>5. Abstract!Contribute(r, HalfTile(u, w))
  BY <1>1, <1>4 DEF StoreTile, HalfTile, Abstract!Contribute, phaseOf
<1>. QED BY <1>2, <1>5 DEF Abstract!Next

LEMMA AbstractReduce ==
  ASSUME TypeOK, HostInv, SemInv, RsInv, TakeInv, NEW k \in K, NEW w \in Worker, ReduceShare(k, w)
  PROVE  Abstract!Next
<1>. PICK r \in Rank, u \in Tile : r = k[1] /\ u = job[k][w].task
  BY JobFacts DEF ReduceShare, K, TypeOK, WorkerTypeOK
<1>. DEFINE x == Share(u, w)
<1>1. x \in Part /\ x = <<u, w[1], w[2]>> /\ w[1] \in CTA
  BY DEF Share, Part, Worker
<1>2. out[r][x] = {}
  BY DEF ReduceShare, RsRunning, RsHolds, TakeInv, HeldOnce
<1>3. \A q \in Rank : StoredPart(r, u, w[1]) \in gemm_out[q]
  <2>1. Completed(r, u)
    BY DEF ReduceShare, RsInv
  <2>. QED BY <1>1, <2>1, CompletedStored
<1>4. out' = [out EXCEPT ![r][x] = Rank]
  <2>1. {q \in Rank : StoredPart(r, u, w[1]) \in gemm_out[q]} = Rank
    BY <1>3
  <2>. QED BY <1>1, <2>1 DEF ReduceShare
<1>5. host[r] = "running"
  BY AtWork DEF ReduceShare
<1>6. phaseOf[r] = "active" /\ phaseOf' = phaseOf
  BY <1>5, PhaseFacts DEF ReduceShare
<1>7. SourcePart(r, x) = StoredPart(r, u, w[1])
  BY <1>1 DEF SourcePart
<1>8. Abstract!Reduce(r, x)
  BY <1>2, <1>3, <1>4, <1>6, <1>7 DEF ReduceShare, Abstract!Reduce, phaseOf
<1>. QED BY <1>1, <1>8 DEF Abstract!Next

(* The fused kernel implements a collective reduce-scatter: every share is    *)
(* summed once and over every rank, a launch completes on a rank only with    *)
(* its part of the product stored and reduced, and nothing is erased while a  *)
(* rank is still at work (Spec of ReduceScatter, under the mapping of         *)
(* Abstract in GemmRS).                                                      *)
THEOREM KernelReduceScatters == Spec => ImplementsReduceScatter
<1>1. Init => Abstract!Init
  BY AbstractInit
<1>2. ASSUME IInv, QueueInv, TerminalState', [Next]_vars
      PROVE  [Abstract!Next]_Abstract!vars
  <2>1. TypeOK /\ HostInv /\ (~Clearing => GemmInv /\ SemInv /\ RsInv) /\ TakeInv
    BY <1>2 DEF IInv, QueueInv
  <2>2. \A r \in Rank : host'[r] = "idle" => gemm_out'[r] = Stored /\ \A x \in Part : out'[r][x] = Rank
    BY <1>2 DEF TerminalState, Terminal
  <2>3. CASE \/ ResetBarrier \/ PrepareBarrier
             \/ \E r \in Rank : Clear(r) \/ Launch(r) \/ KernelDone(r)
    BY <1>2, <2>1, <2>2, <2>3, AbstractHost
  <2>4. CASE \/ UNCHANGED vars
             \/ \E k \in K : Publisher(k) \/ ExitArrive(k) \/ ExitLeave(k)
             \/ \E r, q \in Rank : DeliverRed(r, q)
    <3>1. UNCHANGED <<host, gemm_out, out>>
      BY <2>1, <2>4, PublisherKeepsSent DEF vars, ExitArrive, ExitLeave, DeliverRed, data
    <3>. QED BY <3>1 DEF Abstract!vars
  <2>5. ASSUME NEW k \in K, NEW w \in Worker, Consumer(k, w)
        PROVE  Abstract!Next \/ UNCHANGED Abstract!vars
    <3>1. ~Clearing
      BY <2>1, <2>5, HostStepConsumer
    <3>2. CASE StoreTile(k, w) \/ ReduceShare(k, w)
      BY <2>1, <3>1, <3>2, AbstractStore, AbstractReduce
    <3>3. CASE Receive(k, w) \/ Notify(k, w) \/ ClaimTail(k, w) \/ WriteIndex(k, w) \/ ReleaseType(k, w)
      <4>1. UNCHANGED <<host, gemm_out, out>>
        BY <3>3 DEF Receive, Notify, ClaimTail, WriteIndex, ReleaseType, data
      <4>. QED BY <4>1 DEF Abstract!vars
    <3>. QED BY <2>5, <3>2, <3>3 DEF Consumer
  <2>. QED BY <1>2, <2>3, <2>4, <2>5 DEF Next
<1>. QED BY <1>1, <1>2, QueueInvariant, LaunchEndsTerminal, PTL
  DEF Spec, ImplementsReduceScatter, Abstract!Spec
=============================================================================
