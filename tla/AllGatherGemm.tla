--------------------------- MODULE AllGatherGemm ---------------------------
(***************************************************************************)
(* The fused all-gather + GEMM kernel of                                   *)
(* src/tirx_kernels/gemm/allgather_gemm.py: while a rank's kernel computes, *)
(* the copy engines of its peers write their rows of A into its ag_out and  *)
(* set one semaphore per rank; a task is dequeued when the rows it needs    *)
(* are there. The host clears semaphores and queue before every launch, and *)
(* nothing clears ag_out: rows of the last launch look like those of this.  *)
(*                                                                         *)
(* In a cluster, "tma0" is the lane that publishes tasks and loads for CTA  *)
(* 0, "tma1" loads for CTA 1, "con" computes and stores: MMA and consumers, *)
(* whose pipelines are the subject of GemmPipeline.                         *)
(***************************************************************************)
EXTENDS Integers, Sequences, FiniteSets

CONSTANTS
  WORLD_SIZE, Cluster,
  LOCAL_GEMM_M_CLUSTERS,  \* row tiles of one rank's part of A
  GEMM_N_CLUSTERS         \* column tiles
ASSUME SizesAssumption ==
  /\ WORLD_SIZE \in Nat \ {0} /\ LOCAL_GEMM_M_CLUSTERS \in Nat \ {0} /\ GEMM_N_CLUSTERS \in Nat \ {0}
  /\ IsFiniteSet(Cluster) /\ Cluster # {}

Rank == 0 .. WORLD_SIZE - 1
K == Rank \X Cluster
Role == {"tma0", "tma1", "con"}
CTA == {"tma0", "tma1"}               \* a CTA, by the lane that loads for it
GEMM_M_CLUSTERS == WORLD_SIZE * LOCAL_GEMM_M_CLUSTERS
PER_RANK == LOCAL_GEMM_M_CLUSTERS * GEMM_N_CLUSTERS
TASK_COUNT == GEMM_M_CLUSTERS * GEMM_N_CLUSTERS
Position == 0 .. TASK_COUNT - 1
Task == (0 .. GEMM_M_CLUSTERS - 1) \X (0 .. GEMM_N_CLUSTERS - 1)

VARIABLES
  host,              \* per rank: its compute stream
  gen,               \* per rank: its launch, modulo 2 (-1: none yet)
  toCopy, toSignal,  \* per rank: its communication stream, peers to serve
  ag_out,            \* per rank and source: the launch whose rows are there
  semaphore,         \* per rank and source
  head, filled,      \* per rank: the queue's head, the positions not empty
  place, job, headR, \* per cluster: its roles, their tasks; the claim
  packet, unread,    \* per cluster: the task broadcast, who has to receive it
  staged,            \* per cluster and CTA: the rows loaded and not computed
  out                \* per rank and task: the launch whose rows were computed
streams == <<host, gen, toCopy, toSignal>>
memory == <<ag_out, semaphore, out>>
queue == <<head, filled>>
cluster == <<place, job, headR, packet, unread, staged>>
vars == <<streams, memory, queue, cluster>>

(* The host's order of the tasks: first the rank's own rows, then those of    *)
(* the next rank; and the device's idea of whose rows a position needs.       *)
TaskAt(r, p) ==
  LET group == p \div PER_RANK
      m == p % LOCAL_GEMM_M_CLUSTERS
  IN <<((r + group) * LOCAL_GEMM_M_CLUSTERS + m) % GEMM_M_CLUSTERS,
       (p % PER_RANK) \div LOCAL_GEMM_M_CLUSTERS>>
NeededOfAll(r, p) == (r + p \div TASK_COUNT) % WORLD_SIZE
Needed(r, p) == (r + p \div PER_RANK) % WORLD_SIZE
OwnRows(r, m) == r * LOCAL_GEMM_M_CLUSTERS <= m /\ m < (r + 1) * LOCAL_GEMM_M_CLUSTERS

AllCleared == \A r \in Rank : host[r] = "cleared"
NoTask == <<-1, -1>>

----------------------------------------------------------------------------
(* reset() on the compute stream, with no barrier before it; prepare(): a     *)
(* barrier of all ranks, behind which the communication stream begins.        *)
HeadOnly(r) == head' = [head EXCEPT ![r] = 0] /\ UNCHANGED filled
Refilled(r) == head' = [head EXCEPT ![r] = 0] /\ filled' = [filled EXCEPT ![r] = Position]
Reset(r) ==
  /\ host[r] = "idle"
  /\ host' = [host EXCEPT ![r] = "cleared"]
  /\ semaphore' = [semaphore EXCEPT ![r] = [q \in Rank |-> 0]]
  /\ Refilled(r)
  /\ UNCHANGED <<gen, toCopy, toSignal, ag_out, out, cluster>>

Prepare ==
  /\ AllCleared
  /\ host' = [r \in Rank |-> "ready"] /\ gen' = [r \in Rank |-> (gen[r] + 1) % 2]
  /\ UNCHANGED <<toCopy, toSignal, memory, queue, cluster>>

Launch(r) ==
  /\ host[r] = "ready"
  /\ host' = [host EXCEPT ![r] = "run"]
  /\ toCopy' = [toCopy EXCEPT ![r] = Rank \ {r}]
  /\ place' = [k \in K |-> IF k[1] = r THEN [a \in Role |-> IF a = "tma0" THEN "publish" ELSE "idle"]
                                       ELSE place[k]]
  /\ UNCHANGED <<gen, toSignal, memory, queue, job, headR, packet, unread, staged>>

(* The kernel is over, and the compute stream has waited for the copies.      *)
GridDone(r) == \A k \in K : k[1] = r => \A a \in Role : place[k][a] = "left"
CopiesDone(r) == toCopy[r] = {} /\ toSignal[r] = {}
Return(r) ==
  /\ host[r] = "run" /\ GridDone(r) /\ CopiesDone(r)
  /\ host' = [host EXCEPT ![r] = "idle"]
  /\ UNCHANGED <<gen, toCopy, toSignal, memory, queue, cluster>>

(* The copy engine: the rows to each peer, and its semaphore behind them.     *)
CopyRows(r, q) ==
  /\ q \in toCopy[r]
  /\ ag_out' = [ag_out EXCEPT ![q][r] = gen[r]]
  /\ toCopy' = [toCopy EXCEPT ![r] = @ \ {q}] /\ toSignal' = [toSignal EXCEPT ![r] = @ \cup {q}]
  /\ UNCHANGED <<host, gen, semaphore, out, queue, cluster>>
SetSemaphore(r, q) ==
  /\ q \in toSignal[r]
  /\ semaphore' = [semaphore EXCEPT ![q][r] = 1]
  /\ toSignal' = [toSignal EXCEPT ![r] = @ \ {q}]
  /\ UNCHANGED <<host, gen, toCopy, ag_out, out, queue, cluster>>

----------------------------------------------------------------------------
(* dequeue and publish. All roles have received the last packet first.        *)
Publish(k, task) ==
  /\ packet' = [packet EXCEPT ![k] = task] /\ unread' = [unread EXCEPT ![k] = Role]
  /\ place' = [place EXCEPT ![k]["tma0"] = "idle"]

Claim(k) ==
  LET r == k[1] IN
  /\ place[k]["tma0"] = "publish" /\ unread[k] = {}
  /\ headR' = [headR EXCEPT ![k] = head[r]]
  /\ IF head[r] < TASK_COUNT
     THEN /\ head' = [head EXCEPT ![r] = @ + 1]
          /\ place' = [place EXCEPT ![k]["tma0"] = "claimed"] /\ UNCHANGED <<packet, unread>>
     ELSE Publish(k, NoTask) /\ UNCHANGED head
  /\ UNCHANGED <<streams, memory, filled, job, staged>>

RowsThere(r, p) == Needed(r, p) # r => semaphore[r][Needed(r, p)] = 1
TakeTask(k) ==
  LET r == k[1]
      p == headR[k]
  IN
  /\ place[k]["tma0"] = "claimed" /\ RowsThere(r, p) /\ p \in filled[r]
  /\ filled' = [filled EXCEPT ![r] = @ \ {p}]
  /\ Publish(k, TaskAt(r, p))
  /\ UNCHANGED <<streams, memory, head, job, headR, staged>>

Receive(k, a) ==
  /\ place[k][a] = "idle" /\ a \in unread[k]
  /\ unread' = [unread EXCEPT ![k] = @ \ {a}]
  /\ job' = [job EXCEPT ![k][a] = packet[k]]
  /\ place' = [place EXCEPT ![k][a] = IF packet[k] = NoTask THEN "left" ELSE "work"]
  /\ UNCHANGED <<streams, memory, queue, headR, packet, staged>>

(* A loader reads its rank's own rows out of A, the others out of ag_out.     *)
RowsRead(r, m) == IF OwnRows(r, m) THEN gen[r] ELSE ag_out[r][m \div LOCAL_GEMM_M_CLUSTERS]
Load(k, c) ==
  /\ place[k][c] = "work"
  /\ staged' = [staged EXCEPT ![k][c] = Append(@, RowsRead(k[1], job[k][c][1]))]
  /\ place' = [place EXCEPT ![k][c] = IF c = "tma0" THEN "publish" ELSE "idle"]
  /\ UNCHANGED <<streams, memory, queue, job, headR, packet, unread>>

(* The tile of both CTAs, out of the rows they staged first.                  *)
StoreTile(k) ==
  LET rows == {Head(staged[k][c]) : c \in CTA} IN
  /\ place[k]["con"] = "work" /\ \A c \in CTA : staged[k][c] # <<>>
  /\ out' = [out EXCEPT ![k[1]][job[k]["con"]] = IF Cardinality(rows) = 1 THEN CHOOSE g \in rows : TRUE ELSE -1]
  /\ staged' = [staged EXCEPT ![k] = [c \in CTA |-> Tail(@[c])]]
  /\ place' = [place EXCEPT ![k]["con"] = "idle"]
  /\ UNCHANGED <<streams, ag_out, semaphore, queue, job, headR, packet, unread>>

Init ==
  /\ host = [r \in Rank |-> "cleared"] /\ gen = [r \in Rank |-> -1]
  /\ toCopy = [r \in Rank |-> {}] /\ toSignal = [r \in Rank |-> {}]
  /\ ag_out = [r \in Rank |-> [q \in Rank |-> -1]]
  /\ semaphore = [r \in Rank |-> [q \in Rank |-> 0]]
  /\ head = [r \in Rank |-> 0] /\ filled = [r \in Rank |-> Position]
  /\ place = [k \in K |-> [a \in Role |-> "left"]]
  /\ job = [k \in K |-> [a \in Role |-> NoTask]] /\ headR = [k \in K |-> 0]
  /\ packet = [k \in K |-> NoTask] /\ unread = [k \in K |-> {}]
  /\ staged = [k \in K |-> [c \in CTA |-> <<>>]]
  /\ out = [r \in Rank |-> [t \in Task |-> -1]]

HostStep(r) == Reset(r) \/ Launch(r) \/ Return(r)
CopyEngine(r) == \E q \in Rank : CopyRows(r, q) \/ SetSemaphore(r, q)
Lane(k, a) ==
  \/ Receive(k, a)
  \/ a = "tma0" /\ (Claim(k) \/ TakeTask(k))
  \/ a \in CTA /\ Load(k, a)
  \/ a = "con" /\ StoreTile(k)
Next ==
  \/ Prepare
  \/ \E r \in Rank : HostStep(r) \/ CopyEngine(r)
  \/ \E k \in K, a \in Role : Lane(k, a)
Spec == Init /\ [][Next]_vars

(* As long as a stream, a copy engine, which needs no SM, or a lane of a      *)
(* resident cluster can go on, one of them does; a launch is finite work.     *)
FairSpec == Spec /\ WF_vars(Next)
----------------------------------------------------------------------------
(* When a launch has returned, every tile of the product was computed from    *)
(* the rows of this launch, its own and every peer's: neither stale rows of   *)
(* the last launch nor a tile nobody computed. Host order, semaphore and the  *)
(* choice between A and ag_out each work out for themselves whose rows a      *)
(* task needs.                                                               *)
ReturnsWholeProduct ==
  \A r \in Rank : host[r] \in {"idle", "cleared"} => \A t \in Task : out[r][t] = gen[r]

(* No rank is through with a launch while a peer's rows or semaphore are      *)
(* still on their way to it: the reset of the next launch, which waits for    *)
(* nobody, can then neither lose a signal nor find an early one.              *)
GatherMeetsLaunch ==
  \A r \in Rank : \A q \in toCopy[r] \cup toSignal[r] :
     host[q] \in {"ready", "run"} /\ gen[q] = gen[r]

(* Every launch returns on every rank: again and again all are ready for one. *)
LaunchCompletes == []<>(\A r \in Rank : host[r] = "ready")
=============================================================================
