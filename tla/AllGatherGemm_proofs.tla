------------------------ MODULE AllGatherGemm_proofs ------------------------
(***************************************************************************)
(* The all-gather kernel computes the product of this launch, for any number *)
(* of ranks, clusters and tiles. Two arguments meet. Across the ranks: a     *)
(* semaphore that is set says that the rows of this launch are there, and a  *)
(* rank that still owes rows to another keeps it inside its launch, since    *)
(* that one has a task that needs them (CopyInv). Inside a rank: a task      *)
(* leaves the queue only with its rows there, and every task that left is    *)
(* stored or on its way (QueueInv, TaskInv).                                *)
(***************************************************************************)
EXTENDS AllGatherGemm, FiniteSetTheorems, SequenceTheorems, TLAPS

Place == {"left", "idle", "publish", "claimed", "work"}
StreamTypes ==
  /\ host \in [Rank -> {"idle", "cleared", "ready", "run"}] /\ gen \in [Rank -> {-1, 0, 1}]
  /\ toCopy \in [Rank -> SUBSET Rank] /\ toSignal \in [Rank -> SUBSET Rank]
MemoryTypes ==
  /\ ag_out \in [Rank -> [Rank -> Int]] /\ semaphore \in [Rank -> [Rank -> {0, 1}]]
  /\ head \in [Rank -> 0 .. TASK_COUNT] /\ filled \in [Rank -> SUBSET Position]
  /\ out \in [Rank -> [Task -> Int]]
ClusterTypes ==
  /\ place \in [K -> [Role -> Place]] /\ job \in [K -> [Role -> Task \cup {NoTask}]]
  /\ headR \in [K -> 0 .. TASK_COUNT] /\ packet \in [K -> Task \cup {NoTask}]
  /\ unread \in [K -> SUBSET Role] /\ staged \in [K -> [CTA -> Seq(Int)]]
GatherTypes == StreamTypes /\ MemoryTypes /\ ClusterTypes

(* What a rank still owes to its peers.                                      *)
Owed(r) == toCopy[r] \cup toSignal[r]
CopyInv ==
  \A r, q \in Rank :
     /\ gen[r] = gen[q] /\ r \notin Owed(r) /\ (q \in toSignal[r] => q \notin toCopy[r])
     /\ q \in Owed(r) => host[q] \in {"ready", "run"} /\ semaphore[q][r] = 0
     /\ host[r] # "run" => q \notin Owed(r)
     /\ host[r] = "ready" => host[q] \in {"ready", "run"} /\ semaphore[q][r] = 0
     /\ host[r] = "cleared" => semaphore[r][q] = 0
     /\ q \in toSignal[r] \/ semaphore[q][r] = 1 => ag_out[q][r] = gen[r]

(* A rank's own queue and clusters.                                          *)
Claimed(k) == place[k]["tma0"] = "claimed"
Over(k, a) == place[k][a] = "left" \/ (a \in unread[k] /\ packet[k] = NoTask)
QueueInv(r) ==
  /\ host[r] \in {"cleared", "ready"} => head[r] = 0 /\ filled[r] = Position
  /\ \A k \in K : k[1] = r /\ Claimed(k) => headR[k] < head[r] /\ headR[k] \in filled[r]
  /\ \A j, k \in K : j[1] = r /\ k[1] = r /\ Claimed(j) /\ Claimed(k) /\ headR[j] = headR[k] => j = k
  /\ \A p \in filled[r] : p < head[r] => \E k \in K : k[1] = r /\ Claimed(k) /\ headR[k] = p
  /\ host[r] = "run" => \A k \in K, a \in Role : k[1] = r /\ Over(k, a) => head[r] = TASK_COUNT
  /\ \A p \in Position \ filled[r] : p < head[r] /\ RowsThere(r, p)

(* The roles of a cluster: who is owed what.                                 *)
Pending(k, a) == (IF a \in unread[k] /\ packet[k] # NoTask THEN 1 ELSE 0)
                 + (IF place[k][a] = "work" THEN 1 ELSE 0)
RowsOf(r, t) == LET q == t[1] \div LOCAL_GEMM_M_CLUSTERS
                IN q # r => semaphore[r][q] = 1
LaneInv(k) ==
  /\ host[k[1]] # "run" => unread[k] = {} /\ \A a \in Role : place[k][a] = "left"
  /\ place[k]["tma0"] = "idle" <=> "tma0" \in unread[k]
  /\ \A a \in Role \ {"tma0"} : place[k][a] \notin {"publish", "claimed"}
  /\ \A a \in Role : place[k][a] = "left" =>
       a \notin unread[k] /\ packet[k] = NoTask /\ place[k]["tma0"] \in {"idle", "left"}
  /\ Claimed(k) => unread[k] = {}
  /\ unread[k] # {} /\ packet[k] = NoTask => place[k]["tma0"] \in {"idle", "left"}
  /\ \A t \in Task : unread[k] # {} /\ packet[k] = t => RowsOf(k[1], t)
  /\ \A a \in Role : place[k][a] = "work" => job[k][a] # NoTask
  /\ \A a \in Role, t \in Task : place[k][a] = "work" /\ job[k][a] = t => RowsOf(k[1], t)
StageInv(k) ==
  /\ \A c \in CTA : Len(staged[k][c]) + Pending(k, c) = Pending(k, "con")
  /\ \A c \in CTA : \A i \in 1 .. Len(staged[k][c]) : staged[k][c][i] = gen[k[1]]
ClusterInv(k) == LaneInv(k) /\ StageInv(k)

InFlight(k, t) == \/ "con" \in unread[k] /\ packet[k] = t
                  \/ place[k]["con"] = "work" /\ job[k]["con"] = t
Served(r, t) == out[r][t] = gen[r] \/ \E k \in K : k[1] = r /\ InFlight(k, t)
TaskInv(r) ==
  /\ host[r] \in {"idle", "cleared"} => \A t \in Task : out[r][t] = gen[r]
  /\ \A p \in Position \ filled[r] : Served(r, TaskAt(r, p))

RankInv(r) == QueueInv(r) /\ TaskInv(r)
GatherInv == GatherTypes /\ CopyInv /\ (\A k \in K : ClusterInv(k)) /\ (\A r \in Rank : RankInv(r))

----------------------------------------------------------------------------
(* Positions and tasks. Quotient and remainder are named so that the provers *)
(* see products only where a lemma is about them.                           *)
Times(n, b) == n * b
Euclid(a, b, q, m) ==
  a \in Int /\ b \in Nat \ {0} /\ q \in Int /\ m \in 0 .. b - 1 /\ a = q * b + m

LEMMA Split == \A b \in Nat \ {0}, a \in Int : Euclid(a, b, a \div b, a % b)
<1>. SUFFICES ASSUME NEW b \in Nat \ {0}, NEW a \in Int PROVE Euclid(a, b, a \div b, a % b)
  OBVIOUS
<1>1. a \div b \in Int /\ a % b \in 0 .. b - 1 /\ a = b * (a \div b) + (a % b)
  OBVIOUS
<1>2. \A d \in Int : b * d = d * b
  OBVIOUS
<1>. QED BY <1>1, <1>2 DEF Euclid

LEMMA DivMod ==
  ASSUME NEW a, NEW b, NEW q, NEW m, Euclid(a, b, q, m)
  PROVE  a \div b = q /\ a % b = m
<1>. PICK d \in Int, e \in 0 .. b - 1 : d = a \div b /\ e = a % b /\ a = d * b + e
  BY Split DEF Euclid
<1>1. b \in Nat \ {0} /\ q \in Int /\ m \in 0 .. b - 1 /\ d * b + e = q * b + m
  BY DEF Euclid
<1>2. d = q
  <2>1. CASE d < q
    <3>1. (d + 1) * b <= q * b
      BY <1>1, <2>1
    <3>2. (d + 1) * b = d * b + b
      BY <1>1
    <3>. QED BY <1>1, <3>1, <3>2
  <2>2. CASE d > q
    <3>1. (q + 1) * b <= d * b
      BY <1>1, <2>2
    <3>2. (q + 1) * b = q * b + b
      BY <1>1
    <3>. QED BY <1>1, <3>1, <3>2
  <2>. QED BY <1>1, <2>1, <2>2
<1>. QED BY <1>1, <1>2

(* One digit in front of another stays below the product of their bases.     *)
LEMMA Digits ==
  ASSUME NEW a, NEW b, NEW q, NEW m, NEW n \in Nat \ {0}, Euclid(a, b, q, m)
  PROVE  /\ Times(n, b) \in Nat \ {0}
         /\ a \in 0 .. Times(n, b) - 1 <=> q \in 0 .. n - 1
<1>0. b \in Nat \ {0} /\ q \in Int /\ m \in 0 .. b - 1 /\ a = q * b + m
  BY DEF Euclid
<1>1. CASE q < 0
  <2>1. (q + 1) * b <= 0
    BY <1>0, <1>1
  <2>2. (q + 1) * b = q * b + b
    BY <1>0
  <2>. QED BY <1>0, <1>1, <2>1, <2>2 DEF Times
<1>2. CASE q >= n
  <2>1. n * b <= q * b
    BY <1>0, <1>2
  <2>. QED BY <1>0, <1>2, <2>1 DEF Times
<1>3. CASE q \in 0 .. n - 1
  <2>1. (q + 1) * b <= n * b /\ 0 <= q * b
    BY <1>0, <1>3
  <2>2. (q + 1) * b = q * b + b
    BY <1>0
  <2>. QED BY <1>0, <1>3, <2>1, <2>2 DEF Times
<1>. QED BY <1>0, <1>1, <1>2, <1>3

(* The digits of a number to the bases l and w, taken in either order.       *)
LEMMA Regroup ==
  ASSUME NEW a, NEW l, NEW s, NEW m, NEW w, NEW e, NEW y,
         Euclid(a, l, s, m), Euclid(s, w, e, y)
  PROVE  \E v : Euclid(v, l, y, m) /\ Euclid(a, Times(w, l), e, v)
<1>1. /\ a \in Int /\ l \in Nat \ {0} /\ s \in Int /\ m \in 0 .. l - 1 /\ a = s * l + m
      /\ w \in Nat \ {0} /\ e \in Int /\ y \in 0 .. w - 1 /\ s = e * w + y
  BY DEF Euclid
<1>. PICK v \in Int : v = y * l + m
  BY <1>1
<1>2. Euclid(v, l, y, m)
  BY <1>1 DEF Euclid
<1>3. Times(w, l) \in Nat \ {0} /\ v \in 0 .. Times(w, l) - 1
  BY <1>1, <1>2, Digits
<1>4. s * l = e * (w * l) + y * l
  <2>1. (e * w + y) * l = e * (w * l) + y * l
    BY <1>1
  <2>. QED BY <1>1, <2>1
<1>5. a = e * Times(w, l) + v
  <2>. PICK x \in Int, z \in Int, t \in Int : x = s * l /\ z = e * (w * l) /\ t = y * l
    BY <1>1
  <2>. QED BY <1>1, <1>4 DEF Times
<1>. QED BY <1>1, <1>2, <1>3, <1>5 DEF Euclid

LEMMA Ungroup ==
  ASSUME NEW a, NEW l, NEW g, NEW u, NEW n, NEW b, NEW m, n \in Nat \ {0},
         Euclid(a, Times(n, l), g, u), Euclid(u, l, b, m)
  PROVE  Euclid(a, l, g * n + b, m)
<1>1. /\ a \in Int /\ l \in Nat \ {0} /\ g \in Int /\ u \in Int /\ a = g * (n * l) + u
      /\ b \in Int /\ m \in 0 .. l - 1 /\ u = b * l + m
  BY DEF Euclid, Times
<1>. PICK h \in Int : h = g * n + b
  BY <1>1
<1>2. h * l = g * (n * l) + b * l
  <2>1. (g * n + b) * l = g * (n * l) + b * l
    BY <1>1
  <2>. QED BY <2>1
<1>3. a = h * l + m
  <2>. PICK x \in Int, z \in Int, t \in Int : x = h * l /\ z = g * (n * l) /\ t = b * l
    BY <1>1
  <2>. QED BY <1>1, <1>2
<1>. QED BY <1>1, <1>3 DEF Euclid

LEMMA Sizes ==
  /\ WORLD_SIZE \in Nat \ {0} /\ LOCAL_GEMM_M_CLUSTERS \in Nat \ {0} /\ GEMM_N_CLUSTERS \in Nat \ {0}
  /\ GEMM_M_CLUSTERS \in Nat \ {0} /\ PER_RANK \in Nat \ {0} /\ TASK_COUNT \in Nat \ {0}
  /\ GEMM_M_CLUSTERS = Times(WORLD_SIZE, LOCAL_GEMM_M_CLUSTERS)
  /\ TASK_COUNT = Times(WORLD_SIZE, PER_RANK)
  /\ PER_RANK = Times(GEMM_N_CLUSTERS, LOCAL_GEMM_M_CLUSTERS)
<1>. PICK w \in Nat \ {0}, l \in Nat \ {0}, n \in Nat \ {0} :
       w = WORLD_SIZE /\ l = LOCAL_GEMM_M_CLUSTERS /\ n = GEMM_N_CLUSTERS
  BY SizesAssumption
<1>1. \A x, y \in Nat \ {0} : x * y \in Nat \ {0} /\ x * y = y * x
  OBVIOUS
<1>2. (w * l) * n = w * (l * n)
  OBVIOUS
<1>3. w * l \in Nat \ {0} /\ l * n \in Nat \ {0} /\ w * (l * n) \in Nat \ {0} /\ l * n = n * l
  BY <1>1
<1>. QED BY <1>2, <1>3 DEF GEMM_M_CLUSTERS, PER_RANK, TASK_COUNT, Times

(* The task at a position needs the rows of the rank the dequeue waits for.  *)
LEMMA TaskAtFacts ==
  ASSUME NEW r \in Rank, NEW p \in Position
  PROVE  /\ TaskAt(r, p) \in Task /\ TaskAt(r, p) # NoTask
         /\ Needed(r, p) \in Rank
         /\ TaskAt(r, p)[1] \div LOCAL_GEMM_M_CLUSTERS = Needed(r, p)
<1>. PICK w \in Nat \ {0}, l \in Nat \ {0}, n \in Nat \ {0}, z \in Nat \ {0} :
       /\ w = WORLD_SIZE /\ l = LOCAL_GEMM_M_CLUSTERS /\ n = GEMM_N_CLUSTERS
       /\ z = PER_RANK /\ z = Times(n, l) /\ GEMM_M_CLUSTERS = Times(w, l)
  BY Sizes
<1>1. r \in Int /\ p \in Int
  BY Sizes DEF Rank, Position
<1>. PICK g, u, k, m : /\ g = p \div z /\ u = p % z /\ m = p % l
                       /\ Euclid(p, z, g, u) /\ Euclid(p, l, k, m)
  BY <1>1, Split
<1>2. g \in Int /\ u \in 0 .. z - 1 /\ u \in Int /\ m \in 0 .. l - 1
  BY DEF Euclid
<1>. PICK c, v : c = u \div l /\ Euclid(u, l, c, v)
  BY <1>2, Split
<1>3. c \in 0 .. n - 1
  BY <1>2, Digits
<1>. PICK s \in Int : s = r + g
  BY <1>1, <1>2
<1>. PICK x, y : y = s % w /\ Euclid(s, w, x, y)
  BY Split
<1>4. y \in 0 .. w - 1
  BY DEF Euclid
<1>. PICK a \in Int : a = s * l + m
  BY <1>2
<1>5. Euclid(a, l, s, m)
  BY <1>2 DEF Euclid
<1>. PICK o : Euclid(o, l, y, m) /\ Euclid(a, Times(w, l), x, o)
  BY <1>5, Regroup
<1>6. a % Times(w, l) = o /\ o \div l = y
  BY DivMod
<1>7. o \in 0 .. Times(w, l) - 1
  BY DEF Euclid
<1>8. TaskAt(r, p) = <<o, c>> /\ Needed(r, p) = y
  BY <1>6 DEF TaskAt, Needed
<1>9. <<o, c>> \in Task /\ <<o, c>> # NoTask
  BY <1>3, <1>7 DEF Task, NoTask
<1>10. y \in Rank
  BY <1>4 DEF Rank
<1>. QED BY <1>6, <1>8, <1>9, <1>10

(* The host's order has every task.                                          *)
LEMMA TaskAtOnto ==
  ASSUME NEW r \in Rank, NEW t \in Task
  PROVE  \E p \in Position : TaskAt(r, p) = t
<1>. PICK w \in Nat \ {0}, l \in Nat \ {0}, n \in Nat \ {0}, z \in Nat \ {0} :
       /\ w = WORLD_SIZE /\ l = LOCAL_GEMM_M_CLUSTERS /\ n = GEMM_N_CLUSTERS /\ z = PER_RANK
       /\ z = Times(n, l) /\ Times(w, z) = TASK_COUNT /\ GEMM_M_CLUSTERS = Times(w, l)
  BY Sizes
<1>. PICK a \in 0 .. Times(w, l) - 1, b \in 0 .. n - 1 : t = <<a, b>>
  BY DEF Task
<1>1. a \in Int /\ b \in Int /\ r \in Int
  BY Sizes DEF Rank
<1>. PICK q, m : Euclid(a, l, q, m)
  BY <1>1, Split
<1>2. q \in 0 .. w - 1 /\ m \in 0 .. l - 1 /\ q \in Int
  BY Digits DEF Euclid
<1>. PICK d \in Int : d = q - r
  BY <1>1, <1>2
<1>. PICK e, g : Euclid(d, w, e, g)
  BY Split
<1>3. e \in Int /\ g \in 0 .. w - 1 /\ d = e * w + g
  BY DEF Euclid
<1>. PICK u \in Int : u = b * l + m
  BY <1>1, <1>2
<1>4. Euclid(u, l, b, m)
  BY <1>1, <1>2 DEF Euclid
<1>5. u \in 0 .. z - 1
  BY <1>4, Digits
<1>. PICK p \in Int : p = g * z + u
  BY <1>3
<1>6. Euclid(p, z, g, u)
  BY <1>3, <1>5 DEF Euclid
<1>7. p \in Position
  BY <1>3, <1>6, Digits DEF Position
<1>8. Euclid(p, l, g * n + b, m)
  BY <1>4, <1>6, Ungroup
<1>9. p \div z = g /\ p % z = u /\ u \div l = b /\ p % l = m
  BY <1>4, <1>6, <1>8, DivMod
<1>. PICK s \in Int, f \in Int : s = r + g /\ f = -e
  BY <1>1, <1>3
<1>10. Euclid(s, w, f, q)
  <2>1. f * w = -(e * w)
    BY <1>3
  <2>2. e * w \in Int /\ f * w \in Int
    BY <1>3
  <2>3. s = f * w + q
    BY <1>1, <1>2, <1>3, <2>1, <2>2
  <2>. QED BY <1>2, <2>3 DEF Euclid
<1>. PICK x \in Int : x = s * l + m
  BY <1>2
<1>11. Euclid(x, l, s, m)
  BY <1>2 DEF Euclid
<1>. PICK o : Euclid(o, l, q, m) /\ Euclid(x, Times(w, l), f, o)
  BY <1>10, <1>11, Regroup
<1>12. o = a
  BY DEF Euclid
<1>13. x % Times(w, l) = a
  BY <1>12, DivMod
<1>14. TaskAt(r, p) = <<a, b>>
  BY <1>9, <1>13 DEF TaskAt
<1>. QED BY <1>7, <1>14

----------------------------------------------------------------------------
(* Types, step by step.                                                      *)
LEMMA Names ==
  /\ Role = {"tma0", "tma1", "con"} /\ CTA \subseteq Role /\ NoTask \notin Task
  /\ \A k \in K : k[1] \in Rank
BY DEF Role, CTA, NoTask, Task, K

LEMMA Actions ==
  ASSUME Next
  PROVE  \/ Prepare
         \/ \E r \in Rank : Reset(r)
         \/ \E r \in Rank : Launch(r)
         \/ \E r \in Rank : Return(r)
         \/ \E r \in Rank : \E q \in Rank : CopyRows(r, q)
         \/ \E r \in Rank : \E q \in Rank : SetSemaphore(r, q)
         \/ \E k \in K : \E a \in Role : Receive(k, a)
         \/ \E k \in K : Claim(k)
         \/ \E k \in K : TakeTask(k)
         \/ \E k \in K : \E c \in CTA : Load(k, c)
         \/ \E k \in K : StoreTile(k)
<1>1. ASSUME NEW r \in Rank, HostStep(r) PROVE Reset(r) \/ Launch(r) \/ Return(r)
  BY <1>1 DEF HostStep
<1>2. ASSUME NEW r \in Rank, CopyEngine(r) PROVE \E q \in Rank : CopyRows(r, q) \/ SetSemaphore(r, q)
  BY <1>2 DEF CopyEngine
<1>3. ASSUME NEW k \in K, NEW a \in Role, Lane(k, a)
      PROVE  Receive(k, a) \/ Claim(k) \/ TakeTask(k) \/ (a \in CTA /\ Load(k, a)) \/ StoreTile(k)
  BY <1>3 DEF Lane
<1>4. \/ Prepare
      \/ \E r \in Rank : HostStep(r) \/ CopyEngine(r)
      \/ \E k \in K : \E a \in Role : Lane(k, a)
  BY Zenon DEF Next
<1>5. CASE \E r \in Rank : HostStep(r) \/ CopyEngine(r)
  BY <1>1, <1>2, <1>5, Zenon
<1>6. CASE \E k \in K : \E a \in Role : Lane(k, a)
  BY <1>3, <1>6, Zenon
<1>. QED BY <1>4, <1>5, <1>6

(* A loader reads the rows of this launch, so a tile is computed from them.  *)
LEMMA RowsLoaded ==
  ASSUME GatherTypes, CopyInv, NEW k \in K, ClusterInv(k), NEW c \in CTA, place[k][c] = "work"
  PROVE  RowsRead(k[1], job[k][c][1]) = gen[k[1]]
<1>. PICK l \in Nat \ {0}, w \in Nat \ {0} :
       /\ l = LOCAL_GEMM_M_CLUSTERS /\ w = WORLD_SIZE /\ GEMM_M_CLUSTERS = Times(w, l)
  BY Sizes
<1>0. k[1] \in Rank /\ job[k][c] \in Task /\ RowsOf(k[1], job[k][c])
  <2>1. c \in Role /\ k[1] \in Rank
    BY Names
  <2>2. job[k][c] # NoTask /\ job[k][c] \in Task \cup {NoTask}
    BY <2>1 DEF ClusterInv, LaneInv, GatherTypes, ClusterTypes
  <2>3. RowsOf(k[1], job[k][c])
    BY <2>1, <2>2 DEF ClusterInv, LaneInv
  <2>. QED BY <2>1, <2>2, <2>3
<1>. PICK r \in Rank, t \in Task : r = k[1] /\ t = job[k][c] /\ RowsOf(r, t)
  BY <1>0
<1>. PICK m \in Int : m = t[1] /\ m \in 0 .. Times(w, l) - 1
  BY Sizes DEF Task
<1>. PICK q, n : q = m \div l /\ Euclid(m, l, q, n)
  BY Split
<1>1. q \in Rank /\ q \in Int
  BY Digits DEF Rank, Euclid
<1>2. CASE q = r
  <2>1. q * l <= m /\ m < (q + 1) * l
    <3>1. q \in Int /\ l \in Nat \ {0} /\ n \in 0 .. l - 1 /\ m = q * l + n
      BY DEF Euclid
    <3>2. (q + 1) * l = q * l + l
      BY <3>1
    <3>. QED BY <3>1, <3>2
  <2>. QED BY <1>2, <2>1 DEF RowsRead, OwnRows
<1>3. CASE q # r
  <2>1. semaphore[r][q] = 1
    BY <1>3 DEF RowsOf
  <2>2. ag_out[r][q] = gen[r]
    <3>1. \A a, b \in Rank : gen[a] = gen[b] /\ (semaphore[b][a] = 1 => ag_out[b][a] = gen[a])
      BY DEF CopyInv
    <3>. QED BY <1>1, <2>1, <3>1
  <2>. QED BY <2>2 DEF RowsRead
<1>. QED BY <1>2, <1>3

LEMMA TileStored ==
  ASSUME GatherTypes, NEW k \in K, ClusterInv(k), StoreTile(k)
  PROVE  /\ out' = [out EXCEPT ![k[1]][job[k]["con"]] = gen[k[1]]]
         /\ k[1] \in Rank /\ job[k]["con"] \in Task
<1>. DEFINE rows == {Head(staged[k][c]) : c \in CTA}
            g == gen[k[1]]
<1>1. \A c \in CTA : staged[k][c] \in Seq(Int) /\ staged[k][c] # <<>>
  BY DEF StoreTile, GatherTypes, ClusterTypes
<1>2. \A c \in CTA : Head(staged[k][c]) = g
  <2>. SUFFICES ASSUME NEW c \in CTA PROVE Head(staged[k][c]) = g
    OBVIOUS
  <2>1. Head(staged[k][c]) = staged[k][c][1] /\ 1 \in 1 .. Len(staged[k][c])
    BY <1>1, HeadTailProperties, EmptySeq, LenProperties
  <2>. QED BY <2>1 DEF ClusterInv, LaneInv, StageInv
<1>3. rows = {g}
  BY <1>2 DEF CTA
<1>4. out' = [out EXCEPT ![k[1]][job[k]["con"]] =
                IF Cardinality(rows) = 1 THEN CHOOSE x \in rows : TRUE ELSE -1]
  BY DEF StoreTile
<1>. HIDE DEF rows, g
<1>5. Cardinality({g}) = 1 /\ (CHOOSE x \in {g} : TRUE) = g
  BY FS_Singleton
<1>6. out' = [out EXCEPT ![k[1]][job[k]["con"]] = g]
  BY <1>3, <1>4, <1>5
<1>7. k[1] \in Rank /\ job[k]["con"] \in Task
  BY Names DEF StoreTile, ClusterInv, LaneInv, StageInv, GatherTypes, ClusterTypes
<1>. QED BY <1>6, <1>7 DEF g

LEMMA StreamTypesKept ==
  ASSUME GatherTypes, Next
  PROVE  StreamTypes'
<1>. StreamTypes
  BY DEF GatherTypes
<1>1. ASSUME NEW r \in Rank, Reset(r) \/ Launch(r) \/ Return(r) PROVE StreamTypes'
  <2>1. /\ UNCHANGED <<gen, toSignal>>
        /\ \E p \in {"idle", "cleared", "ready", "run"} : host' = [host EXCEPT ![r] = p]
        /\ toCopy' = toCopy \/ toCopy' = [toCopy EXCEPT ![r] = Rank \ {r}]
    BY <1>1 DEF Reset, Launch, Return
  <2>. QED BY <2>1 DEF StreamTypes
<1>2. ASSUME Prepare PROVE StreamTypes'
  <2>1. \A r \in Rank : (gen[r] + 1) % 2 \in {-1, 0, 1}
    BY DEF StreamTypes
  <2>2. /\ UNCHANGED <<toCopy, toSignal>> /\ host' = [r \in Rank |-> "ready"]
        /\ gen' = [r \in Rank |-> (gen[r] + 1) % 2]
    BY <1>2 DEF Prepare
  <2>. QED BY <2>1, <2>2 DEF StreamTypes
<1>3. ASSUME NEW r \in Rank, NEW q \in Rank, CopyRows(r, q) \/ SetSemaphore(r, q) PROVE StreamTypes'
  BY <1>3 DEF CopyRows, SetSemaphore, StreamTypes
<1>4. ASSUME NEW k \in K, NEW a \in Role, Lane(k, a) PROVE StreamTypes'
  <2>1. UNCHANGED streams
    BY <1>4 DEF Lane, Receive, Claim, TakeTask, Load, StoreTile
  <2>. QED BY <2>1 DEF streams, StreamTypes
<1>. QED BY <1>1, <1>2, <1>3, <1>4 DEF Next, HostStep, CopyEngine

LEMMA MemoryTypesKept ==
  ASSUME GatherTypes, \A k \in K : ClusterInv(k), Next
  PROVE  MemoryTypes'
<1>. MemoryTypes /\ StreamTypes /\ ClusterTypes
  BY DEF GatherTypes
<1>1. ASSUME NEW r \in Rank, Reset(r) PROVE MemoryTypes'
  BY <1>1, Sizes DEF Reset, Refilled, MemoryTypes
<1>2. ASSUME Prepare \/ \E r \in Rank : Launch(r) \/ Return(r) PROVE MemoryTypes'
  BY <1>2 DEF Launch, Return, Prepare, MemoryTypes, memory, queue
<1>3. ASSUME NEW r \in Rank, NEW q \in Rank, CopyRows(r, q) PROVE MemoryTypes'
  <2>1. gen[r] \in Int
    BY DEF StreamTypes
  <2>. QED BY <1>3, <2>1 DEF CopyRows, MemoryTypes, queue
<1>4. ASSUME NEW r \in Rank, NEW q \in Rank, SetSemaphore(r, q) PROVE MemoryTypes'
  BY <1>4 DEF SetSemaphore, MemoryTypes, queue
<1>5. ASSUME NEW k \in K, Claim(k) PROVE MemoryTypes'
  <2>1. k[1] \in Rank
    BY Names
  <2>2. UNCHANGED memory /\ UNCHANGED filled
        /\ (head' = head \/ (head[k[1]] < TASK_COUNT /\ head' = [head EXCEPT ![k[1]] = @ + 1]))
    BY <1>5 DEF Claim
  <2>3. head' \in [Rank -> 0 .. TASK_COUNT]
    <3>1. CASE head' = head
      BY <3>1 DEF MemoryTypes
    <3>2. CASE head[k[1]] < TASK_COUNT /\ head' = [head EXCEPT ![k[1]] = @ + 1]
      <4>1. head[k[1]] + 1 \in 0 .. TASK_COUNT
        BY <2>1, <3>2, Sizes DEF MemoryTypes
      <4>. QED BY <3>2, <4>1 DEF MemoryTypes
    <3>. QED BY <2>2, <3>1, <3>2
  <2>. QED BY <2>2, <2>3 DEF MemoryTypes, memory
<1>6. ASSUME NEW k \in K, TakeTask(k) PROVE MemoryTypes'
  BY <1>6, Names DEF TakeTask, MemoryTypes, memory
<1>7. ASSUME NEW k \in K, NEW a \in Role, Receive(k, a) \/ (a \in CTA /\ Load(k, a)) PROVE MemoryTypes'
  BY <1>7 DEF Receive, Load, MemoryTypes, memory, queue
<1>8. ASSUME NEW k \in K, StoreTile(k) PROVE MemoryTypes'
  <2>1. /\ out' = [out EXCEPT ![k[1]][job[k]["con"]] = gen[k[1]]] /\ gen[k[1]] \in Int
        /\ k[1] \in Rank /\ job[k]["con"] \in Task /\ UNCHANGED <<ag_out, semaphore, queue>>
    <3>1. /\ out' = [out EXCEPT ![k[1]][job[k]["con"]] = gen[k[1]]]
          /\ k[1] \in Rank /\ job[k]["con"] \in Task
      BY <1>8, TileStored
    <3>2. gen[k[1]] \in Int
      BY <3>1 DEF StreamTypes
    <3>. QED BY <1>8, <3>1, <3>2 DEF StoreTile
  <2>. QED BY <2>1 DEF MemoryTypes, queue
<1>. QED BY <1>1, <1>2, <1>3, <1>4, <1>5, <1>6, <1>7, <1>8, Actions, Names

LEMMA ClusterTypesKept ==
  ASSUME GatherTypes, CopyInv, \A k \in K : ClusterInv(k), Next
  PROVE  ClusterTypes'
<1>. MemoryTypes /\ ClusterTypes
  BY DEF GatherTypes
<1>1. ASSUME Prepare \/ \E r \in Rank : Reset(r) \/ Return(r) \/ \E q \in Rank : CopyRows(r, q) \/ SetSemaphore(r, q)
      PROVE  ClusterTypes'
  <2>1. UNCHANGED cluster
    BY <1>1 DEF Reset, Return, Prepare, CopyRows, SetSemaphore
  <2>. QED BY <2>1 DEF ClusterTypes, cluster
<1>2. ASSUME NEW r \in Rank, Launch(r) PROVE ClusterTypes'
  <2>. DEFINE f == [k \in K |-> IF k[1] = r THEN [a \in Role |-> IF a = "tma0" THEN "publish" ELSE "idle"]
                                ELSE place[k]]
  <2>1. f \in [K -> [Role -> Place]]
    BY DEF ClusterTypes, Place
  <2>2. place' = f /\ UNCHANGED <<job, headR, packet, unread, staged>>
    BY <1>2 DEF Launch
  <2>. HIDE DEF f
  <2>. QED BY <2>1, <2>2 DEF ClusterTypes
<1>3. ASSUME NEW k \in K, NEW t \in Task \cup {NoTask}, Publish(k, t)
      PROVE  /\ packet' \in [K -> Task \cup {NoTask}] /\ unread' \in [K -> SUBSET Role]
             /\ place' \in [K -> [Role -> Place]]
  BY <1>3 DEF Publish, ClusterTypes, Place
<1>4. ASSUME NEW k \in K, Claim(k) PROVE ClusterTypes'
  <2>1. k[1] \in Rank /\ headR' = [headR EXCEPT ![k] = head[k[1]]] /\ UNCHANGED <<job, staged>>
    BY <1>4, Names DEF Claim
  <2>2. headR' \in [K -> 0 .. TASK_COUNT]
    BY <2>1 DEF ClusterTypes, MemoryTypes
  <2>3. /\ packet' \in [K -> Task \cup {NoTask}] /\ unread' \in [K -> SUBSET Role]
        /\ place' \in [K -> [Role -> Place]]
    <3>1. CASE head[k[1]] < TASK_COUNT
      <4>1. UNCHANGED <<packet, unread>> /\ place' = [place EXCEPT ![k]["tma0"] = "claimed"]
        BY <1>4, <3>1 DEF Claim
      <4>. QED BY <4>1, Names DEF ClusterTypes, Place
    <3>2. CASE ~(head[k[1]] < TASK_COUNT)
      BY <1>3, <1>4, <3>2 DEF Claim
    <3>. QED BY <3>1, <3>2
  <2>. QED BY <2>1, <2>2, <2>3 DEF ClusterTypes
<1>5. ASSUME NEW k \in K, TakeTask(k) PROVE ClusterTypes'
  <2>1. k[1] \in Rank /\ headR[k] \in Position /\ Publish(k, TaskAt(k[1], headR[k]))
        /\ UNCHANGED <<job, headR, staged>>
    BY <1>5, Names DEF TakeTask, MemoryTypes
  <2>2. TaskAt(k[1], headR[k]) \in Task
    BY <2>1, TaskAtFacts
  <2>. QED BY <1>3, <2>1, <2>2 DEF ClusterTypes
<1>6. ASSUME NEW k \in K, NEW a \in Role, Receive(k, a) PROVE ClusterTypes'
  <2>1. \E p \in Place : place' = [place EXCEPT ![k][a] = p]
    BY <1>6 DEF Receive, Place
  <2>2. place' \in [K -> [Role -> Place]]
    BY <2>1 DEF ClusterTypes
  <2>. QED BY <1>6, <2>2 DEF Receive, ClusterTypes
<1>7. ASSUME NEW k \in K, NEW c \in CTA, Load(k, c) PROVE ClusterTypes'
  <2>. DEFINE new == Append(staged[k][c], gen[k[1]])
  <2>1. \E p \in Place : place' = [place EXCEPT ![k][c] = p]
    BY <1>7 DEF Load, Place
  <2>2. place' \in [K -> [Role -> Place]]
    BY <2>1, Names DEF ClusterTypes
  <2>3. RowsRead(k[1], job[k][c][1]) = gen[k[1]]
    BY <1>7, RowsLoaded DEF Load
  <2>4. staged' = [staged EXCEPT ![k][c] = new] /\ UNCHANGED <<job, headR, packet, unread>>
    BY <1>7, <2>3 DEF Load
  <2>5. new \in Seq(Int)
    <3>1. staged[k][c] \in Seq(Int) /\ gen[k[1]] \in Int
      BY Names DEF ClusterTypes, GatherTypes, StreamTypes
    <3>. QED BY <3>1, AppendProperties
  <2>. HIDE DEF new
  <2>. QED BY <2>2, <2>4, <2>5 DEF ClusterTypes
<1>8. ASSUME NEW k \in K, StoreTile(k) PROVE ClusterTypes'
  <2>. DEFINE new == [c \in CTA |-> Tail(staged[k][c])]
  <2>1. \A c \in CTA : staged[k][c] \in Seq(Int) /\ staged[k][c] # <<>>
    BY <1>8 DEF StoreTile, ClusterTypes
  <2>2. new \in [CTA -> Seq(Int)]
    BY <2>1, HeadTailProperties
  <2>3. /\ staged' = [staged EXCEPT ![k] = new] /\ place' = [place EXCEPT ![k]["con"] = "idle"]
        /\ UNCHANGED <<job, headR, packet, unread>>
    BY <1>8 DEF StoreTile
  <2>. HIDE DEF new
  <2>. QED BY <2>2, <2>3, Names DEF ClusterTypes, Place
<1>. QED BY <1>1, <1>2, <1>4, <1>5, <1>6, <1>7, <1>8, Actions

----------------------------------------------------------------------------
(* What a step of a lane does, variable by variable.                         *)
OthersKept(k) ==
  \A j \in K : j # k => /\ place'[j] = place[j] /\ job'[j] = job[j] /\ headR'[j] = headR[j]
                        /\ packet'[j] = packet[j] /\ unread'[j] = unread[j] /\ staged'[j] = staged[j]
Kept(k, a) == \A b \in Role : b # a => place'[k][b] = place[k][b]

LEMMA ReceiveFacts ==
  ASSUME GatherTypes, NEW k \in K, NEW a \in Role, Receive(k, a)
  PROVE  /\ OthersKept(k) /\ UNCHANGED <<streams, memory, queue>>
         /\ a \in unread[k] /\ place[k][a] = "idle" /\ unread'[k] = unread[k] \ {a}
         /\ packet'[k] = packet[k] /\ headR'[k] = headR[k] /\ staged'[k] = staged[k]
         /\ job'[k][a] = packet[k] /\ \A b \in Role : b # a => job'[k][b] = job[k][b]
         /\ Kept(k, a) /\ place'[k][a] = IF packet[k] = NoTask THEN "left" ELSE "work"
BY DEF Receive, GatherTypes, ClusterTypes, OthersKept, Kept

LEMMA PublishFacts ==
  ASSUME GatherTypes, NEW k \in K, NEW t, Publish(k, t)
  PROVE  /\ \A j \in K : j # k =>
              place'[j] = place[j] /\ packet'[j] = packet[j] /\ unread'[j] = unread[j]
         /\ packet'[k] = t /\ unread'[k] = Role
         /\ Kept(k, "tma0") /\ place'[k]["tma0"] = "idle"
BY Names DEF Publish, GatherTypes, ClusterTypes, Kept

LEMMA ClaimFacts ==
  ASSUME GatherTypes, NEW k \in K, Claim(k)
  PROVE  /\ OthersKept(k) /\ UNCHANGED <<streams, memory, filled>>
         /\ place[k]["tma0"] = "publish" /\ unread[k] = {}
         /\ job'[k] = job[k] /\ staged'[k] = staged[k] /\ headR'[k] = head[k[1]]
         /\ \A q \in Rank : q # k[1] => head'[q] = head[q]
         /\ Kept(k, "tma0")
         /\ IF head[k[1]] < TASK_COUNT
            THEN /\ head'[k[1]] = head[k[1]] + 1 /\ place'[k]["tma0"] = "claimed"
                 /\ packet'[k] = packet[k] /\ unread'[k] = {}
            ELSE /\ head'[k[1]] = head[k[1]] /\ place'[k]["tma0"] = "idle"
                 /\ packet'[k] = NoTask /\ unread'[k] = Role
<1>1. /\ place[k]["tma0"] = "publish" /\ unread[k] = {} /\ headR' = [headR EXCEPT ![k] = head[k[1]]]
      /\ UNCHANGED <<streams, memory, filled, job, staged>> /\ k[1] \in Rank
  BY Names DEF Claim
<1>2. CASE head[k[1]] < TASK_COUNT
  <2>1. /\ head' = [head EXCEPT ![k[1]] = @ + 1] /\ UNCHANGED <<packet, unread>>
        /\ place' = [place EXCEPT ![k]["tma0"] = "claimed"]
    BY <1>2 DEF Claim
  <2>. QED BY <1>1, <1>2, <2>1, Names DEF GatherTypes, ClusterTypes, MemoryTypes, OthersKept, Kept
<1>3. CASE ~(head[k[1]] < TASK_COUNT)
  <2>1. Publish(k, NoTask) /\ head' = head
    BY <1>3 DEF Claim
  <2>. QED BY <1>1, <1>3, <2>1, PublishFacts DEF GatherTypes, ClusterTypes, OthersKept
<1>. QED BY <1>2, <1>3

LEMMA TakeFacts ==
  ASSUME GatherTypes, NEW k \in K, TakeTask(k)
  PROVE  LET p == headR[k] IN
         /\ OthersKept(k) /\ UNCHANGED <<streams, memory, head>>
         /\ Claimed(k) /\ RowsThere(k[1], p) /\ p \in filled[k[1]] /\ p \in Position
         /\ job'[k] = job[k] /\ staged'[k] = staged[k] /\ headR'[k] = headR[k]
         /\ filled'[k[1]] = filled[k[1]] \ {p}
         /\ \A q \in Rank : q # k[1] => filled'[q] = filled[q]
         /\ packet'[k] = TaskAt(k[1], p) /\ unread'[k] = Role
         /\ Kept(k, "tma0") /\ place'[k]["tma0"] = "idle"
<1>1. /\ Claimed(k) /\ RowsThere(k[1], headR[k]) /\ headR[k] \in filled[k[1]]
      /\ filled' = [filled EXCEPT ![k[1]] = @ \ {headR[k]}] /\ k[1] \in Rank
      /\ Publish(k, TaskAt(k[1], headR[k]))
      /\ UNCHANGED <<streams, memory, head, job, headR, staged>>
  BY Names DEF TakeTask, Claimed
<1>. QED BY <1>1, PublishFacts DEF GatherTypes, ClusterTypes, MemoryTypes, OthersKept

LEMMA LoadFacts ==
  ASSUME GatherTypes, CopyInv, NEW k \in K, ClusterInv(k), NEW c \in CTA, Load(k, c)
  PROVE  /\ OthersKept(k) /\ UNCHANGED <<streams, memory, queue>>
         /\ place[k][c] = "work" /\ place'[k][c] = IF c = "tma0" THEN "publish" ELSE "idle"
         /\ Kept(k, c)
         /\ job'[k] = job[k] /\ packet'[k] = packet[k] /\ unread'[k] = unread[k] /\ headR'[k] = headR[k]
         /\ staged[k][c] \in Seq(Int) /\ gen[k[1]] \in Int
         /\ staged'[k][c] = Append(staged[k][c], gen[k[1]])
         /\ \A d \in CTA : d # c => staged'[k][d] = staged[k][d]
<1>1. /\ place[k][c] = "work" /\ RowsRead(k[1], job[k][c][1]) = gen[k[1]] /\ k[1] \in Rank /\ c \in Role
  BY RowsLoaded, Names DEF Load
<1>. QED BY <1>1 DEF Load, GatherTypes, ClusterTypes, StreamTypes, OthersKept, Kept

LEMMA StoreFacts ==
  ASSUME GatherTypes, NEW k \in K, ClusterInv(k), StoreTile(k)
  PROVE  /\ OthersKept(k) /\ UNCHANGED <<streams, ag_out, semaphore, queue>>
         /\ place[k]["con"] = "work" /\ place'[k]["con"] = "idle"
         /\ Kept(k, "con")
         /\ job'[k] = job[k] /\ packet'[k] = packet[k] /\ unread'[k] = unread[k] /\ headR'[k] = headR[k]
         /\ \A c \in CTA : /\ staged[k][c] \in Seq(Int) /\ staged[k][c] # <<>>
                           /\ staged'[k][c] = Tail(staged[k][c])
         /\ out'[k[1]][job[k]["con"]] = gen[k[1]]
         /\ \A t \in Task : t # job[k]["con"] => out'[k[1]][t] = out[k[1]][t]
         /\ \A q \in Rank : q # k[1] => out'[q] = out[q]
<1>1. /\ out' = [out EXCEPT ![k[1]][job[k]["con"]] = gen[k[1]]]
      /\ k[1] \in Rank /\ job[k]["con"] \in Task
  BY TileStored
<1>2. /\ out'[k[1]][job[k]["con"]] = gen[k[1]]
      /\ \A t \in Task : t # job[k]["con"] => out'[k[1]][t] = out[k[1]][t]
      /\ \A q \in Rank : q # k[1] => out'[q] = out[q]
  BY <1>1 DEF GatherTypes, MemoryTypes
<1>3. /\ place[k]["con"] = "work" /\ \A c \in CTA : staged[k][c] # <<>>
      /\ staged' = [staged EXCEPT ![k] = [c \in CTA |-> Tail(staged[k][c])]]
      /\ place' = [place EXCEPT ![k]["con"] = "idle"]
      /\ UNCHANGED <<streams, ag_out, semaphore, queue, job, headR, packet, unread>>
  BY DEF StoreTile
<1>. DEFINE rest == [c \in CTA |-> Tail(staged[k][c])]
<1>4. /\ staged' = [staged EXCEPT ![k] = rest] /\ \A c \in CTA : rest[c] = Tail(staged[k][c])
  BY <1>3
<1>. HIDE DEF rest
<1>5. staged'[k] = rest /\ \A j \in K : j # k => staged'[j] = staged[j]
  BY <1>4 DEF GatherTypes, ClusterTypes
<1>6. \A c \in CTA : staged[k][c] \in Seq(Int)
  BY DEF GatherTypes, ClusterTypes
<1>7. /\ \A j \in K : j # k => place'[j] = place[j]
      /\ Kept(k, "con") /\ place'[k]["con"] = "idle"
  BY <1>3, Names DEF GatherTypes, ClusterTypes, Kept
<1>8. OthersKept(k)
  BY <1>3, <1>5, <1>7 DEF OthersKept
<1>. QED BY <1>2, <1>3, <1>4, <1>5, <1>6, <1>7, <1>8

----------------------------------------------------------------------------
(* A grid that is done has taken every task, so every peer's rows came.      *)
LEMMA AllTaken ==
  ASSUME GatherTypes, NEW r \in Rank, QueueInv(r), host[r] = "run", GridDone(r)
  PROVE  filled[r] = {}
<1>0. PICK c \in Cluster : TRUE
  BY SizesAssumption
<1>1. PICK k \in K : k[1] = r
  <2>1. <<r, c>> \in K /\ <<r, c>>[1] = r
    BY DEF K
  <2>. QED BY <2>1
<1>2. Over(k, "tma0")
  BY <1>1, Names DEF GridDone, Over
<1>3. head[r] = TASK_COUNT
  BY <1>1, <1>2, Names DEF QueueInv
<1>4. ASSUME NEW p \in filled[r] PROVE FALSE
  <2>1. p < head[r]
    BY <1>3, Sizes DEF GatherTypes, MemoryTypes, Position
  <2>2. PICK j \in K : j[1] = r /\ Claimed(j)
    BY <2>1 DEF QueueInv
  <2>. QED BY <2>2, Names DEF Claimed, GridDone
<1>. QED BY <1>4

LEMMA AllRowsCame ==
  ASSUME GatherTypes, NEW r \in Rank, QueueInv(r), filled[r] = {}, NEW q \in Rank, q # r
  PROVE  semaphore[r][q] = 1
<1>. PICK l \in Nat \ {0}, w \in Nat \ {0} :
       /\ l = LOCAL_GEMM_M_CLUSTERS /\ w = WORLD_SIZE /\ GEMM_M_CLUSTERS = Times(w, l)
  BY Sizes
<1>0. q \in Int /\ q \in 0 .. w - 1
  BY DEF Rank
<1>. PICK m \in Int : m = q * l
  BY <1>0
<1>1. Euclid(m, l, q, 0)
  BY <1>0 DEF Euclid
<1>2. m \in 0 .. GEMM_M_CLUSTERS - 1
  BY <1>0, <1>1, Digits
<1>3. <<m, 0>> \in Task
  BY <1>2, Sizes DEF Task
<1>4. PICK p \in Position : TaskAt(r, p) = <<m, 0>>
  BY <1>3, TaskAtOnto
<1>5. Needed(r, p) = q
  BY <1>1, <1>4, TaskAtFacts, DivMod
<1>6. RowsThere(r, p)
  BY DEF QueueInv
<1>. QED BY <1>5, <1>6 DEF RowsThere

----------------------------------------------------------------------------
(* Copies and semaphores: CopyInv.                                           *)
LEMMA CopyFramed ==
  ASSUME CopyInv, UNCHANGED <<gen, toCopy, toSignal, ag_out, semaphore, host>>
  PROVE  CopyInv'
BY DEF CopyInv, Owed

LEMMA CopyKept ==
  ASSUME GatherInv, Next
  PROVE  CopyInv'
<1>. GatherTypes /\ StreamTypes /\ MemoryTypes /\ CopyInv
  BY DEF GatherInv, GatherTypes
<1>0. ASSUME NEW a \in Rank, NEW b \in Rank
      PROVE  /\ gen[a] = gen[b] /\ a \notin Owed(a)
             /\ b \in Owed(a) => host[b] \in {"ready", "run"} /\ semaphore[b][a] = 0
             /\ host[a] # "run" => b \notin Owed(a)
             /\ host[a] = "ready" => host[b] \in {"ready", "run"} /\ semaphore[b][a] = 0
             /\ host[a] = "cleared" => semaphore[a][b] = 0
             /\ b \in toSignal[a] \/ semaphore[b][a] = 1 => ag_out[b][a] = gen[a]
             /\ b \in toSignal[a] => b \notin toCopy[a]
  BY DEF CopyInv
<1>1. ASSUME Prepare PROVE CopyInv'
  <2>1. /\ \A a \in Rank : host[a] = "cleared" /\ host'[a] = "ready" /\ gen'[a] = (gen[a] + 1) % 2
        /\ UNCHANGED <<toCopy, toSignal, ag_out, semaphore>>
    BY <1>1 DEF Prepare, AllCleared, memory
  <2>2. ASSUME NEW a \in Rank, NEW b \in Rank
        PROVE  /\ gen'[a] = gen'[b] /\ Owed(a)' = Owed(a) /\ b \notin Owed(a) /\ semaphore[b][a] = 0
    BY <1>0, <2>1 DEF Owed
  <2>3. \A a, b \in Rank : b \notin toSignal[a]
    BY <2>2 DEF Owed
  <2>. QED BY <2>1, <2>2, <2>3 DEF CopyInv
<1>2. ASSUME NEW r \in Rank, Reset(r) PROVE CopyInv'
  <2>1. /\ host[r] = "idle" /\ host'[r] = "cleared" /\ \A a \in Rank : a # r => host'[a] = host[a]
        /\ \A b \in Rank : semaphore'[r][b] = 0
        /\ \A a \in Rank : a # r => semaphore'[a] = semaphore[a]
        /\ UNCHANGED <<gen, toCopy, toSignal, ag_out>>
    BY <1>2 DEF Reset, StreamTypes, MemoryTypes
  <2>2. \A a \in Rank : Owed(a)' = Owed(a)
    BY <2>1 DEF Owed
  <2>. SUFFICES ASSUME NEW a \in Rank, NEW b \in Rank
                PROVE  /\ gen'[a] = gen'[b] /\ a \notin Owed(a)'
                       /\ b \in Owed(a)' => host'[b] \in {"ready", "run"} /\ semaphore'[b][a] = 0
                       /\ host'[a] # "run" => b \notin Owed(a)'
                       /\ host'[a] = "ready" => host'[b] \in {"ready", "run"} /\ semaphore'[b][a] = 0
                       /\ host'[a] = "cleared" => semaphore'[a][b] = 0
                       /\ b \in toSignal'[a] \/ semaphore'[b][a] = 1 => ag_out'[b][a] = gen'[a]
                       /\ b \in toSignal'[a] => b \notin toCopy'[a]
    BY DEF CopyInv
  <2>. QED BY <1>0, <2>1, <2>2
<1>3. ASSUME NEW r \in Rank, Launch(r) PROVE CopyInv'
  <2>1. /\ host[r] = "ready" /\ host'[r] = "run" /\ \A a \in Rank : a # r => host'[a] = host[a]
        /\ toCopy'[r] = Rank \ {r} /\ \A a \in Rank : a # r => toCopy'[a] = toCopy[a]
        /\ UNCHANGED <<gen, toSignal, ag_out, semaphore>>
    BY <1>3 DEF Launch, StreamTypes, memory
  <2>2. /\ \A a \in Rank : a # r => Owed(a)' = Owed(a)
        /\ toSignal[r] = {} /\ Owed(r)' = Rank \ {r}
    <3>1. toSignal[r] \subseteq Rank /\ \A b \in Rank : b \notin Owed(r)
      BY <1>0, <2>1 DEF StreamTypes
    <3>. QED BY <2>1, <3>1 DEF Owed
  <2>. SUFFICES ASSUME NEW a \in Rank, NEW b \in Rank
                PROVE  /\ gen'[a] = gen'[b] /\ a \notin Owed(a)'
                       /\ b \in Owed(a)' => host'[b] \in {"ready", "run"} /\ semaphore'[b][a] = 0
                       /\ host'[a] # "run" => b \notin Owed(a)'
                       /\ host'[a] = "ready" => host'[b] \in {"ready", "run"} /\ semaphore'[b][a] = 0
                       /\ host'[a] = "cleared" => semaphore'[a][b] = 0
                       /\ b \in toSignal'[a] \/ semaphore'[b][a] = 1 => ag_out'[b][a] = gen'[a]
                       /\ b \in toSignal'[a] => b \notin toCopy'[a]
    BY DEF CopyInv
  <2>. QED BY <1>0, <2>1, <2>2
<1>4. ASSUME NEW r \in Rank, Return(r) PROVE CopyInv'
  <2>1. /\ host[r] = "run" /\ host'[r] = "idle" /\ \A a \in Rank : a # r => host'[a] = host[a]
        /\ toCopy[r] = {} /\ toSignal[r] = {} /\ GridDone(r)
        /\ UNCHANGED <<gen, toCopy, toSignal, ag_out, semaphore>>
    BY <1>4 DEF Return, CopiesDone, StreamTypes, memory
  <2>2. \A a \in Rank : a # r => semaphore[r][a] = 1
    BY <2>1, AllTaken, AllRowsCame DEF GatherInv, RankInv
  <2>3. \A a \in Rank : Owed(a)' = Owed(a) /\ Owed(r) = {}
    BY <2>1 DEF Owed
  <2>4. ASSUME NEW a \in Rank PROVE host[a] # "ready" /\ r \notin Owed(a)
    <3>1. CASE a = r
      BY <2>1, <2>3, <3>1
    <3>2. CASE a # r
      BY <1>0, <2>2, <3>2
    <3>. QED BY <3>1, <3>2
  <2>. SUFFICES ASSUME NEW a \in Rank, NEW b \in Rank
                PROVE  /\ gen'[a] = gen'[b] /\ a \notin Owed(a)'
                       /\ b \in Owed(a)' => host'[b] \in {"ready", "run"} /\ semaphore'[b][a] = 0
                       /\ host'[a] # "run" => b \notin Owed(a)'
                       /\ host'[a] = "ready" => host'[b] \in {"ready", "run"} /\ semaphore'[b][a] = 0
                       /\ host'[a] = "cleared" => semaphore'[a][b] = 0
                       /\ b \in toSignal'[a] \/ semaphore'[b][a] = 1 => ag_out'[b][a] = gen'[a]
                       /\ b \in toSignal'[a] => b \notin toCopy'[a]
    BY DEF CopyInv
  <2>. QED BY <1>0, <2>1, <2>3, <2>4
<1>5. ASSUME NEW r \in Rank, NEW q \in Rank, CopyRows(r, q) PROVE CopyInv'
  <2>1. /\ q \in toCopy[r] /\ toCopy'[r] = toCopy[r] \ {q} /\ toSignal'[r] = toSignal[r] \cup {q}
        /\ \A a \in Rank : a # r => toCopy'[a] = toCopy[a] /\ toSignal'[a] = toSignal[a]
        /\ ag_out'[q][r] = gen[r]
        /\ \A a, b \in Rank : (a # q \/ b # r) => ag_out'[a][b] = ag_out[a][b]
        /\ UNCHANGED <<host, gen, semaphore>>
    BY <1>5 DEF CopyRows, StreamTypes, MemoryTypes
  <2>2. \A a \in Rank : Owed(a)' = Owed(a)
    BY <2>1 DEF Owed
  <2>. SUFFICES ASSUME NEW a \in Rank, NEW b \in Rank
                PROVE  /\ b \in toSignal'[a] \/ semaphore'[b][a] = 1 => ag_out'[b][a] = gen'[a]
                       /\ b \in toSignal'[a] => b \notin toCopy'[a]
    BY <1>0, <2>1, <2>2 DEF CopyInv
  <2>. QED BY <1>0, <2>1
<1>6. ASSUME NEW r \in Rank, NEW q \in Rank, SetSemaphore(r, q) PROVE CopyInv'
  <2>1. /\ q \in toSignal[r] /\ toSignal'[r] = toSignal[r] \ {q}
        /\ \A a \in Rank : a # r => toSignal'[a] = toSignal[a]
        /\ semaphore'[q][r] = 1
        /\ \A a, b \in Rank : (a # q \/ b # r) => semaphore'[a][b] = semaphore[a][b]
        /\ UNCHANGED <<host, gen, ag_out, toCopy>>
    BY <1>6 DEF SetSemaphore, StreamTypes, MemoryTypes
  <2>2. /\ \A a \in Rank : a # r => Owed(a)' = Owed(a)
        /\ Owed(r)' = Owed(r) \ {q} /\ q \in Owed(r)
    BY <1>0, <2>1 DEF Owed
  <2>3. host[r] = "run" /\ host[q] \in {"ready", "run"} /\ q # r
    BY <1>0, <2>2, <2>1 DEF StreamTypes
  <2>4. ag_out[q][r] = gen[r]
    BY <1>0, <2>1
  <2>. SUFFICES ASSUME NEW a \in Rank, NEW b \in Rank
                PROVE  /\ gen'[a] = gen'[b] /\ a \notin Owed(a)'
                       /\ b \in Owed(a)' => host'[b] \in {"ready", "run"} /\ semaphore'[b][a] = 0
                       /\ host'[a] # "run" => b \notin Owed(a)'
                       /\ host'[a] = "ready" => host'[b] \in {"ready", "run"} /\ semaphore'[b][a] = 0
                       /\ host'[a] = "cleared" => semaphore'[a][b] = 0
                       /\ b \in toSignal'[a] \/ semaphore'[b][a] = 1 => ag_out'[b][a] = gen'[a]
                       /\ b \in toSignal'[a] => b \notin toCopy'[a]
    BY DEF CopyInv
  <2>5. CASE a = r /\ b = q
    BY <1>0, <2>1, <2>2, <2>3, <2>4, <2>5
  <2>6. CASE ~(a = r /\ b = q)
    <3>1. semaphore'[b][a] = semaphore[b][a] /\ (b \in Owed(a)' => b \in Owed(a))
          /\ (b \in toSignal'[a] => b \in toSignal[a]) /\ host' = host /\ gen' = gen
          /\ ag_out' = ag_out /\ toCopy' = toCopy
      BY <2>1, <2>2, <2>6
    <3>2. host[a] = "cleared" => semaphore'[a][b] = 0
      BY <1>0, <2>1, <2>3
    <3>3. a \notin Owed(a)'
      BY <1>0, <2>2
    <3>. QED BY <1>0, <3>1, <3>2, <3>3
  <2>. QED BY <2>5, <2>6
<1>7. ASSUME UNCHANGED <<streams, ag_out, semaphore>> PROVE CopyInv'
  BY <1>7, CopyFramed DEF streams
<1>8. ASSUME NEW k \in K,
             \/ \E a \in Role : Receive(k, a)
             \/ Claim(k) \/ TakeTask(k) \/ StoreTile(k)
             \/ \E c \in CTA : Load(k, c)
      PROVE  UNCHANGED <<streams, ag_out, semaphore>>
  BY <1>8 DEF Receive, Claim, TakeTask, Load, StoreTile, memory
<1>. QED BY <1>1, <1>2, <1>3, <1>4, <1>5, <1>6, <1>7, <1>8, Actions

----------------------------------------------------------------------------
(* Clusters: ClusterInv. A signal sent to a rank never takes rows away.      *)
LEMMA RowsOfKept ==
  ASSUME NEW r \in Rank, NEW t \in Task, RowsOf(r, t),
         \A a \in Rank : semaphore[r][a] = 1 => semaphore'[r][a] = 1
  PROVE  RowsOf(r, t)'
<1>. PICK l \in Nat \ {0}, w \in Nat \ {0} :
       /\ l = LOCAL_GEMM_M_CLUSTERS /\ w = WORLD_SIZE /\ GEMM_M_CLUSTERS = Times(w, l)
  BY Sizes
<1>. PICK m \in Int : m = t[1] /\ m \in 0 .. Times(w, l) - 1
  BY Sizes DEF Task
<1>. PICK q, n : q = m \div l /\ Euclid(m, l, q, n)
  BY Split
<1>1. q \in Rank
  BY Digits DEF Rank, Euclid
<1>. QED BY <1>1 DEF RowsOf

LEMMA SignalsStay ==
  ASSUME GatherTypes, NEW r \in Rank, NEW q \in Rank, CopyRows(r, q) \/ SetSemaphore(r, q),
         NEW b \in Rank, NEW a \in Rank, semaphore[b][a] = 1
  PROVE  semaphore'[b][a] = 1
<1>1. CASE semaphore' = semaphore
  BY <1>1
<1>2. CASE semaphore' = [semaphore EXCEPT ![q][r] = 1]
  <2>1. semaphore'[b] = IF b = q THEN [semaphore[b] EXCEPT ![r] = 1] ELSE semaphore[b]
    BY <1>2 DEF GatherTypes, MemoryTypes
  <2>2. semaphore[b] \in [Rank -> {0, 1}]
    BY DEF GatherTypes, MemoryTypes
  <2>. QED BY <2>1, <2>2
<1>. QED BY <1>1, <1>2 DEF CopyRows, SetSemaphore

LEMMA RowsOfFramed ==
  ASSUME NEW k \in K, \A a \in Rank : semaphore[k[1]][a] = 1 => semaphore'[k[1]][a] = 1
  PROVE  \A t \in Task : RowsOf(k[1], t) => RowsOf(k[1], t)'
BY RowsOfKept, Names

LEMMA ClusterFramed ==
  ASSUME GatherTypes, NEW k \in K, ClusterInv(k),
         place'[k] = place[k], job'[k] = job[k], packet'[k] = packet[k],
         unread'[k] = unread[k], staged'[k] = staged[k],
         gen'[k[1]] = gen[k[1]], host[k[1]] = "run" => host'[k[1]] = "run",
         \A a \in Rank : semaphore[k[1]][a] = 1 => semaphore'[k[1]][a] = 1
  PROVE  ClusterInv(k)'
<1>1. \A t \in Task : RowsOf(k[1], t) => RowsOf(k[1], t)'
  BY RowsOfFramed
<1>2. LaneInv(k)'
  BY <1>1 DEF ClusterInv, LaneInv, Claimed
<1>3. StageInv(k)'
  BY DEF ClusterInv, StageInv, Pending
<1>. QED BY <1>2, <1>3 DEF ClusterInv

(* A cluster at rest stays well formed, and starts that way.                 *)
LEMMA ClusterAtRest ==
  ASSUME GatherTypes, NEW k \in K, ClusterInv(k), unread[k] = {}, \A a \in Role : place[k][a] = "left",
         job'[k] = job[k], packet'[k] = packet[k], unread'[k] = unread[k], staged'[k] = staged[k],
         \/ place'[k] = place[k]
         \/ /\ place'[k] = [a \in Role |-> IF a = "tma0" THEN "publish" ELSE "idle"]
            /\ host'[k[1]] = "run"
  PROVE  ClusterInv(k)'
<1>1. LaneInv(k)'
  BY Names DEF ClusterInv, LaneInv, Claimed
<1>2. StageInv(k)'
  <2>1. \A a \in Role : Pending(k, a) = 0 /\ Pending(k, a)' = 0
    BY Names DEF Pending
  <2>. SUFFICES ASSUME NEW c \in CTA
                PROVE  /\ Len(staged'[k][c]) + Pending(k, c)' = Pending(k, "con")'
                       /\ \A i \in 1 .. Len(staged'[k][c]) : staged'[k][c][i] = gen'[k[1]]
    BY DEF StageInv
  <2>2. c \in Role /\ "con" \in Role /\ Len(staged[k][c]) \in Nat
    BY Names, LenProperties DEF GatherTypes, ClusterTypes
  <2>3. Len(staged[k][c]) + 0 = 0
    BY <2>1, <2>2 DEF ClusterInv, StageInv
  <2>4. Len(staged[k][c]) = 0
    BY <2>2, <2>3
  <2>. QED BY <2>1, <2>2, <2>4
<1>. QED BY <1>1, <1>2 DEF ClusterInv

LEMMA ReceiveCluster ==
  ASSUME GatherTypes, NEW k \in K, ClusterInv(k), NEW a \in Role, Receive(k, a)
  PROVE  ClusterInv(k)'
<1>1. /\ UNCHANGED <<host, gen, semaphore>>
      /\ a \in unread[k] /\ place[k][a] = "idle" /\ unread'[k] = unread[k] \ {a}
      /\ packet'[k] = packet[k] /\ staged'[k] = staged[k]
      /\ job'[k][a] = packet[k] /\ \A b \in Role : b # a => job'[k][b] = job[k][b]
      /\ \A b \in Role : b # a => place'[k][b] = place[k][b]
      /\ place'[k][a] = IF packet[k] = NoTask THEN "left" ELSE "work"
  BY ReceiveFacts DEF streams, memory, Kept
<1>2. \A t \in Task : RowsOf(k[1], t) => RowsOf(k[1], t)'
  BY <1>1, RowsOfFramed
<1>3. LaneInv(k) /\ StageInv(k)
  BY DEF ClusterInv
<1>4. LaneInv(k)'
  BY <1>1, <1>2, <1>3, Names DEF LaneInv, Claimed
<1>5. StageInv(k)'
  <2>1. \A b \in Role : Pending(k, b)' = Pending(k, b)
    BY <1>1 DEF Pending
  <2>. QED BY <1>1, <1>3, <2>1, Names DEF StageInv
<1>. QED BY <1>4, <1>5 DEF ClusterInv

LEMMA ClaimCluster ==
  ASSUME GatherTypes, NEW k \in K, ClusterInv(k), Claim(k)
  PROVE  ClusterInv(k)'
<1>1. /\ UNCHANGED <<host, gen, semaphore>> /\ place[k]["tma0"] = "publish" /\ unread[k] = {}
      /\ job'[k] = job[k] /\ staged'[k] = staged[k]
      /\ \A b \in Role : b # "tma0" => place'[k][b] = place[k][b]
      /\ \/ place'[k]["tma0"] = "claimed" /\ packet'[k] = packet[k] /\ unread'[k] = {}
         \/ place'[k]["tma0"] = "idle" /\ packet'[k] = NoTask /\ unread'[k] = Role
  BY ClaimFacts DEF streams, memory, Kept
<1>2. \A t \in Task : RowsOf(k[1], t) => RowsOf(k[1], t)'
  BY <1>1, RowsOfFramed
<1>3. LaneInv(k) /\ StageInv(k)
  BY DEF ClusterInv
<1>4. LaneInv(k)'
  BY <1>1, <1>2, <1>3, Names DEF LaneInv, Claimed
<1>5. StageInv(k)'
  <2>1. \A b \in Role : Pending(k, b)' = Pending(k, b)
    BY <1>1, Names DEF Pending
  <2>. QED BY <1>1, <1>3, <2>1, Names DEF StageInv
<1>. QED BY <1>4, <1>5 DEF ClusterInv

LEMMA TakeCluster ==
  ASSUME GatherTypes, NEW k \in K, ClusterInv(k), TakeTask(k)
  PROVE  ClusterInv(k)'
<1>. PICK r, p : r = k[1] /\ p = headR[k]
  OBVIOUS
<1>1. /\ UNCHANGED <<host, gen, semaphore>> /\ Claimed(k) /\ RowsThere(r, p) /\ p \in Position
      /\ job'[k] = job[k] /\ staged'[k] = staged[k]
      /\ \A b \in Role : b # "tma0" => place'[k][b] = place[k][b]
      /\ place'[k]["tma0"] = "idle" /\ packet'[k] = TaskAt(r, p) /\ unread'[k] = Role
  BY TakeFacts DEF streams, memory, Kept
<1>2. \A t \in Task : RowsOf(k[1], t) => RowsOf(k[1], t)'
  BY <1>1, RowsOfFramed
<1>3. LaneInv(k) /\ StageInv(k) /\ unread[k] = {} /\ place[k]["tma0"] = "claimed"
  BY <1>1 DEF ClusterInv, LaneInv, Claimed
<1>. PICK t \in Task : t = TaskAt(r, p) /\ t # NoTask /\ t[1] \div LOCAL_GEMM_M_CLUSTERS = Needed(r, p)
  BY <1>1, TaskAtFacts, Names
<1>4. RowsOf(k[1], t)'
  BY <1>1, <1>2 DEF RowsOf, RowsThere
<1>5. LaneInv(k)'
  BY <1>1, <1>2, <1>3, <1>4, Names DEF LaneInv, Claimed
<1>6. StageInv(k)'
  <2>1. \A b \in Role : Pending(k, b)' = Pending(k, b) + 1
    BY <1>1, <1>3, Names DEF Pending
  <2>2. \A b \in Role : Pending(k, b) \in Nat
    BY DEF Pending
  <2>3. \A c \in CTA : Len(staged[k][c]) \in Nat
    BY LenProperties DEF GatherTypes, ClusterTypes
  <2>4. ASSUME NEW c \in CTA PROVE Len(staged[k][c]) + Pending(k, c)' = Pending(k, "con")'
    <3>1. c \in Role /\ "con" \in Role
      BY Names
    <3>. PICK n \in Nat, x \in Nat, y \in Nat :
           n = Len(staged[k][c]) /\ x = Pending(k, c) /\ y = Pending(k, "con")
      BY <2>2, <2>3, <3>1
    <3>2. n + x = y
      BY <1>3 DEF StageInv
    <3>3. Pending(k, c)' = x + 1 /\ Pending(k, "con")' = y + 1
      BY <2>1, <3>1
    <3>. QED BY <3>2, <3>3
  <2>. QED BY <1>1, <1>3, <2>4 DEF StageInv
<1>. QED BY <1>5, <1>6 DEF ClusterInv

LEMMA LoadCluster ==
  ASSUME GatherTypes, CopyInv, NEW k \in K, ClusterInv(k), NEW c \in CTA, Load(k, c)
  PROVE  ClusterInv(k)'
<1>1. /\ UNCHANGED <<host, gen, semaphore>>
      /\ place[k][c] = "work" /\ place'[k][c] = IF c = "tma0" THEN "publish" ELSE "idle"
      /\ \A b \in Role : b # c => place'[k][b] = place[k][b]
      /\ job'[k] = job[k] /\ packet'[k] = packet[k] /\ unread'[k] = unread[k]
      /\ staged[k][c] \in Seq(Int) /\ gen[k[1]] \in Int
      /\ staged'[k][c] = Append(staged[k][c], gen[k[1]])
      /\ \A d \in CTA : d # c => staged'[k][d] = staged[k][d]
  BY LoadFacts DEF streams, memory, Kept
<1>2. \A t \in Task : RowsOf(k[1], t) => RowsOf(k[1], t)'
  BY <1>1, RowsOfFramed
<1>3. LaneInv(k) /\ StageInv(k) /\ c \in Role /\ c # "con"
  BY Names DEF ClusterInv, CTA
<1>4. LaneInv(k)'
  BY <1>1, <1>2, <1>3, Names DEF LaneInv, Claimed
<1>5. StageInv(k)'
  <2>1. /\ \A b \in Role : b # c => Pending(k, b)' = Pending(k, b)
        /\ Pending(k, c)' = Pending(k, c) - 1
    BY <1>1, <1>3 DEF Pending
  <2>2. \A b \in Role : Pending(k, b) \in Nat
    BY DEF Pending
  <2>3. /\ Len(staged'[k][c]) = Len(staged[k][c]) + 1 /\ Len(staged[k][c]) \in Nat
        /\ \A i \in 1 .. Len(staged'[k][c]) :
             staged'[k][c][i] = IF i <= Len(staged[k][c]) THEN staged[k][c][i] ELSE gen[k[1]]
    BY <1>1, AppendProperties, LenProperties
  <2>4. ASSUME NEW d \in CTA PROVE Len(staged'[k][d]) + Pending(k, d)' = Pending(k, "con")'
    <3>1. d \in Role /\ "con" \in Role /\ Len(staged[k][d]) \in Nat
      BY Names, LenProperties DEF GatherTypes, ClusterTypes
    <3>. PICK n \in Nat, x \in Nat, y \in Nat :
           n = Len(staged[k][d]) /\ x = Pending(k, d) /\ y = Pending(k, "con")
      BY <2>2, <3>1
    <3>2. n + x = y
      BY <1>3 DEF StageInv
    <3>3. Pending(k, "con")' = y
      BY <1>3, <2>1, <3>1
    <3>4. CASE d = c
      <4>1. Len(staged'[k][d]) = n + 1 /\ Pending(k, d)' = x - 1
        BY <2>1, <2>3, <3>4
      <4>. QED BY <3>2, <3>3, <4>1
    <3>5. CASE d # c
      <4>1. Len(staged'[k][d]) = n /\ Pending(k, d)' = x
        BY <1>1, <2>1, <3>1, <3>5
      <4>. QED BY <3>2, <3>3, <4>1
    <3>. QED BY <3>4, <3>5
  <2>5. ASSUME NEW d \in CTA, NEW i \in 1 .. Len(staged'[k][d]) PROVE staged'[k][d][i] = gen'[k[1]]
    <3>1. CASE d = c
      <4>1. i \in Nat \ {0} /\ (i <= Len(staged[k][c]) => i \in 1 .. Len(staged[k][c]))
        BY <2>3, <3>1
      <4>2. i \in 1 .. Len(staged[k][c]) => staged[k][c][i] = gen[k[1]]
        BY <1>3 DEF StageInv
      <4>. QED BY <1>1, <2>3, <3>1, <4>1, <4>2
    <3>2. CASE d # c
      BY <1>1, <1>3, <3>2 DEF StageInv
    <3>. QED BY <3>1, <3>2
  <2>. QED BY <2>4, <2>5 DEF StageInv
<1>. QED BY <1>4, <1>5 DEF ClusterInv

LEMMA StoreCluster ==
  ASSUME GatherTypes, NEW k \in K, ClusterInv(k), StoreTile(k)
  PROVE  ClusterInv(k)'
<1>1. /\ UNCHANGED <<host, gen, semaphore>>
      /\ place[k]["con"] = "work" /\ place'[k]["con"] = "idle"
      /\ \A b \in Role : b # "con" => place'[k][b] = place[k][b]
      /\ job'[k] = job[k] /\ packet'[k] = packet[k] /\ unread'[k] = unread[k]
      /\ \A c \in CTA : /\ staged[k][c] \in Seq(Int) /\ staged[k][c] # <<>>
                        /\ staged'[k][c] = Tail(staged[k][c])
  BY StoreFacts DEF streams, Kept
<1>2. \A t \in Task : RowsOf(k[1], t) => RowsOf(k[1], t)'
  BY <1>1, RowsOfFramed
<1>3. LaneInv(k) /\ StageInv(k)
  BY DEF ClusterInv
<1>4. LaneInv(k)'
  BY <1>1, <1>2, <1>3, Names DEF LaneInv, Claimed
<1>5. StageInv(k)'
  <2>1. /\ \A c \in CTA : Pending(k, c)' = Pending(k, c)
        /\ Pending(k, "con")' = Pending(k, "con") - 1
    BY <1>1, Names DEF Pending, CTA
  <2>2. \A b \in Role : Pending(k, b) \in Nat
    BY DEF Pending
  <2>3. ASSUME NEW c \in CTA
        PROVE  /\ Len(staged'[k][c]) = Len(staged[k][c]) - 1 /\ Len(staged[k][c]) \in Nat
               /\ \A i \in 1 .. Len(staged'[k][c]) : staged'[k][c][i] = staged[k][c][i + 1]
    <3>. PICK s \in Seq(Int) : s = staged[k][c] /\ s # <<>> /\ staged'[k][c] = Tail(s)
      BY <1>1
    <3>1. Len(Tail(s)) = Len(s) - 1 /\ \A i \in 1 .. Len(Tail(s)) : Tail(s)[i] = s[i + 1]
      BY HeadTailProperties
    <3>. QED BY <3>1, LenProperties
  <2>4. ASSUME NEW c \in CTA PROVE Len(staged'[k][c]) + Pending(k, c)' = Pending(k, "con")'
    <3>1. c \in Role /\ "con" \in Role
      BY Names
    <3>. PICK n \in Nat, x \in Nat, y \in Nat :
           n = Len(staged[k][c]) /\ x = Pending(k, c) /\ y = Pending(k, "con")
      BY <2>2, <2>3, <3>1
    <3>2. n + x = y
      BY <1>3 DEF StageInv
    <3>3. Pending(k, c)' = x /\ Pending(k, "con")' = y - 1 /\ Len(staged'[k][c]) = n - 1
      BY <2>1, <2>3
    <3>. QED BY <3>2, <3>3
  <2>5. ASSUME NEW c \in CTA, NEW i \in 1 .. Len(staged'[k][c]) PROVE staged'[k][c][i] = gen'[k[1]]
    <3>1. i + 1 \in 1 .. Len(staged[k][c])
      BY <2>3
    <3>2. staged[k][c][i + 1] = gen[k[1]]
      BY <1>3, <3>1 DEF StageInv
    <3>. QED BY <1>1, <2>3, <3>2
  <2>. QED BY <2>4, <2>5 DEF StageInv
<1>. QED BY <1>4, <1>5 DEF ClusterInv

LEMMA ClusterKept ==
  ASSUME GatherInv, Next, NEW j \in K
  PROVE  ClusterInv(j)'
<1>. GatherTypes /\ CopyInv /\ ClusterInv(j) /\ j[1] \in Rank
  BY Names DEF GatherInv
<1>0. \A k \in K : ClusterInv(k)
  BY DEF GatherInv
<1>1. ASSUME host[j[1]] # "run" PROVE unread[j] = {} /\ \A a \in Role : place[j][a] = "left"
  BY <1>1 DEF ClusterInv, LaneInv
<1>2. ASSUME Prepare PROVE ClusterInv(j)'
  <2>1. UNCHANGED cluster /\ host[j[1]] = "cleared"
    BY <1>2 DEF Prepare, AllCleared
  <2>. QED BY <1>1, <2>1, ClusterAtRest DEF cluster
<1>3. ASSUME NEW r \in Rank, Reset(r) PROVE ClusterInv(j)'
  <2>1. UNCHANGED <<cluster, gen>> /\ host' = [host EXCEPT ![r] = "cleared"] /\ host[r] = "idle"
        /\ semaphore' = [semaphore EXCEPT ![r] = [q \in Rank |-> 0]]
    BY <1>3 DEF Reset
  <2>2. CASE j[1] = r
    BY <1>1, <2>1, <2>2, ClusterAtRest DEF cluster
  <2>3. CASE j[1] # r
    <3>1. host'[j[1]] = host[j[1]] /\ semaphore'[j[1]] = semaphore[j[1]]
      BY <2>1, <2>3 DEF GatherTypes, StreamTypes, MemoryTypes
    <3>. QED BY <2>1, <3>1, ClusterFramed DEF cluster
  <2>. QED BY <2>2, <2>3
<1>4. ASSUME NEW r \in Rank, Launch(r) PROVE ClusterInv(j)'
  <2>1. UNCHANGED <<gen, memory, job, headR, packet, unread, staged>>
        /\ host' = [host EXCEPT ![r] = "run"] /\ host[r] = "ready"
        /\ place'[j] = IF j[1] = r THEN [a \in Role |-> IF a = "tma0" THEN "publish" ELSE "idle"]
                       ELSE place[j]
    BY <1>4 DEF Launch
  <2>2. CASE j[1] = r
    <3>1. host'[j[1]] = "run"
      BY <2>1, <2>2 DEF GatherTypes, StreamTypes
    <3>. QED BY <1>1, <2>1, <2>2, <3>1, ClusterAtRest
  <2>3. CASE j[1] # r
    <3>1. host'[j[1]] = host[j[1]]
      BY <2>1, <2>3 DEF GatherTypes, StreamTypes
    <3>. QED BY <2>1, <2>3, <3>1, ClusterFramed DEF memory
  <2>. QED BY <2>2, <2>3
<1>5. ASSUME NEW r \in Rank, Return(r) PROVE ClusterInv(j)'
  <2>1. UNCHANGED <<cluster, gen, memory>> /\ host' = [host EXCEPT ![r] = "idle"] /\ GridDone(r)
    BY <1>5 DEF Return
  <2>2. CASE j[1] = r
    <3>1. \A a \in Role : place[j][a] = "left"
      BY <2>1, <2>2 DEF GridDone
    <3>2. unread[j] = {}
      BY <3>1 DEF ClusterInv, LaneInv, GatherTypes, ClusterTypes
    <3>. QED BY <2>1, <3>1, <3>2, ClusterAtRest DEF cluster
  <2>3. CASE j[1] # r
    <3>1. host'[j[1]] = host[j[1]]
      BY <2>1, <2>3 DEF GatherTypes, StreamTypes
    <3>. QED BY <2>1, <3>1, ClusterFramed DEF cluster, memory
  <2>. QED BY <2>2, <2>3
<1>6. ASSUME NEW r \in Rank, NEW q \in Rank, CopyRows(r, q) \/ SetSemaphore(r, q) PROVE ClusterInv(j)'
  <2>1. UNCHANGED <<cluster, gen, host>>
        /\ (semaphore' = semaphore \/ semaphore' = [semaphore EXCEPT ![q][r] = 1])
    BY <1>6 DEF CopyRows, SetSemaphore
  <2>2. \A a \in Rank : semaphore[j[1]][a] = 1 => semaphore'[j[1]][a] = 1
    BY <1>6, SignalsStay
  <2>. QED BY <2>1, <2>2, ClusterFramed DEF cluster
<1>7. ASSUME NEW k \in K, k # j, OthersKept(k), UNCHANGED <<host, gen, semaphore>> PROVE ClusterInv(j)'
  <2>1. /\ place'[j] = place[j] /\ job'[j] = job[j] /\ packet'[j] = packet[j]
        /\ unread'[j] = unread[j] /\ staged'[j] = staged[j]
    BY <1>7 DEF OthersKept
  <2>. QED BY <1>7, <2>1, ClusterFramed
<1>8. ASSUME NEW k \in K, NEW a \in Role, Receive(k, a) PROVE ClusterInv(j)'
  <2>1. OthersKept(k) /\ UNCHANGED <<host, gen, semaphore>>
    BY <1>8, ReceiveFacts DEF streams, memory
  <2>. QED BY <1>7, <1>8, <2>1, ReceiveCluster
<1>9. ASSUME NEW k \in K, Claim(k) PROVE ClusterInv(j)'
  <2>1. OthersKept(k) /\ UNCHANGED <<host, gen, semaphore>>
    BY <1>9, ClaimFacts DEF streams, memory
  <2>. QED BY <1>7, <1>9, <2>1, ClaimCluster
<1>10. ASSUME NEW k \in K, TakeTask(k) PROVE ClusterInv(j)'
  <2>1. OthersKept(k) /\ UNCHANGED <<host, gen, semaphore>>
    BY <1>10, TakeFacts DEF streams, memory
  <2>. QED BY <1>7, <1>10, <2>1, TakeCluster
<1>11. ASSUME NEW k \in K, NEW c \in CTA, Load(k, c) PROVE ClusterInv(j)'
  <2>1. OthersKept(k) /\ UNCHANGED <<host, gen, semaphore>>
    BY <1>0, <1>11, LoadFacts DEF streams, memory
  <2>. QED BY <1>0, <1>7, <1>11, <2>1, LoadCluster
<1>12. ASSUME NEW k \in K, StoreTile(k) PROVE ClusterInv(j)'
  <2>1. OthersKept(k) /\ UNCHANGED <<host, gen, semaphore>>
    BY <1>0, <1>12, StoreFacts DEF streams
  <2>. QED BY <1>0, <1>7, <1>12, <2>1, StoreCluster
<1>. QED BY <1>2, <1>3, <1>4, <1>5, <1>6, <1>8, <1>9, <1>10, <1>11, <1>12, Actions

----------------------------------------------------------------------------
(* The queue of a rank: QueueInv.                                            *)
LEMMA RowsThereFramed ==
  ASSUME NEW r \in Rank, \A a \in Rank : semaphore[r][a] = 1 => semaphore'[r][a] = 1
  PROVE  \A p \in Position : RowsThere(r, p) => RowsThere(r, p)'
BY TaskAtFacts DEF RowsThere

LEMMA QueueFramed ==
  ASSUME NEW r \in Rank, QueueInv(r),
         head'[r] = head[r], filled'[r] = filled[r],
         host'[r] \in {"cleared", "ready"} => host[r] \in {"cleared", "ready"},
         host'[r] = "run" => host[r] = "run",
         \A a \in Rank : semaphore[r][a] = 1 => semaphore'[r][a] = 1,
         \A k \in K : k[1] = r => /\ Claimed(k)' <=> Claimed(k)
                                  /\ Claimed(k) => headR'[k] = headR[k]
                                  /\ \A a \in Role : Over(k, a)' => Over(k, a)
  PROVE  QueueInv(r)'
<1>1. \A p \in Position : RowsThere(r, p) => RowsThere(r, p)'
  BY RowsThereFramed
<1>. QED BY <1>1 DEF QueueInv

LEMMA OthersFramed ==
  ASSUME NEW k \in K, OthersKept(k), NEW j \in K, j # k
  PROVE  /\ Claimed(j)' <=> Claimed(j)
         /\ headR'[j] = headR[j]
         /\ \A a \in Role : Over(j, a)' <=> Over(j, a)
         /\ \A t \in Task : InFlight(j, t)' <=> InFlight(j, t)
BY DEF OthersKept, Claimed, Over, InFlight

LEMMA ReceiveQueue ==
  ASSUME GatherTypes, NEW r \in Rank, QueueInv(r), NEW k \in K, NEW a \in Role, Receive(k, a)
  PROVE  QueueInv(r)'
<1>1. /\ OthersKept(k) /\ UNCHANGED <<host, semaphore, head, filled>>
      /\ a \in unread[k] /\ place[k][a] = "idle" /\ unread'[k] = unread[k] \ {a}
      /\ packet'[k] = packet[k] /\ headR'[k] = headR[k]
      /\ \A b \in Role : b # a => place'[k][b] = place[k][b]
      /\ place'[k][a] = IF packet[k] = NoTask THEN "left" ELSE "work"
  BY ReceiveFacts DEF streams, memory, queue, Kept
<1>2. /\ Claimed(k)' <=> Claimed(k)
      /\ \A b \in Role : Over(k, b)' => Over(k, b)
  BY <1>1, Names DEF Claimed, Over
<1>3. \A j \in K : j[1] = r => /\ Claimed(j)' <=> Claimed(j)
                               /\ Claimed(j) => headR'[j] = headR[j]
                               /\ \A b \in Role : Over(j, b)' => Over(j, b)
  BY <1>1, <1>2, OthersFramed
<1>. QED BY <1>1, <1>3, QueueFramed

LEMMA WorkQueue ==
  ASSUME GatherTypes, CopyInv, NEW r \in Rank, QueueInv(r), NEW k \in K, ClusterInv(k),
         StoreTile(k) \/ \E c \in CTA : Load(k, c)
  PROVE  QueueInv(r)'
<1>1. /\ OthersKept(k) /\ UNCHANGED <<host, semaphore, head, filled>>
      /\ packet'[k] = packet[k] /\ headR'[k] = headR[k] /\ unread'[k] = unread[k]
      /\ \E a \in Role : /\ \A b \in Role : b # a => place'[k][b] = place[k][b]
                         /\ place[k][a] = "work" /\ place'[k][a] \in {"idle", "publish"}
  <2>1. CASE StoreTile(k)
    BY <2>1, StoreFacts, Names DEF streams, queue, Kept
  <2>2. CASE \E c \in CTA : Load(k, c)
    BY <2>2, LoadFacts, Names DEF streams, memory, queue, Kept
  <2>. QED BY <2>1, <2>2
<1>2. /\ Claimed(k)' <=> Claimed(k)
      /\ \A b \in Role : Over(k, b)' => Over(k, b)
  BY <1>1, Names DEF Claimed, Over
<1>3. \A j \in K : j[1] = r => /\ Claimed(j)' <=> Claimed(j)
                               /\ Claimed(j) => headR'[j] = headR[j]
                               /\ \A b \in Role : Over(j, b)' => Over(j, b)
  BY <1>1, <1>2, OthersFramed
<1>. QED BY <1>1, <1>3, QueueFramed

LEMMA ClaimQueue ==
  ASSUME GatherTypes, NEW r \in Rank, QueueInv(r), NEW k \in K, ClusterInv(k), Claim(k)
  PROVE  QueueInv(r)'
<1>1. /\ OthersKept(k) /\ UNCHANGED <<host, semaphore, filled>>
      /\ place[k]["tma0"] = "publish" /\ unread[k] = {} /\ headR'[k] = head[k[1]]
      /\ \A q \in Rank : q # k[1] => head'[q] = head[q]
      /\ \A b \in Role : b # "tma0" => place'[k][b] = place[k][b]
      /\ IF head[k[1]] < TASK_COUNT
         THEN /\ head'[k[1]] = head[k[1]] + 1 /\ place'[k]["tma0"] = "claimed"
              /\ packet'[k] = packet[k] /\ unread'[k] = {}
         ELSE /\ head'[k[1]] = head[k[1]] /\ place'[k]["tma0"] = "idle"
              /\ packet'[k] = NoTask /\ unread'[k] = Role
  BY ClaimFacts DEF streams, memory, Kept
<1>2. \A j \in K : j # k => /\ Claimed(j)' <=> Claimed(j)
                            /\ headR'[j] = headR[j]
                            /\ \A b \in Role : Over(j, b)' <=> Over(j, b)
  BY <1>1, OthersFramed
<1>3. CASE k[1] # r
  BY <1>1, <1>2, <1>3, QueueFramed
<1>4. CASE k[1] = r
  <2>1. host[r] = "run"
    BY <1>1, <1>4, Names DEF ClusterInv, LaneInv, GatherTypes, StreamTypes
  <2>. PICK h \in 0 .. TASK_COUNT : h = head[r]
    BY DEF GatherTypes, MemoryTypes
  <2>2. /\ \A j \in K : j[1] = r /\ Claimed(j) => headR[j] < h /\ headR[j] \in filled[r] /\ headR[j] \in Nat
        /\ \A i, j \in K : i[1] = r /\ j[1] = r /\ Claimed(i) /\ Claimed(j) /\ headR[i] = headR[j] => i = j
        /\ \A p \in filled[r] : p < h => \E j \in K : j[1] = r /\ Claimed(j) /\ headR[j] = p
        /\ \A j \in K, a \in Role : j[1] = r /\ Over(j, a) => h = TASK_COUNT
        /\ \A p \in Position \ filled[r] : p < h /\ RowsThere(r, p)'
    BY <1>1, <2>1, RowsThereFramed DEF QueueInv, GatherTypes, ClusterTypes
  <2>3. ~Claimed(k)
    BY <1>1 DEF Claimed
  <2>4. CASE h < TASK_COUNT
    <3>1. head'[r] = h + 1 /\ headR'[k] = h /\ Claimed(k)' /\ filled'[r] = filled[r]
      BY <1>1, <1>4, <2>4 DEF Claimed
    <3>2. h \in Position /\ h \in filled[r]
      BY <2>2, <2>4, Sizes DEF Position
    <3>3. \A a \in Role : ~Over(k, a)'
      <4>1. \A a \in Role : ~Over(k, a)
        BY <1>4, <2>2, <2>4
      <4>. QED BY <1>1, <1>4, <2>4, <4>1, Names DEF Over
    <3>4. \A j \in K : j[1] = r /\ Claimed(j)' => headR'[j] < head'[r] /\ headR'[j] \in filled'[r]
      <4>. SUFFICES ASSUME NEW j \in K, j[1] = r, Claimed(j)'
                    PROVE  headR'[j] < head'[r] /\ headR'[j] \in filled'[r]
        OBVIOUS
      <4>1. CASE j = k
        BY <3>1, <3>2, <4>1, Sizes
      <4>2. CASE j # k
        BY <1>2, <2>2, <3>1, <4>2, Sizes
      <4>. QED BY <4>1, <4>2
    <3>5. \A i, j \in K : i[1] = r /\ j[1] = r /\ Claimed(i)' /\ Claimed(j)' /\ headR'[i] = headR'[j] => i = j
      BY <1>2, <2>2, <3>1
    <3>6. \A p \in filled'[r] : p < head'[r] => \E j \in K : j[1] = r /\ Claimed(j)' /\ headR'[j] = p
      <4>. SUFFICES ASSUME NEW p \in filled[r], p < h + 1
                    PROVE  \E j \in K : j[1] = r /\ Claimed(j)' /\ headR'[j] = p
        BY <3>1
      <4>1. p \in Int /\ h \in Int
        BY Sizes DEF GatherTypes, MemoryTypes, Position
      <4>2. CASE p = h
        BY <1>4, <3>1, <4>2
      <4>3. CASE p < h
        BY <1>2, <2>2, <2>3, <4>3
      <4>. QED BY <4>1, <4>2, <4>3
    <3>7. \A j \in K, a \in Role : j[1] = r /\ Over(j, a)' => head'[r] = TASK_COUNT
      BY <1>2, <2>2, <2>4, <3>3
    <3>8. \A p \in Position \ filled'[r] : p < head'[r] /\ RowsThere(r, p)'
      BY <2>2, <3>1, Sizes DEF Position
    <3>. QED BY <1>1, <2>1, <3>4, <3>5, <3>6, <3>7, <3>8 DEF QueueInv
  <2>5. CASE ~(h < TASK_COUNT)
    <3>1. head'[r] = h /\ h = TASK_COUNT /\ ~Claimed(k)' /\ filled'[r] = filled[r]
      BY <1>1, <1>4, <2>5, Sizes DEF Claimed
    <3>2. \A j \in K : Claimed(j)' => Claimed(j) /\ headR'[j] = headR[j]
      BY <1>2, <3>1
    <3>3. \A j \in K : Claimed(j) => Claimed(j)' /\ headR'[j] = headR[j]
      BY <1>2, <2>3
    <3>. QED BY <1>1, <2>1, <2>2, <3>1, <3>2, <3>3 DEF QueueInv
  <2>. QED BY <2>4, <2>5
<1>. QED BY <1>3, <1>4

LEMMA TakeQueue ==
  ASSUME GatherTypes, NEW r \in Rank, QueueInv(r), NEW k \in K, ClusterInv(k), TakeTask(k)
  PROVE  QueueInv(r)'
<1>. PICK p : p = headR[k]
  OBVIOUS
<1>1. /\ OthersKept(k) /\ UNCHANGED <<host, semaphore, head>>
      /\ Claimed(k) /\ RowsThere(k[1], p) /\ p \in Position /\ p \in filled[k[1]]
      /\ filled'[k[1]] = filled[k[1]] \ {p} /\ \A q \in Rank : q # k[1] => filled'[q] = filled[q]
      /\ \A b \in Role : b # "tma0" => place'[k][b] = place[k][b]
      /\ place'[k]["tma0"] = "idle" /\ packet'[k] = TaskAt(k[1], p) /\ unread'[k] = Role
  BY TakeFacts DEF streams, memory, Kept
<1>2. \A j \in K : j # k => /\ Claimed(j)' <=> Claimed(j)
                            /\ headR'[j] = headR[j]
                            /\ \A b \in Role : Over(j, b)' <=> Over(j, b)
  BY <1>1, OthersFramed
<1>3. CASE k[1] # r
  BY <1>1, <1>2, <1>3, QueueFramed
<1>4. CASE k[1] = r
  <2>1. host[r] = "run" /\ ~Claimed(k)'
    BY <1>1, <1>4, Names DEF ClusterInv, LaneInv, GatherTypes, StreamTypes, Claimed
  <2>2. /\ \A j \in K : j[1] = r /\ Claimed(j) => headR[j] < head[r] /\ headR[j] \in filled[r]
        /\ \A i, j \in K : i[1] = r /\ j[1] = r /\ Claimed(i) /\ Claimed(j) /\ headR[i] = headR[j] => i = j
        /\ \A q \in filled[r] : q < head[r] => \E j \in K : j[1] = r /\ Claimed(j) /\ headR[j] = q
        /\ \A j \in K, a \in Role : j[1] = r /\ Over(j, a) => head[r] = TASK_COUNT
        /\ \A q \in Position \ filled[r] : q < head[r] /\ RowsThere(r, q)'
    BY <1>1, <2>1, RowsThereFramed DEF QueueInv
  <2>3. RowsThere(r, p)' /\ p < head[r]
    BY <1>1, <1>4, <2>2, RowsThereFramed
  <2>4. \A a \in Role : Over(k, a)' => Over(k, a)
    <3>1. packet'[k] # NoTask
      BY <1>1, TaskAtFacts, Names
    <3>. QED BY <1>1, <3>1 DEF Over
  <2>5. \A j \in K : j[1] = r /\ Claimed(j)' => headR'[j] < head'[r] /\ headR'[j] \in filled'[r]
    BY <1>1, <1>2, <1>4, <2>1, <2>2
  <2>6. \A i, j \in K : i[1] = r /\ j[1] = r /\ Claimed(i)' /\ Claimed(j)' /\ headR'[i] = headR'[j] => i = j
    BY <1>2, <2>1, <2>2
  <2>7. \A q \in filled'[r] : q < head'[r] => \E j \in K : j[1] = r /\ Claimed(j)' /\ headR'[j] = q
    <3>. SUFFICES ASSUME NEW q \in filled[r], q # p, q < head[r]
                  PROVE  \E j \in K : j[1] = r /\ Claimed(j)' /\ headR'[j] = q
      BY <1>1, <1>4
    <3>1. PICK j \in K : j[1] = r /\ Claimed(j) /\ headR[j] = q
      BY <2>2
    <3>. QED BY <1>2, <3>1
  <2>8. \A j \in K, a \in Role : j[1] = r /\ Over(j, a)' => head'[r] = TASK_COUNT
    BY <1>1, <1>2, <2>2, <2>4
  <2>9. \A q \in Position \ filled'[r] : q < head'[r] /\ RowsThere(r, q)'
    BY <1>1, <1>4, <2>2, <2>3
  <2>. QED BY <1>1, <2>1, <2>5, <2>6, <2>7, <2>8, <2>9 DEF QueueInv
<1>. QED BY <1>3, <1>4

LEMMA QueueKept ==
  ASSUME GatherInv, Next, NEW r \in Rank
  PROVE  QueueInv(r)'
<1>. GatherTypes /\ CopyInv /\ QueueInv(r) /\ \A k \in K : ClusterInv(k)
  BY DEF GatherInv, RankInv
<1>1. ASSUME host[r] # "run", NEW k \in K, k[1] = r
      PROVE  unread[k] = {} /\ \A a \in Role : place[k][a] = "left"
  BY <1>1 DEF ClusterInv, LaneInv
<1>2. ASSUME UNCHANGED cluster
      PROVE  \A k \in K : /\ Claimed(k)' <=> Claimed(k)
                          /\ headR'[k] = headR[k]
                          /\ \A a \in Role : Over(k, a)' <=> Over(k, a)
  BY <1>2 DEF cluster, Claimed, Over
<1>3. ASSUME Prepare PROVE QueueInv(r)'
  <2>1. /\ UNCHANGED cluster /\ UNCHANGED <<semaphore, head, filled>>
        /\ host[r] = "cleared" /\ host'[r] = "ready"
    BY <1>3 DEF Prepare, AllCleared, memory, queue
  <2>. QED BY <1>2, <2>1, QueueFramed
<1>4. ASSUME NEW s \in Rank, Reset(s) PROVE QueueInv(r)'
  <2>1. /\ UNCHANGED cluster /\ host[s] = "idle" /\ host' = [host EXCEPT ![s] = "cleared"]
        /\ semaphore' = [semaphore EXCEPT ![s] = [q \in Rank |-> 0]]
        /\ head' = [head EXCEPT ![s] = 0] /\ filled' = [filled EXCEPT ![s] = Position]
    BY <1>4 DEF Reset, Refilled
  <2>2. CASE s = r
    <3>1. head'[r] = 0 /\ filled'[r] = Position /\ host'[r] = "cleared"
      BY <2>1, <2>2 DEF GatherTypes, StreamTypes, MemoryTypes
    <3>2. \A k \in K : k[1] = r => ~Claimed(k)'
      BY <1>1, <1>2, <2>1, <2>2, Names DEF Claimed
    <3>3. \A p \in Position : ~(p < 0)
      BY Sizes DEF Position
    <3>. QED BY <3>1, <3>2, <3>3 DEF QueueInv
  <2>3. CASE s # r
    <3>1. /\ host'[r] = host[r] /\ semaphore'[r] = semaphore[r]
          /\ head'[r] = head[r] /\ filled'[r] = filled[r]
      BY <2>1, <2>3 DEF GatherTypes, StreamTypes, MemoryTypes
    <3>. QED BY <1>2, <2>1, <3>1, QueueFramed
  <2>. QED BY <2>2, <2>3
<1>5. ASSUME NEW s \in Rank, Launch(s) PROVE QueueInv(r)'
  <2>1. /\ UNCHANGED <<semaphore, head, filled, headR, packet, unread>>
        /\ host[s] = "ready" /\ host' = [host EXCEPT ![s] = "run"]
        /\ \A k \in K : place'[k] = IF k[1] = s THEN [a \in Role |-> IF a = "tma0" THEN "publish" ELSE "idle"]
                                   ELSE place[k]
    BY <1>5 DEF Launch, memory, queue
  <2>2. CASE s = r
    <3>1. head[r] = 0 /\ filled[r] = Position /\ host'[r] = "run"
      BY <2>1, <2>2 DEF QueueInv, GatherTypes, StreamTypes
    <3>2. \A k \in K : k[1] = r => ~Claimed(k)' /\ \A a \in Role : ~Over(k, a)'
      BY <1>1, <2>1, <2>2, Names DEF Claimed, Over
    <3>3. \A p \in Position : ~(p < 0)
      BY Sizes DEF Position
    <3>. QED BY <2>1, <3>1, <3>2, <3>3 DEF QueueInv
  <2>3. CASE s # r
    <3>1. host'[r] = host[r]
      BY <2>1, <2>3 DEF GatherTypes, StreamTypes
    <3>2. \A k \in K : k[1] = r => /\ Claimed(k)' <=> Claimed(k)
                                   /\ \A a \in Role : Over(k, a)' <=> Over(k, a)
      BY <2>1, <2>3 DEF Claimed, Over
    <3>. QED BY <2>1, <3>1, <3>2, QueueFramed
  <2>. QED BY <2>2, <2>3
<1>6. ASSUME NEW s \in Rank, Return(s) PROVE QueueInv(r)'
  <2>1. /\ UNCHANGED cluster /\ UNCHANGED <<semaphore, head, filled>>
        /\ host' = [host EXCEPT ![s] = "idle"]
    BY <1>6 DEF Return, memory, queue
  <2>2. host'[r] = host[r] \/ host'[r] = "idle"
    BY <2>1 DEF GatherTypes, StreamTypes
  <2>. QED BY <1>2, <2>1, <2>2, QueueFramed
<1>7. ASSUME NEW s \in Rank, NEW q \in Rank, CopyRows(s, q) \/ SetSemaphore(s, q) PROVE QueueInv(r)'
  <2>1. /\ UNCHANGED cluster /\ UNCHANGED <<host, head, filled>>
        /\ (semaphore' = semaphore \/ semaphore' = [semaphore EXCEPT ![q][s] = 1])
    BY <1>7 DEF CopyRows, SetSemaphore, queue
  <2>2. \A a \in Rank : semaphore[r][a] = 1 => semaphore'[r][a] = 1
    BY <1>7, SignalsStay
  <2>. QED BY <1>2, <2>1, <2>2, QueueFramed
<1>. QED BY <1>3, <1>4, <1>5, <1>6, <1>7, ReceiveQueue, WorkQueue, ClaimQueue, TakeQueue, Actions

----------------------------------------------------------------------------
(* The tasks of a rank: TaskInv.                                             *)
LEMMA TaskFramed ==
  ASSUME NEW r \in Rank, TaskInv(r), filled'[r] = filled[r],
         host'[r] \in {"idle", "cleared"} => host[r] \in {"idle", "cleared"},
         gen'[r] = gen[r], out'[r] = out[r],
         \A k \in K, t \in Task : k[1] = r /\ InFlight(k, t) => InFlight(k, t)'
  PROVE  TaskInv(r)'
<1>1. \A t \in Task : Served(r, t) => Served(r, t)'
  BY DEF Served
<1>2. \A p \in Position : TaskAt(r, p) \in Task
  BY TaskAtFacts
<1>. QED BY <1>1, <1>2 DEF TaskInv

LEMMA ReceiveTask ==
  ASSUME GatherTypes, NEW r \in Rank, TaskInv(r), NEW k \in K, NEW a \in Role, Receive(k, a)
  PROVE  TaskInv(r)'
<1>1. /\ OthersKept(k) /\ UNCHANGED <<host, gen, out, filled>>
      /\ a \in unread[k] /\ place[k][a] = "idle" /\ unread'[k] = unread[k] \ {a}
      /\ packet'[k] = packet[k]
      /\ job'[k][a] = packet[k] /\ \A b \in Role : b # a => job'[k][b] = job[k][b]
      /\ \A b \in Role : b # a => place'[k][b] = place[k][b]
      /\ place'[k][a] = IF packet[k] = NoTask THEN "left" ELSE "work"
  BY ReceiveFacts DEF streams, memory, queue, Kept
<1>2. \A t \in Task : InFlight(k, t) => InFlight(k, t)'
  BY <1>1, Names DEF InFlight
<1>. QED BY <1>1, <1>2, OthersFramed, TaskFramed

LEMMA ClaimTask ==
  ASSUME GatherTypes, NEW r \in Rank, TaskInv(r), NEW k \in K, Claim(k)
  PROVE  TaskInv(r)'
<1>1. /\ OthersKept(k) /\ UNCHANGED <<host, gen, out, filled>>
      /\ unread[k] = {} /\ job'[k] = job[k] /\ place'[k]["con"] = place[k]["con"]
  BY ClaimFacts, Names DEF streams, memory, Kept
<1>2. \A t \in Task : InFlight(k, t) => InFlight(k, t)'
  BY <1>1 DEF InFlight
<1>. QED BY <1>1, <1>2, OthersFramed, TaskFramed

LEMMA LoadTask ==
  ASSUME GatherTypes, CopyInv, NEW r \in Rank, TaskInv(r), NEW k \in K, ClusterInv(k), NEW c \in CTA, Load(k, c)
  PROVE  TaskInv(r)'
<1>1. /\ OthersKept(k) /\ UNCHANGED <<host, gen, out, filled>>
      /\ packet'[k] = packet[k] /\ unread'[k] = unread[k]
      /\ job'[k] = job[k] /\ place'[k]["con"] = place[k]["con"]
  BY LoadFacts, Names DEF streams, memory, queue, Kept, CTA
<1>2. \A t \in Task : InFlight(k, t) => InFlight(k, t)'
  BY <1>1 DEF InFlight
<1>. QED BY <1>1, <1>2, OthersFramed, TaskFramed

LEMMA TakeServes ==
  ASSUME GatherTypes, NEW r \in Rank, TaskInv(r), NEW k \in K, ClusterInv(k), TakeTask(k)
  PROVE  TaskInv(r)'
<1>. PICK p : p = headR[k]
  OBVIOUS
<1>1. /\ OthersKept(k) /\ UNCHANGED <<host, gen, out>> /\ Claimed(k) /\ p \in Position
      /\ filled'[k[1]] = filled[k[1]] \ {p} /\ \A q \in Rank : q # k[1] => filled'[q] = filled[q]
      /\ job'[k] = job[k] /\ place'[k]["con"] = place[k]["con"]
      /\ packet'[k] = TaskAt(k[1], p) /\ unread'[k] = Role
  BY TakeFacts, Names DEF streams, memory, Kept
<1>2. unread[k] = {}
  BY <1>1 DEF ClusterInv, LaneInv
<1>3. \A t \in Task : InFlight(k, t) => InFlight(k, t)'
  BY <1>1, <1>2 DEF InFlight
<1>4. CASE k[1] # r
  BY <1>1, <1>3, <1>4, OthersFramed, TaskFramed
<1>5. CASE k[1] = r
  <2>1. Served(r, TaskAt(r, p))'
    BY <1>1, <1>5, Names DEF InFlight, Served
  <2>2. \A t \in Task : Served(r, t) => Served(r, t)'
    BY <1>1, <1>3, OthersFramed DEF Served
  <2>3. \A q \in Position : TaskAt(r, q) \in Task
    BY TaskAtFacts
  <2>. QED BY <1>1, <1>5, <2>1, <2>2, <2>3 DEF TaskInv
<1>. QED BY <1>4, <1>5

LEMMA StoreServes ==
  ASSUME GatherTypes, NEW r \in Rank, TaskInv(r), NEW k \in K, ClusterInv(k), StoreTile(k)
  PROVE  TaskInv(r)'
<1>. PICK s \in Task : s = job[k]["con"]
  BY TileStored
<1>1. /\ OthersKept(k) /\ UNCHANGED <<host, gen, filled>>
      /\ place[k]["con"] = "work" /\ packet'[k] = packet[k] /\ unread'[k] = unread[k]
      /\ out'[k[1]][s] = gen[k[1]]
      /\ \A t \in Task : t # s => out'[k[1]][t] = out[k[1]][t]
      /\ \A q \in Rank : q # k[1] => out'[q] = out[q]
  BY StoreFacts DEF streams, queue
<1>2. CASE k[1] # r
  BY <1>1, <1>2, OthersFramed, TaskFramed
<1>3. CASE k[1] = r
  <2>1. host[r] = "run"
    BY <1>1, <1>3, Names DEF ClusterInv, LaneInv
  <2>2. \A t \in Task : t # s /\ InFlight(k, t) => InFlight(k, t)'
    BY <1>1 DEF InFlight
  <2>3. \A t \in Task : Served(r, t) => Served(r, t)'
    <3>. SUFFICES ASSUME NEW t \in Task, Served(r, t) PROVE Served(r, t)'
      OBVIOUS
    <3>1. CASE t = s
      BY <1>1, <1>3, <3>1 DEF Served
    <3>2. CASE t # s
      BY <1>1, <1>3, <2>2, <3>2, OthersFramed DEF Served
    <3>. QED BY <3>1, <3>2
  <2>4. \A q \in Position : TaskAt(r, q) \in Task
    BY TaskAtFacts
  <2>. QED BY <1>1, <2>1, <2>3, <2>4 DEF TaskInv
<1>. QED BY <1>2, <1>3

LEMMA TaskKept ==
  ASSUME GatherInv, Next, NEW r \in Rank
  PROVE  TaskInv(r)'
<1>. GatherTypes /\ CopyInv /\ QueueInv(r) /\ TaskInv(r) /\ \A k \in K : ClusterInv(k)
  BY DEF GatherInv, RankInv
<1>1. ASSUME UNCHANGED cluster PROVE \A k \in K, t \in Task : InFlight(k, t)' <=> InFlight(k, t)
  BY <1>1 DEF cluster, InFlight
<1>2. ASSUME Prepare PROVE TaskInv(r)'
  <2>1. host'[r] = "ready" /\ host[r] = "cleared" /\ UNCHANGED filled
    BY <1>2 DEF Prepare, AllCleared, queue
  <2>2. filled'[r] = Position
    BY <2>1 DEF QueueInv
  <2>. QED BY <2>1, <2>2 DEF TaskInv
<1>3. ASSUME NEW s \in Rank, Reset(s) PROVE TaskInv(r)'
  <2>1. /\ UNCHANGED <<cluster, gen, out>> /\ host[s] = "idle" /\ host' = [host EXCEPT ![s] = "cleared"]
        /\ filled' = [filled EXCEPT ![s] = Position]
    BY <1>3 DEF Reset, Refilled
  <2>2. CASE s = r
    <3>1. filled'[r] = Position
      BY <2>1, <2>2 DEF GatherTypes, MemoryTypes
    <3>. QED BY <2>1, <2>2, <3>1 DEF TaskInv
  <2>3. CASE s # r
    <3>1. host'[r] = host[r] /\ filled'[r] = filled[r]
      BY <2>1, <2>3 DEF GatherTypes, StreamTypes, MemoryTypes
    <3>. QED BY <1>1, <2>1, <3>1, TaskFramed
  <2>. QED BY <2>2, <2>3
<1>4. ASSUME NEW s \in Rank, Launch(s) PROVE TaskInv(r)'
  <2>1. /\ UNCHANGED <<gen, out, filled, job, packet, unread>>
        /\ host[s] = "ready" /\ host' = [host EXCEPT ![s] = "run"]
        /\ \A k \in K : k[1] # s => place'[k] = place[k]
    BY <1>4 DEF Launch, memory, queue
  <2>2. CASE s = r
    <3>1. filled'[r] = Position /\ host'[r] = "run"
      BY <2>1, <2>2 DEF QueueInv, GatherTypes, StreamTypes
    <3>. QED BY <3>1 DEF TaskInv
  <2>3. CASE s # r
    <3>1. host'[r] = host[r]
      BY <2>1, <2>3 DEF GatherTypes, StreamTypes
    <3>2. \A k \in K, t \in Task : k[1] = r /\ InFlight(k, t) => InFlight(k, t)'
      BY <2>1, <2>3 DEF InFlight
    <3>. QED BY <2>1, <3>1, <3>2, TaskFramed
  <2>. QED BY <2>2, <2>3
<1>5. ASSUME NEW s \in Rank, Return(s) PROVE TaskInv(r)'
  <2>1. /\ UNCHANGED <<cluster, gen, out, filled>> /\ host[s] = "run" /\ GridDone(s)
        /\ host' = [host EXCEPT ![s] = "idle"]
    BY <1>5 DEF Return, memory, queue
  <2>2. CASE s = r
    <3>1. filled[r] = {}
      BY <2>1, <2>2, AllTaken
    <3>2. \A k \in K, t \in Task : k[1] = r => ~InFlight(k, t)
      <4>1. \A k \in K : k[1] = r => place[k]["con"] = "left" /\ "con" \notin unread[k]
        BY <2>1, <2>2, Names DEF GridDone, ClusterInv, LaneInv
      <4>. QED BY <4>1 DEF InFlight
    <3>3. \A t \in Task : out[r][t] = gen[r]
      <4>. SUFFICES ASSUME NEW t \in Task PROVE out[r][t] = gen[r]
        OBVIOUS
      <4>. PICK p \in Position : TaskAt(r, p) = t
        BY TaskAtOnto
      <4>1. Served(r, t)
        BY <3>1 DEF TaskInv
      <4>. QED BY <3>2, <4>1 DEF Served
    <3>4. \A p \in Position : Served(r, TaskAt(r, p))'
      <4>1. \A p \in Position : TaskAt(r, p) \in Task
        BY TaskAtFacts
      <4>. QED BY <2>1, <3>3, <4>1 DEF Served
    <3>. QED BY <2>1, <3>3, <3>4 DEF TaskInv
  <2>3. CASE s # r
    <3>1. host'[r] = host[r]
      BY <2>1, <2>3 DEF GatherTypes, StreamTypes
    <3>. QED BY <1>1, <2>1, <3>1, TaskFramed
  <2>. QED BY <2>2, <2>3
<1>6. ASSUME NEW s \in Rank, NEW q \in Rank, CopyRows(s, q) \/ SetSemaphore(s, q) PROVE TaskInv(r)'
  <2>1. UNCHANGED cluster /\ UNCHANGED <<host, gen, out, filled>>
    BY <1>6 DEF CopyRows, SetSemaphore, queue
  <2>. QED BY <1>1, <2>1, TaskFramed
<1>. QED BY <1>2, <1>3, <1>4, <1>5, <1>6, ReceiveTask, ClaimTask, LoadTask, TakeServes, StoreServes, Actions

----------------------------------------------------------------------------
(* The invariant holds.                                                      *)
LEMMA GatherStart == Init => GatherInv
<1>. SUFFICES ASSUME Init PROVE GatherInv
  OBVIOUS
<1>1. StreamTypes
  BY DEF Init, StreamTypes
<1>2. MemoryTypes
  BY Sizes DEF Init, MemoryTypes
<1>3. ClusterTypes
  <2>1. <<>> \in Seq(Int) /\ staged = [k \in K |-> [c \in CTA |-> <<>>]]
    BY DEF Init
  <2>2. \A e \in Seq(Int) : [k \in K |-> [c \in CTA |-> e]] \in [K -> [CTA -> Seq(Int)]]
    OBVIOUS
  <2>3. staged \in [K -> [CTA -> Seq(Int)]]
    BY <2>1, <2>2, Zenon
  <2>4. place \in [K -> [Role -> Place]] /\ unread \in [K -> SUBSET Role]
    BY DEF Init, Place
  <2>5. job \in [K -> [Role -> Task \cup {NoTask}]] /\ packet \in [K -> Task \cup {NoTask}]
    BY DEF Init
  <2>6. headR \in [K -> 0 .. TASK_COUNT]
    BY Sizes DEF Init
  <2>. QED BY <2>3, <2>4, <2>5, <2>6 DEF ClusterTypes
<1>4. CopyInv
  BY DEF Init, CopyInv, Owed
<1>5. ASSUME NEW k \in K PROVE ClusterInv(k)
  <2>1. /\ \A a \in Role : place[k][a] = "left" /\ packet[k] = NoTask /\ unread[k] = {}
        /\ \A c \in CTA : staged[k][c] = <<>>
    BY DEF Init
  <2>2. LaneInv(k)
    BY <2>1, Names DEF LaneInv, Claimed
  <2>3. \A a \in Role : Pending(k, a) = 0
    BY <2>1 DEF Pending
  <2>4. StageInv(k)
    <3>. SUFFICES ASSUME NEW c \in CTA
                  PROVE  /\ Len(staged[k][c]) + Pending(k, c) = Pending(k, "con")
                         /\ \A i \in 1 .. Len(staged[k][c]) : staged[k][c][i] = gen[k[1]]
      BY DEF StageInv
    <3>1. Len(staged[k][c]) = 0 /\ c \in Role /\ "con" \in Role
      BY <2>1, Names
    <3>. QED BY <2>3, <3>1
  <2>. QED BY <2>2, <2>4 DEF ClusterInv
<1>6. ASSUME NEW r \in Rank PROVE RankInv(r)
  <2>1. /\ host[r] = "cleared" /\ head[r] = 0 /\ filled[r] = Position /\ gen[r] = -1
        /\ \A t \in Task : out[r][t] = -1
        /\ \A k \in K : ~Claimed(k)
    BY Names DEF Init, Claimed
  <2>2. \A p \in Position : ~(p < 0)
    BY Sizes DEF Position
  <2>3. QueueInv(r)
    BY <2>1, <2>2 DEF QueueInv
  <2>4. TaskInv(r)
    BY <2>1 DEF TaskInv
  <2>. QED BY <2>3, <2>4 DEF RankInv
<1>. QED BY <1>1, <1>2, <1>3, <1>4, <1>5, <1>6 DEF GatherInv, GatherTypes

LEMMA GatherStep == GatherInv /\ [Next]_vars => GatherInv'
<1>. SUFFICES ASSUME GatherInv, [Next]_vars PROVE GatherInv'
  OBVIOUS
<1>1. CASE Next
  <2>1. GatherTypes'
    BY <1>1, StreamTypesKept, MemoryTypesKept, ClusterTypesKept DEF GatherInv, GatherTypes
  <2>2. CopyInv'
    BY <1>1, CopyKept
  <2>3. \A k \in K : ClusterInv(k)'
    BY <1>1, ClusterKept
  <2>4. \A r \in Rank : RankInv(r)'
    BY <1>1, QueueKept, TaskKept DEF RankInv
  <2>. QED BY <2>1, <2>2, <2>3, <2>4 DEF GatherInv
<1>2. CASE UNCHANGED vars
  <2>0. UNCHANGED <<streams, memory, queue, cluster>>
    BY <1>2 DEF vars
  <2>1. GatherTypes'
    BY <2>0 DEF GatherInv, GatherTypes, StreamTypes, MemoryTypes, ClusterTypes, streams, memory, queue, cluster
  <2>2. CopyInv'
    BY <2>0, CopyFramed DEF GatherInv, streams, memory
  <2>3. ASSUME NEW k \in K PROVE ClusterInv(k)'
    BY <2>0, ClusterFramed DEF GatherInv, streams, memory, cluster
  <2>4. ASSUME NEW r \in Rank PROVE RankInv(r)'
    <3>1. \A k \in K : /\ Claimed(k)' <=> Claimed(k)
                       /\ headR'[k] = headR[k]
                       /\ \A a \in Role : Over(k, a)' <=> Over(k, a)
                       /\ \A t \in Task : InFlight(k, t)' <=> InFlight(k, t)
      BY <2>0 DEF cluster, Claimed, Over, InFlight
    <3>2. QueueInv(r)'
      BY <2>0, <3>1, QueueFramed DEF GatherInv, RankInv, streams, memory, queue
    <3>3. TaskInv(r)'
      BY <2>0, <3>1, TaskFramed DEF GatherInv, RankInv, streams, memory, queue
    <3>. QED BY <3>2, <3>3 DEF RankInv
  <2>. QED BY <2>1, <2>2, <2>3, <2>4 DEF GatherInv
<1>. QED BY <1>1, <1>2

LEMMA GatherInvariant == Spec => []GatherInv
BY GatherStart, GatherStep, PTL DEF Spec

(* A rank that still owes rows or a semaphore to a peer keeps that peer in   *)
(* the same launch, so the reset of its next one races with neither.         *)
THEOREM SignalsStayInLaunch == Spec => []GatherMeetsLaunch
<1>1. GatherInv => GatherMeetsLaunch
  BY DEF GatherInv, CopyInv, Owed, GatherMeetsLaunch, GatherTypes, StreamTypes
<1>. QED BY <1>1, GatherInvariant, PTL

(* A launch that returned computed every tile of the product, each from the  *)
(* rows of this launch.                                                      *)
THEOREM ProductWhole == Spec => []ReturnsWholeProduct
<1>1. GatherInv => ReturnsWholeProduct
  BY DEF GatherInv, RankInv, TaskInv, ReturnsWholeProduct
<1>. QED BY <1>1, GatherInvariant, PTL
=============================================================================
