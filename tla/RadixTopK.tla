----------------------------- MODULE RadixTopK -----------------------------
(***************************************************************************)
(* One group of CTAs of the cross-CTA radix top-k of                        *)
(* src/tirx_kernels/ported/flashinfer/topk/radix_topk_multi_cta.py. Every   *)
(* CTA holds a chunk of the row; the radix rounds are reduced across the    *)
(* group through three histograms in a workspace that is cached between     *)
(* launches, and the selected keys go to K output slots. The CTAs meet at a *)
(* barrier that counts arrivals and never goes back within a launch.        *)
(*                                                                         *)
(* An item <<c, i>> is the key at index i of CTA c's chunk.                 *)
(***************************************************************************)
EXTENDS RadixSelect, Sequences, FiniteSetsExt

CONSTANTS
  CTAS,          \* ctas_per_group: at least 2
  Rounds,        \* digits of a key: 2 for 16-bit keys, 4 for float32
  K,             \* keys to select
  CHUNK,         \* chunk: the keys a CTA has room for
  BLOCK_THREADS, \* the threads of a CTA
  Rows,          \* the rows there are: a chunk of keys per CTA
  ROW_BOUND,     \* bound: rows one launch gives this group
  LAUNCHES       \* bound: launches on the same workspace

CTA == 0 .. CTAS - 1
ASSUME CtasAssumption == CTAS \in Nat /\ CTAS >= 2
ASSUME KernelAssumption == Rounds \subseteq {2, 4} /\ Rounds # {} /\ K \in Nat \ {0}
ASSUME SizesAssumption == CHUNK \in Nat \ {0} /\ BLOCK_THREADS \in Nat \ {0}
ASSUME BoundAssumption == ROW_BOUND \in Nat \ {0} /\ LAUNCHES \in Nat \ {0}
ASSUME RowsAssumption ==
  \A r \in Rows : /\ r \in [CTA -> Seq(Nat)]
                   /\ \A c \in CTA : \A i \in DOMAIN r[c] : \A n \in Rounds : r[c][i] < Unit(n + 1)

ASSUME ChunksAssumption ==     \* a chunk is full when a later CTA has any keys
  \A r \in Rows : \A c, d \in CTA :
     Len(r[c]) <= CHUNK /\ (c < d /\ r[d] # <<>> => Len(r[c]) = CHUNK)

BUFFERS == 3
Buffer == 0 .. BUFFERS - 1
(* Mode basic gives indices and values of rows of one length; page_table and *)
(* ragged, which is neither of the flags, have rows of their own lengths.    *)
Kernel == {k \in [rounds : Rounds, basic : BOOLEAN, paged : BOOLEAN, det : BOOLEAN] :
             ~(k.basic /\ k.paged)}
Keys(row) == [x \in UNION {{c} \X DOMAIN row[c] : c \in CTA} |-> row[x[1]][x[2]]]

(* Sums over the CTAs before each: where its keys and its results begin.     *)
Totals(g) == LET total[n \in 0 .. CTAS] == IF n = 0 THEN 0 ELSE total[n - 1] + g[n - 1] IN total

(* A row with no more than K keys takes the early way out.                   *)
Trivial(row) == Cardinality(DOMAIN Keys(row)) <= K

VARIABLES
  launch,     \* launches so far
  kernel,     \* the kernel of this launch: rounds, mode, collect
  rows,       \* the rows of this launch
  pc, then,   \* per CTA: its place, and its place after the barrier it is in
  it, rnd,    \* per CTA: its row, its round
  phase,      \* per CTA: the barriers it has left in this launch
  found,      \* per CTA: the digits of the pivot so far, the keys still wanted
  base,       \* per CTA: the first of the slots it claimed
  left,       \* per CTA: the keys on the pivot it has not collected
  seen,       \* per CTA: the histogram it read last
  hist,       \* the group's histograms
  arrival, output, scratch,   \* arrival_counter, output_counter, the counts
  out         \* <<row, slot, "index", "page" or "none", items>> written in this launch

shared == <<hist, arrival, output, scratch, out>>
place == <<pc, then, it, rnd, phase>>
local == <<found, base, left, seen>>
vars == <<launch, kernel, rows, place, local, shared>>

Row(c) == rows[it[c] + 1]
GlobalRound(c) == it[c] * kernel.rounds + rnd[c]
CurHist(c) == GlobalRound(c) % BUFFERS
NextHist(c) == (GlobalRound(c) + 1) % BUFFERS
NextFirst(c) == ((it[c] + 1) * kernel.rounds) % BUFFERS
DigitsLeft(c) == kernel.rounds - rnd[c]
NoCounts == [gt |-> 0, eq |-> 0]
Above(c) == {i \in DOMAIN Row(c)[c] : Row(c)[c][i] > found[c].prefix}
On(c) == {i \in DOMAIN Row(c)[c] : Row(c)[c][i] = found[c].prefix}

Goto(c, p) == pc' = [pc EXCEPT ![c] = p]
Meet(c, p) == Goto(c, "arrive") /\ then' = [then EXCEPT ![c] = p]

(* The barrier: one arrival, then a wait for an absolute count.              *)
LastArrivalUnseen(c) == (phase[c] + 1) * CTAS - 1
Target(c) == (phase[c] + 1) * CTAS
Arrive(c) ==
  /\ pc[c] = "arrive"
  /\ arrival' = arrival + 1
  /\ Goto(c, "wait")
  /\ UNCHANGED <<launch, kernel, rows, then, it, rnd, phase, local, hist, output, scratch, out>>

Leave(c) ==
  /\ pc[c] = "wait" /\ arrival >= Target(c)
  /\ phase' = [phase EXCEPT ![c] = @ + 1]
  /\ Goto(c, then[c])
  /\ UNCHANGED <<launch, kernel, rows, then, it, rnd, local, shared>>

(* The head of the row loop. A row that takes the early way out is written   *)
(* as it is, and CTA 0 clears the histogram the next row opens on. In mode   *)
(* basic each CTA writes its chunk; in the others every CTA writes all the K *)
(* slots, with -1 in those behind the last key of the row.                   *)
ClearedBySkip(c) == IF c = 0 THEN [hist EXCEPT ![NextFirst(c)] = NoKeys] ELSE hist
Position(row, x) == Totals([d \in CTA |-> Len(row[d])])[x[1]] + x[2] - 1
Padding(r, row) == {<<r, s, "none", {}>> : s \in Cardinality(DOMAIN Keys(row)) .. K - 1}
AsItIs(c) ==
  {<<it[c], Position(Row(c), x), IF kernel.paged THEN "page" ELSE "index", {x}>> :
      x \in {y \in DOMAIN Keys(Row(c)) : kernel.basic => y[1] = c}}
  \cup IF kernel.basic THEN {} ELSE Padding(it[c], Row(c))
Takes(c, early) ==
  /\ pc[c] = "row" /\ it[c] < Len(rows)
  /\ IF early
     THEN /\ hist' = ClearedBySkip(c)
          /\ out' = out \cup AsItIs(c)
          /\ it' = [it EXCEPT ![c] = @ + 1]
          /\ UNCHANGED <<pc, then, found>>
     ELSE /\ found' = [found EXCEPT ![c] = [prefix |-> 0, wanted |-> K]]
          /\ Meet(c, IF c = 0 THEN "zero" ELSE "fold")
          /\ UNCHANGED <<it, hist, out>>
  /\ UNCHANGED <<launch, kernel, rows, rnd, phase, base, left, seen, arrival, output, scratch>>
SkipEmptyChunk(c) == Takes(c, Trivial(Row(c)) \/ Row(c)[c] = <<>>)
NextRow(c) == Takes(c, Trivial(Row(c)))

ZeroOutput ==
  /\ pc[0] = "zero"
  /\ output' = 0
  /\ Goto(0, "fold")
  /\ UNCHANGED <<launch, kernel, rows, then, it, rnd, phase, local, hist, arrival, scratch, out>>

(* One radix round.                                                          *)
Fold(c) ==
  /\ pc[c] = "fold"
  /\ hist' = [hist EXCEPT ![CurHist(c)] =
               Added(@, Histogram(Row(c)[c], found[c].prefix, DigitsLeft(c)))]
  /\ IF c = 0 THEN Goto(c, "clear") /\ UNCHANGED then ELSE Meet(c, "read")
  /\ UNCHANGED <<launch, kernel, rows, it, rnd, phase, local, arrival, output, scratch, out>>

ClearNext ==
  /\ pc[0] = "clear"
  /\ hist' = [hist EXCEPT ![NextHist(0)] = NoKeys]
  /\ Meet(0, "read")
  /\ UNCHANGED <<launch, kernel, rows, it, rnd, phase, local, arrival, output, scratch, out>>

Read(c) ==
  /\ pc[c] = "read"
  /\ seen' = [seen EXCEPT ![c] = hist[CurHist(c)]]
  /\ Goto(c, "select")
  /\ UNCHANGED <<launch, kernel, rows, then, it, rnd, phase, found, base, left, shared>>

Select(c) ==
  /\ pc[c] = "select"
  /\ seen' = [seen EXCEPT ![c] = NoKeys]
  /\ \E t \in Threshold(seen[c], found[c].wanted) :
        found' = [found EXCEPT ![c] = [prefix |-> @.prefix + t.bucket * Unit(DigitsLeft(c)),
                                       wanted |-> t.wanted]]
  /\ IF rnd[c] + 1 < kernel.rounds
     THEN rnd' = [rnd EXCEPT ![c] = @ + 1] /\ Goto(c, "fold")
     ELSE rnd' = [rnd EXCEPT ![c] = 0] /\ Goto(c, IF kernel.det THEN "publish" ELSE "claim")
  /\ UNCHANGED <<launch, kernel, rows, then, it, phase, base, left, shared>>

(* The collect that is not deterministic: slots come from output_counter,    *)
(* all those above the pivot before any on it.                              *)
Claim(c) ==
  /\ pc[c] = "claim"
  /\ base' = [base EXCEPT ![c] = IF Above(c) = {} THEN 0 ELSE output]
  /\ output' = output + Cardinality(Above(c))
  /\ Goto(c, "emit")
  /\ UNCHANGED <<launch, kernel, rows, then, it, rnd, phase, found, left, seen, hist, arrival,
                 scratch, out>>

(* Inside the CTA its threads take the claimed slots in any order.           *)
Written(c, is, slot) == {<<it[c], slot[i], "index", {<<c, i>>}>> : i \in is}
Emits(c) ==
  /\ pc[c] = "emit"
  /\ \E turn \in Injection(Above(c), 0 .. Cardinality(Above(c)) - 1) :
        out' = out \cup Written(c, Above(c), [i \in Above(c) |-> base[c] + turn[i]])
  /\ base' = [base EXCEPT ![c] = 0]
  /\ left' = [left EXCEPT ![c] = On(c)]
  /\ UNCHANGED <<launch, kernel, rows, it, rnd, phase, found, seen, hist, arrival, output, scratch>>
EmitAndGoOn(c) == Emits(c) /\ Goto(c, "eq") /\ UNCHANGED then
Emit(c) == Emits(c) /\ Meet(c, "eq")

RowDone(c) == IF kernel.paged
              THEN Meet(c, "gather") /\ UNCHANGED it
              ELSE Goto(c, "row") /\ it' = [it EXCEPT ![c] = @ + 1] /\ UNCHANGED then
CollectEq(c) ==
  /\ pc[c] = "eq"
  /\ IF left[c] = {}
     THEN RowDone(c) /\ UNCHANGED <<left, output, out>>
     ELSE \E i \in left[c] :
            /\ left' = [left EXCEPT ![c] = @ \ {i}]
            /\ output' = output + 1
            /\ out' = IF output < K THEN out \cup {<<it[c], output, "index", {<<c, i>>}>>} ELSE out
            /\ UNCHANGED <<pc, then, it>>
  /\ UNCHANGED <<launch, kernel, rows, rnd, phase, found, base, seen, hist, arrival, scratch>>

(* The deterministic collect: every CTA publishes its counts, and after the  *)
(* barrier derives its slots from the counts of the CTAs before it.          *)
Publish(c) ==
  /\ pc[c] = "publish"
  /\ scratch' = [scratch EXCEPT ![c] = [gt |-> Cardinality(Above(c)), eq |-> Cardinality(On(c))]]
  /\ Meet(c, "place")
  /\ UNCHANGED <<launch, kernel, rows, it, rnd, phase, local, hist, arrival, output, out>>

SumOfAll(field, c) == Totals([d \in CTA |-> scratch[d][field]])[CTAS]
SumBefore(field, c) == Totals([d \in CTA |-> scratch[d][field]])[c]

(* In a CTA the scan goes over the threads, and thread t has the keys at t,  *)
(* t + BLOCK_THREADS, and so on (from 0).                                   *)
Thread(i) == (i - 1) % BLOCK_THREADS
Before(j, i) == Thread(j) < Thread(i) \/ (Thread(j) = Thread(i) /\ j < i)
Rank(is, i) == Cardinality({j \in is : Before(j, i)})
First(is, n) == {i \in is : Rank(is, i) < n}
Ranked(is, first) == [i \in is |-> first + Rank(is, i)]
GtLimit(c) == K - SumBefore("gt", c)
EqLimit(c) == K - SumBefore("gt", CTAS) - SumBefore("eq", c)
Place(c) ==
  /\ pc[c] = "place"
  /\ out' = out
       \cup Written(c, First(Above(c), GtLimit(c)), Ranked(Above(c), SumBefore("gt", c)))
       \cup Written(c, First(On(c), EqLimit(c)), Ranked(On(c), SumBefore("gt", CTAS) + SumBefore("eq", c)))
  /\ RowDone(c)
  /\ UNCHANGED <<launch, kernel, rows, rnd, phase, local, hist, arrival, output, scratch>>

(* Mode page_table: the slots are split and each index replaced by its page. *)
Share(c) == LET elems == (K + CTAS - 1) \div CTAS
            IN {s \in 0 .. K - 1 : s >= c * elems /\ s < (c + 1) * elems}
At(row, s) == {w \in out : w[1] = row /\ w[2] = s}
ItemsIn(ws) == UNION {w[4] : w \in ws}
Gather(c) ==
  /\ pc[c] = "gather"
  /\ out' = {w \in out : ~(w[1] = it[c] /\ w[2] \in Share(c))}
              \cup {<<it[c], s, "page", ItemsIn({w \in At(it[c], s) : w[3] = "index"})>> : s \in Share(c)}
  /\ it' = [it EXCEPT ![c] = @ + 1]
  /\ Goto(c, "row")
  /\ UNCHANGED <<launch, kernel, rows, then, rnd, phase, local, hist, arrival, output, scratch>>

(* The CTA that brings the count to a multiple of the group resets the       *)
(* workspace for the launch that comes next.                                *)
Exit(c) ==
  /\ pc[c] = "row" /\ it[c] = Len(rows)
  /\ arrival' = arrival + 1
  /\ Goto(c, IF arrival + 1 = Target(c) THEN "reset" ELSE "done")
  /\ UNCHANGED <<launch, kernel, rows, then, it, rnd, phase, local, hist, output, scratch, out>>

ResetHistogramsOnly(c) ==
  /\ pc[c] = "reset"
  /\ hist' = [b \in Buffer |-> NoKeys]
  /\ Goto(c, "release")
  /\ UNCHANGED <<launch, kernel, rows, then, it, rnd, phase, local, arrival, output, scratch, out>>
Reset(c) ==
  /\ pc[c] = "reset"
  /\ hist' = [b \in Buffer |-> NoKeys]
  /\ scratch' = IF kernel.det THEN [d \in CTA |-> NoCounts] ELSE scratch
  /\ Goto(c, "release")
  /\ UNCHANGED <<launch, kernel, rows, then, it, rnd, phase, local, arrival, output, out>>

Release(c) ==
  /\ pc[c] = "release"
  /\ arrival' = 0
  /\ Goto(c, "done")
  /\ UNCHANGED <<launch, kernel, rows, then, it, rnd, phase, local, hist, output, scratch, out>>

(* The next kernel of the stream, which may be of the other kind.            *)
AllDone == \A c \in CTA : pc[c] = "done"
AtHead == [c \in CTA |-> "row"]
Zeros == [c \in CTA |-> 0]
Work == UNION {[1 .. n -> Rows] : n \in 1 .. ROW_BOUND}
OfOneLength(rs) == \A i, j \in DOMAIN rs : \A c \in CTA : Len(rs[i][c]) = Len(rs[j][c])
Launch ==
  /\ AllDone /\ launch < LAUNCHES
  /\ launch' = launch + 1
  /\ \E d \in BOOLEAN : kernel' = [kernel EXCEPT !.det = d]
  /\ rows' \in Work /\ (kernel'.basic => OfOneLength(rows'))
  /\ pc' = AtHead /\ then' = AtHead /\ it' = Zeros /\ rnd' = Zeros /\ phase' = Zeros
  /\ out' = {}
  /\ UNCHANGED <<local, hist, arrival, output, scratch>>

Init ==
  /\ launch = 1 /\ kernel \in Kernel /\ rows \in Work /\ (kernel.basic => OfOneLength(rows))
  /\ pc = AtHead /\ then = AtHead /\ it = Zeros /\ rnd = Zeros /\ phase = Zeros
  /\ found = [c \in CTA |-> [prefix |-> 0, wanted |-> K]]
  /\ base = Zeros /\ left = [c \in CTA |-> {}] /\ seen = [c \in CTA |-> NoKeys] /\ out = {}
  /\ hist = [b \in Buffer |-> NoKeys] /\ arrival = 0 /\ output = 0
  /\ scratch = [c \in CTA |-> NoCounts]

CtaStep(c) ==
  \/ Arrive(c) \/ Leave(c) \/ NextRow(c) \/ Fold(c) \/ Read(c) \/ Select(c)
  \/ Claim(c) \/ Emit(c) \/ CollectEq(c) \/ Publish(c) \/ Place(c) \/ Gather(c)
  \/ Exit(c) \/ Reset(c) \/ Release(c)
  \/ c = 0 /\ (ZeroOutput \/ ClearNext)
Finished == AllDone /\ launch = LAUNCHES /\ UNCHANGED vars
Next == Launch \/ Finished \/ \E c \in CTA : CtaStep(c)

Spec == Init /\ [][Next]_vars

(* All CTAs of a group are resident (num_groups * ctas_per_group <= num_sms) *)
(* and the stream goes on: each of them, and the next launch, runs.          *)
FairSpec == Spec /\ WF_vars(Launch) /\ \A c \in CTA : WF_vars(CtaStep(c))

-----------------------------------------------------------------------------
(* A CTA picks a digit from the histogram of the whole row in this round and *)
(* nothing else: the third buffer is cleared while no slow CTA reads it, and *)
(* nothing of an earlier round, row or launch is left in it. And it looks    *)
(* for that digit behind those of the row's K-th largest key.                *)
Pivot(row) == KthLargest(Keys(row), K)
HistogramExact ==
  \A c \in CTA : pc[c] = "select" =>
     /\ found[c].prefix = Masked(Pivot(Row(c)), DigitsLeft(c))
     /\ seen[c] = Histogram(Keys(Row(c)), found[c].prefix, DigitsLeft(c))

(* Once a row is behind every CTA, each of its K slots was written once and  *)
(* holds a key of its own, and no key left out is larger than one of these;  *)
(* in page_table mode the index in the slot was read when it was there. A    *)
(* row that took the early way out is there in full, and no key is in the    *)
(* slots behind it, which every mode but basic writes all the same.          *)
Behind(r) == \A c \in CTA : it[c] > r
RowsSelected ==
  \A r \in 0 .. Len(rows) - 1 : Behind(r) =>
     LET keys == Keys(rows[r + 1])
         n == Min({K, Cardinality(DOMAIN keys)})
         slots == 0 .. n - 1
         chosen == ItemsIn(UNION {At(r, s) : s \in slots})
     IN /\ {w[2] : w \in {v \in out : v[1] = r}} = 0 .. (IF kernel.basic THEN n ELSE K) - 1
        /\ \A s \in n .. K - 1 : ItemsIn(At(r, s)) = {}
        /\ \A s \in slots : Cardinality(At(r, s)) = 1 /\ Cardinality(ItemsIn(At(r, s))) = 1
        /\ Cardinality(chosen) = Cardinality(slots)
        /\ \A x \in chosen, y \in DOMAIN keys \ chosen : keys[x] >= keys[y]

(* The deterministic collect puts the keys where their rank says, those      *)
(* above the pivot first, then by CTA, then by thread, whatever the schedule:*)
(* the doc calls it bit-reproducible.                                       *)
Precedes(keys, pivot, y, x) ==
  \/ keys[y] > pivot /\ keys[x] = pivot
  \/ /\ (keys[y] > pivot) = (keys[x] > pivot) /\ keys[y] >= pivot
     /\ y[1] < x[1] \/ (y[1] = x[1] /\ Before(y[2], x[2]))
Reproducible ==
  kernel.det => \A w \in out : LET keys == Keys(rows[w[1] + 1]) IN
     ~Trivial(rows[w[1] + 1]) =>
       \A x \in w[4] :
          w[2] = Cardinality({y \in DOMAIN keys : Precedes(keys, Pivot(rows[w[1] + 1]), y, x)})

(* Between launches the workspace is as the first launch found it, but for   *)
(* the output counter: the next one may be of the other kind, and lay its    *)
(* histograms where this one had its counts.                                *)
WorkspaceClean ==
  AllDone => /\ arrival = 0
             /\ \A b \in Buffer : hist[b] = NoKeys
             /\ \A c \in CTA : scratch[c] = NoCounts

(* No CTA leaves a barrier that another has yet to enter, and all of them    *)
(* take the same barriers: the group meets as the abstract barrier does.     *)
Rendezvous == INSTANCE Rendezvous
  WITH Proc <- CTA,
       entered <- [c \in CTA |-> phase[c] + IF pc[c] = "wait" THEN 1 ELSE 0],
       passed <- phase
MeetsAsOne == Rendezvous!Spec

(* Every launch ends, and leaves a workspace for the next.                   *)
LaunchesEnd == \A n \in 1 .. LAUNCHES : <>(launch = n /\ AllDone)
=============================================================================
