# TIRx kernels: TLA+ models, checks and proofs

TIRx kernels is a Python package of GPU kernels written against `tirx_lite`, a trace-time
library that builds TVM TIR directly. What is hard to get right in it is not the arithmetic of
a tile (tests compare it with a reference) but the protocols the tiles travel through: persistent
grids that share task queues within a GPU and across GPUs, semaphores that remote GPUs notify,
warps that hand shared memory to each other through phase bits, barriers of CTAs and of ranks whose
words survive launches, a host that resets all of it between launches, and a benchmark client that
retries against a server which may have done the work already. This directory holds models of those protocols, the TLC instances that check
them, and TLAPS proofs of the most important facts for every value of the constants.

`PROJECT.json` lists the components, the runs, the mutants (a plausible bug for every property,
which TLC finds), the correspondence of every definition to source lines, the hazards and the
theorems.

## The system

| Component | State it keeps | Operations | How it interacts |
|---|---|---|---|
| GEMM reduce-scatter, global protocol (`gemm/gemm_reduce_scatter.py`) | two task queues, tile semaphores, exit barrier, `gemm_out`, `out`, per rank | enqueue, dequeue with a carried claim, notify, reduce, exit barrier; host `reset`/`prepare`/`launch` | remote atomics and multicast loads into every peer |
| GEMM reduce-scatter, inside a cluster (same file) | `smem_pipe`, `tmem_pipe`, `p2c`/`c2p` barriers, phases in registers | TMA load, MMA, commit, read-out, publish, receive | mbarriers between warps of two CTAs |
| GEMM reduce-scatter, configuration | none | `derive_config`, divisibility checks | supplies the constants |
| AllGather GEMM (`gemm/allgather_gemm.py`) | per-rank semaphores, one task queue, `ag_out`, a second stream | copy and signal by the peers' copy engines, a dequeue that waits for rows, load, store | twin of GEMM reduce-scatter; nothing clears `ag_out` |
| Distributed runtime (`gemm/utils/_runtime.py`) | NVSHMEM heap, rank processes | barrier on the compute stream, symmetric buffers | called by the host cycle |
| `tirx_lite` barriers, rings, schedulers | phase bits, stage cursors, tile cursors, the cluster-launch-control handle | wait/arrive/advance, next tile, try_cancel | used by every kernel |
| `tirx_lite` tracing | IR under construction | builders, warp-role specialisation | single-threaded, at trace time |
| fp16 GEMM, nvfp4 GEMM | ring and TMEM barriers; the fp16 one a cluster-launch-control handle | load, multiply, write back, take over a tile, tear down | `tirx_lite` schedulers and barriers |
| DeepEP dispatch and combine (`ported/deepep/`) | NVLink barrier counters and signals, grid barrier counts, reduction and count words, receive slots | notify, dispatch, copy out; store back, reduce | remote stores and reductions; words that outlive the kernels |
| DeepGEMM mega-MoE | arrival counters per expert block, the DeepEP barriers | dispatch, two GEMMs, combine | as DeepEP |
| Radix top-k across CTAs (`ported/flashinfer/topk/`) | a phase-counting group barrier, three histograms, an output counter, counts | histogram, select, two collects, gather, reset | CTAs of one device, through a cached workspace |
| Other numeric kernels | registers, shared memory | attention, norms, MoE, KDA, VSA | one launch each |
| Runner, registry | a cached index; CUDA assignment; cleanup state | prepare, run, close | starts kernels and rank processes |
| Benchmark suite: remote submission (`bench_suite/remote.py`, `_remote_shim.py`) | attempts, deadlines, a pool of clients, extraction roots | submit, retry, fall back, close, sweep of roots | HTTP server and worker shim |
| Benchmark suite: sweep, A/B, baselines | rows, reports | pair, compare, promote | files |

What is hard, component by component, is the `hazards` list of `PROJECT.json`; each entry names the
line where it bites and the properties that would catch it. What makes the components correct:

* *queues*: a task is run exactly once; a claim carried across polls belongs to one cluster; a
  cluster leaves neither with a claim that will be filled nor waits on one that will not;
* *semaphores*: a tile is reduced after, and only after, every CTA of every rank stored its part;
* *launch cycle*: no rank is written while it clears; a rank that has returned is not needed by
  anybody; no data or signal of a launch is mistaken for one of the next; every launch returns;
* *barriers whose words survive*: nobody passes before all have entered, in any use of the word, in
  any direction it counts, and whatever the launch before was;
* *exchanges across ranks*: a receiver reads exactly what was sent to it in this call;
* *submission*: a workload is timed a bounded number of times, nobody's files vanish under it, and an
  interrupted sweep ends;
* *pipelines*: a buffer is refilled only when all its readers are done, a reader sees each item
  once, and no waiter is mistaken about a phase although it only knows its parity.

## The modules

| Module | What it is |
|---|---|
| `GemmRS` | the global-memory protocol of the reduce-scatter kernel on all ranks |
| `ReduceScatter` | what that protocol promises, with no queues, semaphores or clusters |
| `GemmRSInv` | the inductive invariants behind the theorems on it |
| `GemmRS_proofs` | proofs: types, semaphores, complete reductions, the queues, the exit barrier, the end of a launch, the refinement |
| `MBarrier` | the shared-memory barrier of `tirx_lite/pipeline.py` |
| `GemmPipeline` | the warps of one cluster inside the task loop |
| `GemmPipeline_proofs` | proofs: parities, packets, stages, accumulators |
| `ClcGemm` | the roles of one cluster of the fp16 GEMM under cluster launch control, and its teardown |
| `ClcGemm_proofs` | its proofs |
| `BroadcastCells` | what a hand-over to several readers promises |
| `AllGatherGemm` | the all-gather kernel on all ranks: host cycle, copy engines, semaphores, queue, lanes |
| `AllGatherGemm_proofs` | its proofs |
| `Rendezvous` | what a reusable barrier promises |
| `NvlinkBarrier`, `NvlinkBarrier_proofs` | the barrier of the ranks of DeepEP, and its proofs |
| `DeepEPCalls` | what the two halves of DeepEP share: a rank's stream of calls, its SMs |
| `DeepEPDispatch`, `DeepEPCombine` | the two halves, each around that barrier |
| `DeepEP_proofs` | their proofs |
| `RadixSelect` | the radix select of a pivot, as functions, with its definition |
| `RadixTopK` | the group of CTAs that runs it over rows, rounds and launches |
| `RadixTopK_proofs` | proofs about both |
| `RemoteSubmission` | the benchmark client, the worker shim and a server that may fail them |
| `RemoteSubmission_proofs` | its proofs |
| `MCGemmRS`, `MCGemmPipeline`, `MCClcGemm`, `MCDeepEPDispatch`, `MCRadixTopK` | values for TLC |

### GemmRS

State, against the code:

| Variables | Code |
|---|---|
| `host` | where a rank's stream is in `_Case.reset`, `prepare`, `launch` |
| `gemmHead`, `gemmSlot` | `gemm_queue`: head and `task_type` per position (its indices are the constant `QueueOrder`: the host prefills them) |
| `rsHead`, `rsTail`, `rsSlot`, `rsIdx` | `rs_queue`: head, tail, `task_type` and index per position, in symmetric memory |
| `semaphore` | `Semaphore` words, one per tile a rank owns |
| `gemm_out`, `out` | the parts stored; per share of the output, the ranks whose data it sums |
| `exitLocal`, `exitRank`, `redTo` | the two words of `exit_barrier`, and its multicast reduction in flight |
| `pub`, `rsRem`, `headR` | the publisher lane's place, `rs_rem` and the claimed position |
| `packet`, `unread` | the broadcast task, and the warpgroups that have not received it |
| `work`, `job`, `cluster` | a consumer warpgroup's place and its copy of the task; the cluster's place |

Actions, in the order of a launch: `ResetBarrier`, `Clear`, `PrepareBarrier`, `Launch` (host);
`ClaimRS`, `MissRS`, `TakeRS`, `ClaimGEMM`, `TakeGEMM` (one `publish`, cut where another cluster or
rank can be seen between two accesses); `Receive`, `ReduceShare`, `StoreTile`, `Notify`, `ClaimTail`,
`WriteIndex`, `ReleaseType` (the task loop of a warpgroup, the last three being `enqueue_remote`);
`ExitArrive`, `DeliverRed`, `ExitLeave` (`exit_barrier_arrive_and_wait`); `KernelDone`.

Modelling decisions:

* A tile is a part of a set, so "the sum over all ranks" is the set of ranks whose part was there
  when it was read. A tile nobody has reduced is `{}` (the NaN that `reset` writes).
* `gemm_head` grows on every poll of an exhausted queue. All values from the task count on behave
  alike and are one value (`Bump`). The real counter is an int32 and would wrap after 2^31 polls of
  one launch; that is a hazard without a property, since the wrap is abstracted away.
* A position is wrapped with the capacity of the queue before it is used as a slot. `derive_config`
  rejects a shape with more tasks than the capacity, so the wrap is the identity and the model has
  none.
* Emptying the slot and reading its index is one action: the claim makes the slot exclusive
  (`ClaimsExclusive`), nobody else reads or writes it between the two.
* The comment above the barrier of `reset` (l.1150-1152) fears a peer still inside its launch. The
  exit barrier is stronger: `DoneMeansPeersDone` shows that no peer is inside its task loop once a
  rank has returned. The barrier is still needed: `ClearWhileQuiet` covers the spin itself.
* The TMA warps and MMA warps also take a share of an RS task; they behave like a consumer
  warpgroup there and are not workers of their own. What they do in a GEMM task is `GemmPipeline`.

`ReduceScatter` keeps three variables: the phase of each rank, what it contributed, what it reduced.
`ImplementsReduceScatter` maps `host` to phases, `gemm_out` to contributions and `out` to
reductions; everything else is hidden.

### MBarrier, BroadcastCells, GemmPipeline

A barrier is its completed phases (`turn`), pending arrivals, and outstanding transfers, which may be
negative: CTA 1's copies count on CTA 0's barrier and may land before CTA 0 announces their bytes.
`turn` is kept whole; a waiter, like the hardware, compares only its parity (`Passed`).

An agent of `GemmPipeline` is a warp, or the threads of the cluster with no role in a task; one
arrival of an agent stands for those of all its threads, and `Count` adds them up accordingly.
`<<"tma", c>>` is lane 0 of warp 11 in CTA `c` (it is the lane `elect.sync` picks, and in CTA 0 also
the publisher), `<<"mma", i>>` are warps 8 and 9 of CTA 0, `<<"con", c, i>>` the consumer warpgroups
and `<<"rest", 1>>` everybody else (warp 10, CTA 1's MMA warps, lanes not elected), who only receive
packets. Asynchronous work is explicit: `loading` holds copies in flight, `queue` the
tensor-core operations of each MMA warp, which complete in order; commits arrive on the barriers of
both CTAs. An arrival itself is immediate: a delayed arrival cannot be told from a slow waiter.
An RS task, or a packet that only keeps a claim alive, uses no barrier of this module
and is the packet type `"RS"`.

A block in a stage is `<<packet, position>>`; an accumulator is the sequence of pairs of blocks summed
into it. `AccumulatorIntact` therefore says that a consumer reads exactly the blocks of its
task, each once, in order, with both halves of the same block.

`BroadcastCells` states the promise of a hand-over once: an item put in a cell is taken exactly once by
each of its readers, unchanged, before the next is put. `GemmPipeline` instantiates it twice, for
the scheduler's packet and the stages of shared memory (`AccumulatorIntact` says more of the
accumulators than a hand-over would), with the cell's content and
its readers derived from the barriers and the agents' own counters; `ClcGemm` once more, for the
answers of the hardware.

The sizes of the ring and of the work are a rigid variable `shape`, chosen in `Init` from the constant
`Shapes`, so one run covers several shapes; `ClcGemm` does the same with `Kernels`.

### ClcGemm

The fp16 GEMM launches one cluster per tile and lets a running cluster take over the tile of one that
has not been launched: CTA 0's scheduler issues `try_cancel` (`Cancel`), the answer lands in both
CTAs (`Deliver`), and scheduler, loader, MMA warps and consumers each decode it for themselves
(`Consume`) and report to `sched_fin` in CTA 0. The hardware is external and as free as it may be: it
gives any tile this cluster was not given, or none, at any time. So tiles taken by other clusters need no
action: they are the ones never given.

`Load`, `MmaAcquire`, `MmaIssue`, `TensorDone`, `ConsumerWait` and `Writeback` move one tile. The roles
never pass each other a tile's name, only data, so `acc` records which tiles the halves came from
and `StoresItsOwnTile` compares it with the tile the consumer believes in. The stages of the
shared-memory ring are abstracted to `LOOKAHEAD` whole tiles (`GemmPipeline` has the stages). A `PipelineState` over
two slots is `SlotOf` and `PhaseOf` of the number of uses. `NUM_CONSUMER` selects the variant: 1 is
the overlapped epilogue with a double-buffered accumulator and the teardown handshake (`SayBye`, `WaitBye`), 2
has one accumulator per consumer and a `cluster_sync`.

### AllGatherGemm

| Variables | Code |
|---|---|
| `host`, `gen` | a rank's compute stream in `_Case.reset`, `prepare`, `launch`; the launch it is in |
| `toCopy`, `toSignal` | its communication stream: peers whose rows, then whose semaphore, are still to be written |
| `ag_out`, `semaphore` | per rank and source: whose launch the rows are of, and whether they were announced |
| `head`, `filled` | the queue: head, and the positions whose `task_type` is set |
| `headR`, `packet`, `unread`, `place`, `job` | a cluster: claimed position, broadcast task, readers, each lane's place and task |
| `staged`, `out` | rows loaded and not yet computed; the launch a tile of the product was computed from |

The question is one of generations: `ag_out` is never cleared, so a tile computed too early is not
garbage but the product of the launch before, which a comparison with fixed inputs cannot see. A row
block is therefore the launch it belongs to (modulo 2: `GatherMeetsLaunch` keeps neighbours apart),
and a tile computed from rows of two launches is -1. Three places work out for themselves whose rows a
task needs: the order of the host (`TaskAt`), the dequeue (`Needed`), the choice between `A` and
`ag_out` (`OwnRows`). The model keeps the three formulas, and `ReturnsWholeProduct` says they agree.
The copy engine is external: it writes the rows to a peer, then that peer's semaphore.
The pipelines of a cluster are those of `GemmPipeline`; here a tile is one step of `StoreTile`.

### Rendezvous, NvlinkBarrier

`Rendezvous` counts, per process, the barriers entered and passed. `NvlinkBarrier` is `nvlink_barrier`:
`Begin` reads the status once, `Tell` is one thread's remote addition of 1 or -1, `CountUp` moves the
counter, `Pass` waits for the exact target. The counter's two low bits choose the word and the
direction, so a word is reused after two barriers and comes back to zero after four. `RanksMeet` refines
`Rendezvous`.

### DeepEPCalls, DeepEPDispatch, DeepEPCombine

Both halves extend `NvlinkBarrier`, through `DeepEPCalls`, and conjoin its actions with their own (`NvlinkEnter`, `CombineEnter`, ...).

Dispatch: `Memset` is the fresh `SymmetricWindow` (memory that holds junk until each rank
clears it). `Gate` is an assumption on code outside the repository: once, after all ranks have cleared and before the first
of them launches, something brings them together. In a test (`dispatch.py:1125-1133`, a single call) that is the dispatch of the
reference library, launched first on the same stream. With repeated calls (`:1190-1208`) nothing in the repository stands
between one rank's `cudaMemset` (`_buffer.py:131`) and the first launch of a peer; it is left to the external `bench()`,
which is handed the barrier of the ranks (`_runtime.py:51-59`). Without the gate `CallsEnd` fails: the clearing of a slow rank erases
the signal of a fast one. Nothing is assumed between calls. `DeepEPCombine` starts after that point, with every workspace cleared.

`Launch` is kernel 1, in which `NotifyAdd`, `NotifyTake`, `Publish` and `CollectCount` are the
notify warps and their word per peer, and `Send` and `Land` the dispatch warps and their asynchronous
copies; `EndBody` is the wait for the copies and the grid sync; `CopyOut` is kernel 2, modelled as the interval during
which it reads. A count travels as `-count - 1`, as in the code, since zero means "not yet".
A token is `<<call, token>>`, so a token of an earlier or later call in a slot shows.

Combine: what matters is who may be where, so a slot is the call whose token it holds. `ReadCount`,
`Arrive`, `EntryDone` and `ExitDone` are `grid_barrier` with its goal rounded up from a count that no
launch resets; `Store` is one warp's share. Warp 0 holds thread 0, the only thread that arrives:
that the other warps need not have come is the third finding.

### RadixSelect, RadixTopK

`RadixSelect` has the arithmetic of one round as functions: the histogram under a mask, the suffix sums
by doubling strides and the bucket where the count passes what is wanted. `HistogramExact` compares the
digits it finds, round after round, with `KthLargest`, the definition.

`RadixTopK` is the group, in mode basic (rows of one length), page_table or ragged. `Arrive` and `Leave` are the barrier: an absolute count,
`(phase + 1) * ctas_per_group`. `Fold`, `ClearNext`, `Read` and `Select` are a round over three
histograms in rotation; `NextRow` is the head of the row loop with its early way out: in mode basic each
CTA writes its chunk, in the others every CTA writes all `K` slots, those behind the last key with -1 (`Padding`). `Claim`, `Emit` and
`CollectEq` are the collect with slots from a counter, which threads of a CTA take in any order; `Publish` and `Place` are the
deterministic one, whose scan inside a CTA goes over its threads, each with the keys at `t`, `t + BLOCK_THREADS`, ... of the chunk
(`Before`): in a chunk longer than the block, slots and the ties taken do not follow the index. `Gather` is
the page-table mode; `Exit`, `Reset` and `Release` leave the workspace for the next `Launch`, which may
be of the other kind. Additions of a CTA to the shared histogram are one step: they commute, and
nobody reads that histogram before the barrier.

### RemoteSubmission

A thread of the pool takes a workload (`TakeWorkload`), then a client (`GetClient`), and goes through
rounds of `execute_with_retry`: `Accepted`, `Saturated` (503), `Refused`, `TransportError`,
`ClientRaises` (its client was closed under it); `Answer` is `submit_workload`, with the fallback to
the other mode. The main thread is `Collected` or `Interrupt`, and `CloseOne` for each client on the list that
`close` took under its lock. The server is external: a request may be refused, fail to prepare
(`PrepareFails`), run (`BeginRun`, `EndRun`), be killed at its limit, and go on when its connection
broke (slot `Lost`). Each request is a process of `_remote_shim.py`, whose first act is to sweep the
extraction roots that are too old (`Swept`).

Time is the age of a root, in steps of `Tick`. All the model takes from the numbers is that the server's
limit on a request is below `STALE_ROOT_AGE`; without it, `LiveRootsKept` is false.

## The runs

| Run | Instance | Distinct states | Shows |
|---|---|---|---|
| `GemmRS_ranks` | 2 ranks, 1 cluster, 1 CTA, 2 tiles | 168,766 | `ReducedFromEveryRank`, `SemaphoreCountsStores`, `ClearWhileQuiet`, `TerminalState`, `DoneMeansPeersDone`, `LaunchCompletes`, and the refinement of `ReduceScatter` |
| `GemmRS_local` | 1 rank, 2 clusters, 2 CTAs, 2 tiles, symmetry | about 196,000 | `TasksRunOnce`, `ClaimsExclusive` |
| `GemmPipeline_laps` | ring of 2, a task of 4 blocks; ring of 1, 2 tasks of 2 | 228,106 | `AccumulatorIntact`, `NeverLapped`, `ClusterFinishes`, both hand-overs refine `BroadcastCells` |
| `GemmPipeline_unaligned` | ring of 2, a task of 1 block | | violates `ClusterFinishes`: first finding below |
| `ClcGemm_tiles` | 1 consumer and up to 3 tiles; 2 consumers and up to 2 | about 232,000 | `StoresItsOwnTile`, `NothingLost`, `FreedLast`, `AnswersBroadcast`, `ClusterFinishes` |
| `ClcGemm_exit` | 1 consumer, up to 2 tiles | | violates `PeerStaysForArrivals`: second finding below |
| `RadixTopK` | 3 CTAs of 2 threads, chunks of 3 keys, 1-bit digits, 2 or 4 rounds, K = 2, up to 2 rows, 2 launches | about 355,000 | `HistogramExact`, `RowsSelected`, `Reproducible`, `WorkspaceClean`, `MeetsAsOne` (refines `Rendezvous`), `LaunchesEnd` |
| `DeepEPDispatch` | 2 ranks, 2 SMs, 2 tokens, 2 routings, 2 calls | about 726,000 | `ReceivedExactly`, `AtRest`, `CallsEnd` |
| `DeepEPCombine_calls` | 2 ranks, 2 SMs of 2 warps, 2 calls | about 29,000 | `PassedAfterAll`, `RanksMeet`, `SlotsOfOneCall`, `GridHolds`, `CombinesEnd` |
| `DeepEPCombine_exit` | the same, 1 call | | violates `PeerDataVisible`: third finding below |
| `RemoteSubmission` | 2 threads, 2 workloads, 2 attempts | about 762,000 | `RunsBounded`, `LiveRootsKept`, `ClientsClosed`, `SweepEnds` |
| `AllGatherGemm` | 2 ranks, 1 cluster, 8 tasks a rank | about 780,000 | `ReturnsWholeProduct`, `GatherMeetsLaunch`, `LaunchCompletes` |

Why these bounds are enough to be interesting.

* `GemmRS` and `AllGatherGemm` do not bound their launches: after a launch the ranks reset and start
  again for ever, so the second launch (dirty memory, clearing in different orders) is always in the state
  space. Two ranks make every remote access a real one and a peer that is faster or slower. Two
  clusters of one rank make the queues contended: one polls past the end while the other holds a claim,
  and two CTAs make the semaphore count more than ranks. Two ranks with two clusters each do not fit
  TLC; what those would add (two clusters of one rank with remote releases) is what the inductive invariant
  covers for all sizes.
* In `AllGatherGemm` two row tiles and two columns per rank tell `p % LOCAL`, `p / PER_RANK` and the
  columns apart, so each of the three formulas for whose rows a task needs is exercised where it could differ.
* A ring of two stages goes round twice in one task, so every stage is reused and every ring phase bit takes
  both values; two tasks and the exit packet make the packet and accumulator phases wrap. Three tiles in
  `ClcGemm` send both accumulator slots round and reuse the first.
* `BARRIERS = 4` takes the barrier of the ranks through both words in both directions, which is its whole
  period; two calls make a fast rank overtake a slow one by as much as the barriers allow.
* Digits of one bit keep the radix rounds while a histogram has two buckets; two rounds and four walk
  the three histograms in both phases that the code's 2 and 4 rounds give; a second launch meets the
  workspace the first left. The rows have keys on both sides of the pivot, ties across CTAs, an empty
  chunk and a row that takes the early way out with a slot to pad. A chunk of three keys is longer than the block of two
  threads, so the order of the threads is not that of the keys, and two ties of one CTA compete.
* Two attempts are one retry, in each of the two modes; `BUSY`, `LIMIT` and the one slot `Lost` bound what the
  server may do at a time. `RUNS` caps the counter one above what `RunsBounded` allows.

`TASKS`, `TILES`, `BARRIERS`, `ROW_BOUND`, `LAUNCHES`, `BUSY`, `Lost` and `RUNS` are bounds that are not
parameters of the code. CTAs, and clusters of a rank, are interchangeable in `GemmRS` (no action compares
or orders them), so they are symmetry sets in `GemmRS_local`, which checks no liveness; no other run uses
symmetry.

Deadlock is checked in all passing runs: `GemmRS` and `AllGatherGemm` never stop (a launch follows a
launch); the others have one stuttering action as their only quiet end (`Terminated`, `Finished`, `Stop`).
`GemmPipeline_unaligned` switches it off, since the hang is what its property is about.

### Fairness

A persistent grid has at most as many clusters as fit on the device at once, so every cluster is resident
for the whole launch and every warp is scheduled independently of what others poll. The same holds of the group
of a radix row (`launch_plan` gives no more CTAs than SMs, but for one case listed as a hazard) and of the
DeepEP kernels, whose grid barriers need it. An issued atomic, copy or tensor-core operation completes without
anybody's help, and the host's stream operations are executed when they can be.

* `GemmRS` and `RadixTopK` poll and go round, so each publisher, warpgroup and CTA, and each atomic in
  flight, has weak fairness of its own. So have the SMs and warps of `DeepEPCombine` and the ranks of `DeepEPDispatch`, where
  every enabled step of a rank stays enabled until it is taken.
* `GemmPipeline`, `ClcGemm`, `AllGatherGemm` and `RemoteSubmission` have weak fairness of `Next` alone: a waiter
  takes no step while it waits, and what is left to do (in `AllGatherGemm` up to the next barrier of the ranks) only shrinks, so "somebody who can go on does" is
  enough, and it is weaker than fairness for each.

No action has strong fairness: a poll loop that sees its condition now and then is not assumed to see it
in the end.

### Findings

**The drain of an unaligned task.** Beyond its table of shapes, `derive_config` asks of the rank-local K only
that it be divisible by `BLK_K`, and both loops over the ring have a drain for a last lap that is
not full. In that drain CTA 0 alone arrives on the full barrier of a stage (`gemm_reduce_scatter.py:830-834`), so nothing makes it wait for CTA 1's TMA lane.
`GemmPipeline_unaligned` shows what follows: the MMA warps go on, free the stage in both CTAs
twice, and CTA 1's lane, which polls a parity, sleeps through the phase it was waiting for. The
cluster hangs. Every shape in `GEMM_RS_MODEL_SHAPES` gives a whole number of laps with one rank or
four, so the drain is dead code today, and the aligned runs show that the pipeline is right there.

**Leaving before the peer's last arrival.** With the overlapped epilogue the fp16 GEMM ends with a handshake
of the consumers, "lighter than a full cluster_sync" (`fp16_bf16_gemm.py:773-775`). It orders what the
consumers do, and `FreedLast` holds. But the loader and the scheduler of CTA 1 decode the last answer on their
own, and their remote arrival on CTA 0's `sched_fin` is ordered before nothing: `ClcGemm_exit` shows CTA 0
gone while they have not arrived. Only timing keeps the window closed, since a tile is still written
back in the meantime.

**An arrival that speaks for one warp.** In combine's `grid_barrier` thread 0 of an SM arrives with no
`bar.sync` before it (`combine.py:254-258`; the `bar.sync` is behind the wait). At the exit barrier the other
warps of an SM may still be storing tokens to peers when the count is complete and SM 0 tells the peers that all
is done (`:348-349`). The reduction of a peer, which expects that "all peer data are visible"
(`:404`), then reads slots of the call before: `DeepEPCombine_exit`. SM 0 itself is safe, since `nvlink_barrier` begins with a
`bar.sync`; so is dispatch, which uses the runtime's grid sync.

## What is proved

Thirty-five theorems over the model, each for every value of the constants that the named assumptions of its
module allow (positive sizes, finite sets, no task twice in a prefilled queue). A theorem listed here
is about `Spec` (`BarrierSpec` of `NvlinkBarrier`, `CombineSpec` of `DeepEPCombine`), without fairness. None of the invariants below is inductive as the runs check it; each
proof module opens with the strengthening it needs, one named part per link of the argument, and
then has one lemma per action and, where an action only frames a part, a lemma that says so.

### The reduce-scatter protocol

| Theorem | It proves |
|---|---|
| `TypeCorrect` | `TypeOK` |
| `ReductionComplete` | `ReducedFromEveryRank`: a share of the output is not yet written or sums the data of every rank |
| `SemaphoresExact` | `SemaphoreCountsStores`: a semaphore is the number of parts of its tile stored and notified |
| `ClaimsAreExclusive` | `ClaimsExclusive`: no two clusters hold one position of a queue |
| `EveryTaskRunsOnce` | `TasksRunOnce`: no part is stored, and no share reduced, a second time |
| `PeersAreDone` | `DoneMeansPeersDone`: a cluster leaves when every rank is at its exit barrier |
| `QuietWhenCleared` | `ClearWhileQuiet`: nobody writes into a rank that is being cleared |
| `LaunchEndsTerminal` | `TerminalState`: the counters the tests read after a launch |
| `KernelReduceScatters` | `ImplementsReduceScatter`: the refinement of `ReduceScatter` |

All are in `GemmRS_proofs`, the invariants in `GemmRSInv`:

* `IInv`. A reduction is complete because its task came out of the RS queue, which named it because a
  notifier saw the full count, which is full because every part was stored, and a part is stored once because a GEMM
  position is claimed once. `HostInv` (ranks clear together; a cluster that is not at work holds
  nothing), `GemmInv` (at most one cluster of a rank holds a task, what it holds is claimed and not
  stored), `SemInv` (the count), `RsInv` (wherever a tile can be named as an RS task, its semaphore has completed). While
  the ranks clear, their memories disagree and only `HostInv` holds.
* `QueueInv`. `ClaimInv`: a cluster's RS claim is behind the head and is its own. `PlaceInv`: a completed tile
  has one enqueuer, a position one tile. `TakeInv`: a position that is gone had been settled, and a task
  that left the queue is with one cluster per worker, reduced or not yet.
* `ExitInv`. The local counter of a rank is the number of its clusters past the task loop; the
  counter of the exit barrier is the number of arrived ranks whose add has landed.
* `DrainInv`. Nothing is dropped: what was claimed is stored, reduced or still carried by somebody, and a
  cluster leaves only when both heads are at their counts. With `ExitInv` it gives `TerminalState`.

The refinement maps a store, a reduction and the end of a launch to the steps of `ReduceScatter`, everything else to a
stutter; what it needs of the invariants is that a reduction finds every part there and a launch ends whole.

### The barrier of the ranks, and the two DeepEP kernels around it

`NvlinkBarrier_proofs`, for any finite set of ranks and any number of barriers: `BarrierTypes`
(a signal word stays between 0 and the number of ranks), `BarrierSafe` (`PassedAfterAll`) and
`BarrierImplements` (`RanksMeet`, the refinement of `Rendezvous`). `PassedAfterAll` is not inductive alone.
`BarrierInv` adds `Counted`: a signal word is the number of ranks whose mark in it is set, where the signals a
rank has sent decide its mark (set by an addition of 1, taken away by one of -1, every second barrier). When
a rank finds the word at its target, all marks are set, or none, and since no rank is further than one barrier
from another (`PassedAfterAll` again) that can only be the marks of this barrier.

`DeepEP_proofs` extends that module and both kernels, and first proves of each that it takes the barrier's
steps and no others, so that its invariant holds inside the kernel too; for combine
this is the theorem `CombineRanksMeet` (`PassedAfterAll`, `BarrierTypeOK` and `RanksMeet` of `CombineSpec`).

* `GridBarrierHolds` (`GridHolds`) and `SlotsApart` (`SlotsOfOneCall`). `GridCounts`: in call `n` a grid word holds
  `(n - 1) * NUM_SMS` and one for every SM that is through, so the goal `n * NUM_SMS` is reached with the last
  SM of this call and not before. `CombineCountInv`: how many barriers a rank has passed says where it is in which call; so
  `BarrierSafe` bounds what the peers can have stored.
* `DispatchReceives` (`ReceivedExactly`) and `DispatchAtRest` (`AtRest`). `SetupInv` covers the time before all ranks
  have cleared their buffers. `CountInv` ties barriers to calls: no rank is in kernel 1 of a call a peer
  has not launched or has left behind. `SumInv`: the packed word sums over exactly the SMs that have added.
  `WordInv`, per pair: a count word holds the count of a call both ranks are in, or nothing. `SlotInv`, per pair: every token
  sent has one slot, where it is or where its copy flies to; when the copies have landed the region holds the tokens due.

### The all-gather kernel

`AllGatherGemm_proofs`: `SignalsStayInLaunch` (`GatherMeetsLaunch`) and `ProductWhole` (`ReturnsWholeProduct`). Across
ranks (`CopyInv`): a semaphore that is set says that the rows of *this* launch are there, and a rank that still owes
rows to another keeps it inside its launch, because that one has a task that waits for them. That argument needs each rank to have a
task for the rows of each other rank, which is arithmetic on the group-major order of the queue:
the lemmas `TaskAtFacts` and `TaskAtOnto` prove the order a bijection onto the tasks for any sizes. Within a rank
(`QueueInv`, `TaskInv`): a task leaves the queue only with its rows there, and what left is stored or on its way.

### The pipelines inside a cluster

`GemmPipeline_proofs`: `WaitersKeepUp` (`NeverLapped`), `SumsAreWhole` (`AccumulatorIntact`), `StagesReachBoth`
(`StagesBroadcast`) and `PacketsReachAll` (`PacketsBroadcast`), for any depth of the ring, blocks of a task and number of
tasks. The last one holds of `Spec`. The others are of the form `Spec /\ WholeLaps => ...`, where `WholeLaps` says that
`K_BLOCKS` is a multiple of `PIPELINE_DEPTH`: it is a condition on `shape`, which never changes. It holds of every shape in
`GEMM_RS_MODEL_SHAPES` with one rank or four, and it is needed: without it the pipeline hangs (the first finding).

Every wait in this module is for a parity, so what has to be shown is that phases which threads count for themselves,
per lap and not per stage, stay within one of the barrier's. `ControlInv` says why:

* `PacketInv`. `c2p` has completed as many phases as packets were received by everybody, and its pending count is what is
  missing of the next. Nobody is more than one packet ahead of anybody.
* `RingInv`. `Fill(a, s)`, how often thread `a` has been at stage `s`, is its laps and one more for the stages it has
  passed in this one; that this is so through the end of a task is where whole laps are needed (`LapsInv`). Per
  stage, the barriers' phases are tied to copies announced, sent and landed (`FullInv`, where the transfer count may be below
  zero) and to what the two tensor queues have freed (`EmptyInv`), each at most one ahead of the next.
* `QueueInv`. What a queue holds are the last operations of one task, at positions `Low .. High - 1` not freed, on
  stages that differ. So a free counts for a filling of its own.
* `TmemInv`. The phases of an accumulator's barriers are the uses its tensor core has completed and both CTAs' consumers have
  given back.

`NeverLapped` follows. What the data are takes two witnesses, the number `n` of tasks so far and the packets `pk` that
brought them (`TaskInv`; a publication extends both): `JobInv` says which of these tasks each agent is at, and where in its laps,
`BlocksInv` which block a copy in flight carries and a stage holds, from the number of fillings alone, and `SumInv` that an
accumulator is the blocks of its task up to the operation executed last. A consumer reads after the last. For the two
refinements, a packet has been taken by those that count it (`Receivers`) and a stage by the warps whose freeings have caught up
with its phase (`FreedIs`, `StageTurns`): the copy that completes the phase is the put, a free is a take.

### A cluster under launch control

`ClcGemm_proofs`, for any set of kernels `KernelsAssumption` allows (one consumer or two, any number of tiles, any look-ahead):
`OwnTileStored` (`StoresItsOwnTile`), `NoTileLost` (`NothingLost`), `TmemFreedLast` (`FreedLast`) and
`AnswersReachAll` (`AnswersBroadcast`, the refinement of `BroadcastCells`). All roles wait by parity and none knows how
far the others are; `ClcInv` says why that suffices.

* `RoundInv`. `FIN` has completed as many phases as every role has decoded answers, and its pending count is
  what is missing of the next: so nobody is more than one answer ahead of anybody, an answer is asked for when all have
  decoded the last, and the phase of `ARR` completes only then. A parity cannot be mistaken.
* `TmemInv`. The phases of a slot's barriers are the uses of it that the tensor core finished and that both
  consumers freed (`SlotInv`), the queue holds the uses in between, and the accumulator of a use that can still be
  read is the product of what the loaders staged for that use (`MmaInv`).
* `EndInv`. Who has left: with overlap a consumer whose peer has said goodbye; without, everybody or nobody.
* `TileInv(T)`. There is one sequence `T` of tiles such that each role's `n`-th tile is `T[n]`, the loads and what is stored are
  prefixes of it, its members are distinct, and it ends with "none". The sequence is a witness, not a variable: a new
  answer extends it.

### Remote submission

`RemoteSubmission_proofs`: `TimedBoundedly` (`RunsBounded`), `RootsKept` (`LiveRootsKept`) and `EveryClientClosed`
(`ClientsClosed`), for any number of threads, workloads, attempts and ages. `Owned`: a workload is in the
queue, with one thread, or through. `Spent`: what a thread may still make the server run, with what the server is
about to run for nobody, never exceeds the connections that have broken. `Young`: a live root is not older than
the limit; this rests on the assumption that the server's limit on a request is below the age at which a
sweep deletes.

### The radix top-k of a group

`RadixTopK_proofs`: `GroupMeets` (`MeetsAsOne`, the refinement of `Rendezvous`), `WorkspaceLeftClean` (`WorkspaceClean`),
`RoundsAreExact` (`HistogramExact`), `SelectsTheLargest` (`RowsSelected`) and `PlacesByRank` (`Reproducible`), for any
group of at least two CTAs, chunk and block size, digit width, `K`, rows and number of launches.

* `ControlInv`. `PathInv`: a place in the row loop says how many barriers of this launch lie behind it (`Gates` of the rows
  before, `Stage` within the row), the same for every CTA. `CountInv`: nobody has left a barrier another has not come to, and
  the arrival counter, which is never reset within a launch, is the number of arrivals; so the count a CTA waits for is
  reached with the last arrival, and the CTA whose arrival at the exit makes it a multiple is the last.
* `CleanInv`: what that last CTA has put back.
* `DataInv`. CTAs at work in the rounds are at most one round apart, fewer than there are buffers. So the histogram of a
  round is, at any time, the histogram of the chunks folded into it so far (`RoundInv`), the one CTA 0 cleared last is the one
  that is opened next, by whoever gets there first (`NextInv`), and a CTA that reads finds all chunks. Its
  `found` is the masked pivot and the number of keys still wanted (`FoundInv`).

* `OutInv`. For a row on its way (`WorkedOut`) there is a function from the keys that were given a slot to slots, one each
  (`OneEach`): below the number of keys given one, or, with the deterministic collect, the rank the key will have, by CTA and then by thread
  (`Slot`; the block of slots of a CTA begins where the counts before it end, and inside it the rank is among the CTA's own keys), and below `K` for every key above the pivot (`InReach`). It agrees with what a CTA has claimed and not yet
  written (`FromBase`), and the row's slots hold exactly what it says of the keys written so far (`Holds`), as pages where a
  CTA has gathered its share. The function is there to be found, not computed: a claim or a collected key extends it.
  What makes the next slot new is that `output_counter` is the number of keys given one while anybody can
  claim (`OutputInv`: nobody is in a row whose CTA 0 has yet to reset it), and that the published counts are those of the
  row (`ScratchInv`). Below the last key given a slot there is no gap, since n naturals below n are all of them
  (`NoSlotLeft`); so once the row is behind everyone, the `K` slots hold `K` keys, all those above the pivot among them.

That a radix step finds the next digit (`ThresholdFinds`) is arithmetic, proved for any digit width. Two facts in it are about recursive
functions, the powers of two and the strided suffix sums; there, induction is a set of naturals without a least
counterexample (`Induct`), and a recursive function is shown to be what its equation says (`TwoToFunction`, `ScanExists`). Nothing
of it is assumed but `BitsAssumption`.

### What is only model-checked

* All liveness (under fairness it is out of the prover's reach): `LaunchesEnd`, `ClusterFinishes` and their kin.
* Nothing is proved of `GemmPipeline` when a task leaves part of a lap over, but for its packets: there the pipeline hangs,
  which is the first finding.
* `ClcGemm`: `PeerStaysForArrivals` is violated by the code (see the findings), so there is nothing to prove.

## What is not modelled, and the plan

Not to be modelled: the numeric content of tiles, register and swizzle layouts, descriptors, trace-time IR
construction, report formatting; and the numeric kernels, which are most of the repository's lines (`kda/`, `msa/`, `mla/`,
`vsa/`, `ported/cudnn/`, most of `ported/flashinfer/`). They keep no state between launches but registers and
shared memory, and their warps meet in producer/consumer pipelines of the shape `GemmPipeline` checks. What
is hard in them is the arithmetic of a tile, which a model checker does not see.
The memory model is sequentially consistent at the granularity of the actions: the release/acquire pairs and
proxy fences of the code are taken to order what they are placed to order.

Left out of what is modelled:

* the wrap of `gemm_head` after 2^31 polls, which the model saturates (a hazard without a property);
* a radix row with more CTAs than SMs, where residency fails (a hazard without a property);
* an interrupt that arrives during the clean-up of a sweep, the contents of rows, and extraction roots left
  behind by dead requests (the next sweep takes them when they are old);
* in DeepEP the expert prefix sums, alignment and token layout; in fp16 GEMM the staged D tile.

Not modelled yet: nvfp4 GEMM (the same roles under a persistent tile order), mega-MoE (arrival counters over the
DeepEP barriers), the runner's life cycle, rings and tile orders of `tirx_lite`, A/B pairing. Registry, tracing, scripts and
reports are sequential functions of their inputs and stay with unit tests.

Next modules:

1. `TileOrders`: the group-major orders of `tirx_lite/scheduler.py` as functions, each a bijection onto the
   tiles, with `RingState`;
2. `RunnerLifecycle`: prepare, run, close, deferred interrupts, rank processes;
3. mega-MoE's arrival counters, on `NvlinkBarrier`;
4. a queue head with a narrow integer, for the wrap of `gemm_head`.
