------------------------------- MODULE ClcGemm -------------------------------
(***************************************************************************)
(* One two-CTA cluster of src/tirx_kernels/gemm/fp16_bf16_gemm.py under     *)
(* cluster launch control (src/tirx_kernels/tirx_lite/scheduler.py): the    *)
(* scheduler of CTA 0 asks the hardware to cancel a cluster that has not    *)
(* been launched and to hand over its tile; the answer is broadcast to both *)
(* CTAs, and every role decodes it for itself and reports to CTA 0.         *)
(*                                                                         *)
(*   <<"sched", c>>    the scheduler warp of CTA c                          *)
(*   <<"load", c>>     the TMA loader warp of CTA c                         *)
(*   <<"mma", i>>      MMA warp i, in CTA 0                                 *)
(*   <<"con", c, i>>   consumer warpgroup i of CTA c                        *)
(*                                                                         *)
(* With one consumer the kernel overlaps its epilogue: the accumulator is   *)
(* double-buffered and the CTAs part with a handshake of the consumers.     *)
(* With two, each has one accumulator and a cluster_sync ends the kernel.   *)
(* The shared-memory ring (see GemmPipeline) carries whole tiles here.      *)
(***************************************************************************)
EXTENDS MBarrier, Sequences, FiniteSets

CONSTANT Kernels  \* the kernels there are, see the fields below
ASSUME KernelsAssumption ==
  Kernels \subseteq [consumers : 1 .. 2, lookahead : Nat \ {0}, tiles : Nat \ {0}]

VARIABLE kernel                        \* the one that runs
NUM_CONSUMER == kernel.consumers       \* consumer warpgroups of a CTA, MMA warps of the cluster
LOOKAHEAD == kernel.lookahead          \* whole tiles the shared-memory ring can hold
TILES == kernel.tiles                  \* bound: the tiles of the grid that this cluster can get

OVERLAP == NUM_CONSUMER = 1
CTA == 0 .. 1
WG == 0 .. NUM_CONSUMER - 1
TMEM_PHASE_DEPTH == IF OVERLAP THEN 2 ELSE 1     \* slots one MMA warp cycles through
Slot == 0 .. 1                                    \* TMEM_SLOTS is 2 either way
Tile == 0 .. TILES - 1                            \* tile 0 is the cluster's own
Drained == -1                                     \* 0xFFFFFFFF: nothing cancelled

Agent == ({"sched", "load"} \X CTA) \cup ({"mma"} \X WG) \cup ({"con"} \X CTA \X WG)
CtaOf(a) == IF a[1] = "mma" THEN 0 ELSE a[2]

(* sched_arr.full, sched_fin.empty, tmem_pipe and tmem_fin.full.             *)
ARR(c) == <<"arr", c>>
FIN == <<"fin">>
TFULL(c, s) == <<"tfull", c, s>>
TEMPTY(s) == <<"tempty", s>>
BYE(c) == <<"bye", c>>
Barrier == {ARR(c) : c \in CTA} \cup {FIN} \cup {TFULL(c, s) : c \in CTA, s \in Slot}
             \cup {TEMPTY(s) : s \in Slot} \cup {BYE(c) : c \in CTA}

VARIABLES
  bar,       \* the barriers
  agent,     \* per agent: its place, its tile, the answer it decoded last,
             \*   how many it decoded, how many accumulators it used
  request,   \* the answer on its way to the CTAs in it
  handle,    \* per CTA: the answer in its shared memory
  given,     \* the tiles this cluster has been given
  loads,     \* per CTA: the tiles loaded, in order
  queue,     \* per MMA warp: the slots of the tiles issued and not done
  mmaDone,   \* per MMA warp: the tiles done
  acc,       \* per slot: the tiles whose halves were multiplied
  stored     \* the tiles stored, with the consumer that did

vars == <<kernel, bar, agent, request, handle, given, loads, queue, mmaDone, acc, stored>>

(* Arrivals per phase, an agent standing for all its threads.                *)
FinishArrivals == (2 + NUM_CONSUMER) * 2 + NUM_CONSUMER
MmaForgotten(b) == CASE b[1] = "fin" -> FinishArrivals - NUM_CONSUMER
                     [] b[1] = "tempty" -> 2
                     [] OTHER -> 1
OneCtaReads(b) == CASE b[1] = "fin" -> FinishArrivals
                    [] OTHER -> 1
Count(b) == CASE b[1] = "fin" -> FinishArrivals
              [] b[1] = "tempty" -> 2
              [] OTHER -> 1

Partial == <<Drained, Drained>>
FirstPlace(a) == CASE a = <<"sched", 0>> -> "cancel"
                   [] a = <<"sched", 1>> -> "expect"
                   [] a[1] = "load" -> "load"
                   [] OTHER -> "decode"
Init ==
  /\ kernel \in Kernels
  /\ bar = [b \in Barrier |-> Armed(Count(b))]
  /\ agent = [a \in Agent |-> [place |-> FirstPlace(a), tile |-> 0, next |-> Drained,
                               seen |-> 0, uses |-> 0]]
  /\ request = [to |-> {}, answer |-> Drained] /\ handle = [c \in CTA |-> Drained]
  /\ given = {0}
  /\ loads = [c \in CTA |-> <<>>]
  /\ queue = [i \in WG |-> <<>>] /\ mmaDone = [i \in WG |-> 0]
  /\ acc = [s \in Slot |-> Partial] /\ stored = {}

Moved(a, place) == [agent EXCEPT ![a].place = place]

(* PipelineState of a TMEM user: the slot of its n-th accumulator, and which *)
(* use of that slot it is.                                                  *)
SlotOf(i, n) == IF OVERLAP THEN n % TMEM_PHASE_DEPTH ELSE i
PhaseEachUse(n) == n
PhaseOf(n) == n \div TMEM_PHASE_DEPTH

----------------------------------------------------------------------------
(* run_scheduler: CTA 0 asks for a tile once everybody has decoded the last. *)
(* The hardware gives one that no cluster has, or none.                      *)
Cancel ==
  LET a == <<"sched", 0>> IN
  /\ agent[a].place = "cancel" /\ Passed(bar[FIN], agent[a].seen - 1)
  /\ \E answer \in (Tile \ given) \cup {Drained} :
       /\ request' = [to |-> CTA, answer |-> answer]
       /\ given' = (given \cup {answer}) \ {Drained}
  /\ agent' = Moved(a, "expect")
  /\ UNCHANGED <<bar, handle, loads, queue, mmaDone, acc, stored>>

SchedExpect(c) ==
  LET a == <<"sched", c>> IN
  /\ agent[a].place = "expect"
  /\ bar' = [bar EXCEPT ![ARR(c)] = ArriveExpect(@, 1)]
  /\ agent' = Moved(a, "decode")
  /\ UNCHANGED <<request, handle, given, loads, queue, mmaDone, acc, stored>>

(* The answer lands in a CTA, possibly before its bytes are announced there. *)
Deliver(c) ==
  /\ c \in request.to
  /\ request' = [request EXCEPT !.to = @ \ {c}]
  /\ handle' = [handle EXCEPT ![c] = request.answer]
  /\ bar' = [bar EXCEPT ![ARR(c)] = Landed(@)]
  /\ UNCHANGED <<agent, given, loads, queue, mmaDone, acc, stored>>

(* Where a role goes once it has decoded an answer. The MMA warps and the    *)
(* consumers still have the tile at hand to finish.                         *)
End == IF OVERLAP THEN "left" ELSE "sync"
GoesOn(a) ==
  CASE a[1] = "mma" -> "acquire"
    [] a[1] = "con" -> "wait"
    [] a[1] = "load" -> "load"
    [] a = <<"sched", 0>> -> "cancel"
    [] OTHER -> "expect"
TailDropped(a, answer) == IF answer = Drained THEN End ELSE GoesOn(a)
Decoded(a, answer) == IF answer = Drained /\ a[1] \in {"sched", "load"} THEN End ELSE GoesOn(a)

Consume(a) ==
  LET r == agent[a]
      answer == handle[CtaOf(a)]
  IN
  /\ r.place = "decode" /\ Passed(bar[ARR(CtaOf(a))], r.seen)
  /\ agent' = [agent EXCEPT ![a] = [r EXCEPT
       !.place = Decoded(a, answer), !.next = answer, !.seen = @ + 1,
       !.tile = IF a[1] = "load" /\ answer # Drained THEN answer ELSE @]]
  /\ bar' = [bar EXCEPT ![FIN] = Arrive(@)]
  /\ UNCHANGED <<request, handle, given, loads, queue, mmaDone, acc, stored>>

----------------------------------------------------------------------------
(* loader_body: both CTAs load their halves of the tile.                     *)
Load(c) ==
  LET a == <<"load", c>> IN
  /\ agent[a].place = "load"
  /\ \A i \in WG : Len(loads[c]) - mmaDone[i] < LOOKAHEAD
  /\ loads' = [loads EXCEPT ![c] = Append(@, agent[a].tile)]
  /\ agent' = Moved(a, "decode")
  /\ UNCHANGED <<bar, request, handle, given, queue, mmaDone, acc, stored>>

(* mma_body: acquire an accumulator, then multiply what the loaders staged.  *)
MmaAcquire(i) ==
  LET a == <<"mma", i>>
      s == SlotOf(i, agent[a].uses)
  IN
  /\ agent[a].place = "acquire" /\ Passed(bar[TEMPTY(s)], PhaseOf(agent[a].uses) - 1)
  /\ agent' = Moved(a, "issue")
  /\ UNCHANGED <<bar, request, handle, given, loads, queue, mmaDone, acc, stored>>

MmaIssue(i) ==
  LET r == agent[<<"mma", i>>]
      s == SlotOf(i, r.uses)
  IN
  /\ r.place = "issue" /\ \A c \in CTA : Len(loads[c]) > r.uses
  /\ acc' = [acc EXCEPT ![s] = Partial]
  /\ queue' = [queue EXCEPT ![i] = Append(@, s)]
  /\ agent' = [agent EXCEPT ![<<"mma", i>>] = [r EXCEPT
       !.uses = @ + 1, !.place = IF r.next = Drained THEN End ELSE "decode"]]
  /\ UNCHANGED <<bar, request, handle, given, loads, mmaDone, stored>>

(* The tensor core finishes a tile and commits to both CTAs.                 *)
TensorDone(i) ==
  LET s == Head(queue[i])
      n == mmaDone[i] + 1
  IN
  /\ queue[i] # <<>>
  /\ acc' = [acc EXCEPT ![s] = <<loads[0][n], loads[1][n]>>]
  /\ queue' = [queue EXCEPT ![i] = Tail(@)]
  /\ mmaDone' = [mmaDone EXCEPT ![i] = n]
  /\ bar' = [b \in Barrier |-> IF b \in {TFULL(c, s) : c \in CTA} THEN Arrive(bar[b]) ELSE bar[b]]
  /\ UNCHANGED <<agent, request, handle, given, loads, stored>>

(* writeback: wait for the accumulator, read it, free it, store the tile.    *)
ConsumerWait(c, i) ==
  LET a == <<"con", c, i>>
      r == agent[a]
  IN
  /\ r.place = "wait" /\ Passed(bar[TFULL(c, SlotOf(i, r.uses))], PhaseOf(r.uses))
  /\ agent' = Moved(a, "read")
  /\ UNCHANGED <<bar, request, handle, given, loads, queue, mmaDone, acc, stored>>

Writeback(c, i) ==
  LET a == <<"con", c, i>>
      r == agent[a]
  IN
  /\ r.place = "read"
  /\ bar' = [bar EXCEPT ![TEMPTY(SlotOf(i, r.uses))] = Arrive(@)]
  /\ stored' = stored \cup {<<c, i, r.tile>>}
  /\ agent' = [agent EXCEPT ![a] = [r EXCEPT !.uses = @ + 1,
       !.tile = IF r.next = Drained THEN @ ELSE r.next,
       !.place = IF r.next # Drained THEN "decode" ELSE IF OVERLAP THEN "bye" ELSE "sync"]]
  /\ UNCHANGED <<request, handle, given, loads, queue, mmaDone, acc>>

----------------------------------------------------------------------------
(* Teardown with overlap: a handshake of the two consumers. Without: a       *)
(* cluster_sync of all roles. Then warp 0 of each CTA frees the accumulators. *)
Itself(c) == c
PeerOf(c) == 1 - c
SayBye(c) ==
  LET a == <<"con", c, 0>> IN
  /\ agent[a].place = "bye"
  /\ bar' = [bar EXCEPT ![BYE(PeerOf(c))] = Arrive(@)]
  /\ agent' = Moved(a, "byewait")
  /\ UNCHANGED <<request, handle, given, loads, queue, mmaDone, acc, stored>>

WaitBye(c) ==
  LET a == <<"con", c, 0>> IN
  /\ agent[a].place = "byewait" /\ Passed(bar[BYE(c)], 0)
  /\ agent' = Moved(a, "free")
  /\ UNCHANGED <<bar, request, handle, given, loads, queue, mmaDone, acc, stored>>

AllSync == \A a \in Agent : agent[a].place = "sync"
ClusterSync ==
  /\ AllSync
  /\ agent' = [a \in Agent |-> [agent[a] EXCEPT !.place =
                 IF a[1] = "con" /\ a[3] = 0 THEN "free" ELSE "left"]]
  /\ UNCHANGED <<bar, request, handle, given, loads, queue, mmaDone, acc, stored>>

Dealloc(c) ==
  LET a == <<"con", c, 0>> IN
  /\ agent[a].place = "free"
  /\ agent' = Moved(a, "left")
  /\ UNCHANGED <<bar, request, handle, given, loads, queue, mmaDone, acc, stored>>

Terminated ==
  /\ \A a \in Agent : agent[a].place = "left"
  /\ UNCHANGED vars

Sched(c) == SchedExpect(c) \/ (c = 0 /\ Cancel)
Mma(i) == MmaAcquire(i) \/ MmaIssue(i)
Consumer(c, i) == ConsumerWait(c, i) \/ Writeback(c, i)
Teardown(c) == SayBye(c) \/ WaitBye(c) \/ Dealloc(c)

Step ==
  \/ \E a \in Agent : Consume(a)
  \/ \E c \in CTA : Sched(c) \/ Deliver(c) \/ Load(c) \/ Teardown(c)
  \/ \E i \in WG : Mma(i) \/ TensorDone(i)
  \/ \E c \in CTA, i \in WG : Consumer(c, i)
  \/ ClusterSync
Next == (Step /\ UNCHANGED kernel) \/ Terminated

Spec == Init /\ [][Next]_vars

(* As long as some role can run or the hardware has something to complete,   *)
(* one of them does; which one is nobody's promise.                          *)
FairSpec == Spec /\ WF_vars(Next)

----------------------------------------------------------------------------
(* A consumer reads the product of the halves both loaders staged for the    *)
(* tile whose coordinates it decoded for itself: roles that never talk to    *)
(* each other about tiles agree on every one of them.                       *)
StoresItsOwnTile ==
  \A c \in CTA, i \in WG :
    LET r == agent[<<"con", c, i>>] IN
    r.place = "read" => /\ acc[SlotOf(i, r.uses)] = <<r.tile, r.tile>>
                        /\ <<c, i, r.tile>> \notin stored

(* What the cluster leaves behind: each tile it was given is stored by every *)
(* consumer, and no answer or transfer is still on its way.                  *)
NothingLost ==
  (\A a \in Agent : agent[a].place = "left") =>
    /\ stored = CTA \X WG \X given
    /\ request.to = {} /\ \A b \in Barrier : bar[b].tx = 0

(* The accumulators are freed only when no tensor-core operation and no      *)
(* consumer of either CTA can still touch them.                             *)
FreedLast ==
  (\E c \in CTA : agent[<<"con", c, 0>>].place \in {"free", "left"}) =>
    /\ \A i \in WG : queue[i] = <<>> /\ agent[<<"mma", i>>].place \notin {"acquire", "issue"}
    /\ \A c \in CTA, i \in WG : agent[<<"con", c, i>>].place \notin {"decode", "wait", "read"}

(* The hand-over of an answer in each CTA keeps the promise of               *)
(* BroadcastCells: it is decoded once by every role of that CTA before the   *)
(* next answer is written over it.                                          *)
RolesOf(c) == {a \in Agent : CtaOf(a) = c}
DecodedBy == [c \in CTA |-> {a \in RolesOf(c) : agent[a].seen = bar[ARR(c)].turn}]
AnswerCell == INSTANCE BroadcastCells WITH
  Readers <- [c \in CTA |-> RolesOf(c)], Items <- Nat \cup {Drained}, NoItem <- "none", taken <- DecodedBy,
  item <- [c \in CTA |-> IF DecodedBy[c] = RolesOf(c) THEN "none" ELSE handle[c]]
AnswersBroadcast == AnswerCell!Spec

(* No arrival on a barrier of the other CTA is made after that CTA has left: *)
(* its shared memory is gone then. The source says that the handshake of the  *)
(* overlapped epilogue is enough for that.                                   *)
Gone(c) == \A a \in RolesOf(c) : agent[a].place = "left"
BeforeArrivalAbroad(a) ==
  CASE a[1] = "mma" -> {"decode", "acquire", "issue"}
    [] CtaOf(a) = 1 -> {"expect", "decode", "load", "wait", "read", "bye"}
    [] OTHER -> {"bye"}
PeerStaysForArrivals ==
  \A c \in CTA : Gone(c) =>
    /\ \A a \in Agent \ RolesOf(c) : agent[a].place \notin BeforeArrivalAbroad(a)
    /\ \A i \in WG : queue[i] = <<>>

(* Every role leaves: no wait lasts for ever, whatever the hardware answers. *)
ClusterFinishes == <>(\A a \in Agent : agent[a].place = "left")
=============================================================================
