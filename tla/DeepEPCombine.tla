--------------------------- MODULE DeepEPCombine ---------------------------
(***************************************************************************)
(* The combine of src/tirx_kernels/ported/deepep/combine.py on all ranks:   *)
(* every warp stores its share of the tokens into the slots of the ranks    *)
(* they came from, between two barriers of the ranks that only SM 0 takes   *)
(* and that a grid barrier extends to the other SMs; then a second kernel   *)
(* reduces the slots of its own rank. The grid barrier is software: thread  *)
(* 0 of an SM counts arrivals in a word per site that no launch resets.     *)
(*                                                                         *)
(* A slot holds the call that wrote it last. Warp 0 holds thread 0.         *)
(***************************************************************************)
EXTENDS DeepEPCalls

CONSTANT NUM_WARPS

ASSUME SizeAssumption == NUM_SMS \in Nat \ {0} /\ NUM_WARPS \in Nat \ {0}

Warp == SM \X (0 .. NUM_WARPS - 1)
WarpsOf(s) == {w \in Warp : w[1] = s}
Site == 0 .. 1

VARIABLES
  place,       \* per rank and warp: its place in kernel 1
  grid,      \* per rank and site: arrivals ever counted
  goal,      \* per rank and SM: the count thread 0 waits for
  slot       \* per rank and warp of any rank: the call whose tokens it holds

kernelVars == <<call, place, grid, goal, slot>>
combineVars == <<barrierVars, kernelVars>>

(* A kernel opens on the barrier of the ranks in SM 0, on the grid barrier    *)
(* everywhere else.                                                         *)
GridOnly == [w \in Warp |-> "grid"]
Opening == [w \in Warp |-> IF w[1] = 0 THEN "nvlink" ELSE "grid"]
Move(r, ws, p) ==
  place' = [place EXCEPT ![r] = [w \in Warp |-> IF w \in ws THEN p ELSE @[w]]]
KernelDone(r) == \A w \in Warp : place[r][w] = "done"

(* The stream runs the two kernels of one call, then those of the next; the  *)
(* reduction ends before the next kernel 1 begins (not launched early).      *)
CombineLaunch(r) ==
  /\ place[r] = [w \in Warp |-> "idle"] /\ call[r] < CALLS
  /\ call' = [call EXCEPT ![r] = @ + 1]
  /\ place' = [place EXCEPT ![r] = Opening]
  /\ UNCHANGED <<barrierVars, grid, goal, slot>>

(* nvlink_barrier: its bar.sync finds the warps of SM 0 there already.        *)
CombineEnter(r) ==
  /\ Begin(r) /\ place[r][<<0, 0>>] \in {"nvlink", "nvlink_exit"}
  /\ UNCHANGED kernelVars
CombineTell(r, q) == Tell(r, q) /\ UNCHANGED kernelVars
CombineCount(r) == CountUp(r) /\ UNCHANGED kernelVars
CombinePass(r) ==
  /\ Pass(r)
  /\ Move(r, WarpsOf(0), IF place[r][<<0, 0>>] = "nvlink" THEN "grid" ELSE "done")
  /\ UNCHANGED <<call, grid, goal, slot>>

(* grid_barrier: thread 0 reads the count, adds to it, and waits; the other   *)
(* warps go straight to the bar.sync behind it.                             *)
SiteOf(p) == IF p \in {"grid", "arrive", "wait"} THEN 0 ELSE 1
LastUnseen(r, s, site) == grid[r][site] >= goal[r][s] - 1
NextGoal(c) == c + NUM_SMS
Goal(c) == (c \div NUM_SMS + 1) * NUM_SMS
ReadCount(r, s) ==
  LET p == place[r][<<s, 0>>]
  IN /\ p \in {"grid", "grid_exit"}
     /\ goal' = [goal EXCEPT ![r][s] = Goal(grid[r][SiteOf(p)])]
     /\ Move(r, {<<s, 0>>}, IF p = "grid" THEN "arrive" ELSE "arrive_exit")
     /\ UNCHANGED <<barrierVars, call, grid, slot>>

Arrive(r, s) ==
  LET p == place[r][<<s, 0>>]
  IN /\ p \in {"arrive", "arrive_exit"}
     /\ grid' = [grid EXCEPT ![r][SiteOf(p)] = @ + 1]
     /\ Move(r, {<<s, 0>>}, IF p = "arrive" THEN "wait" ELSE "wait_exit")
     /\ UNCHANGED <<barrierVars, call, goal, slot>>

GridPassed(r, s, site) == grid[r][site] >= goal[r][s]
GridLeave(r, s, from, wait, to) ==
  /\ place[r][<<s, 0>>] = wait
  /\ GridPassed(r, s, SiteOf(wait))
  /\ \A w \in WarpsOf(s) \ {<<s, 0>>} : place[r][w] = from
  /\ Move(r, WarpsOf(s), to)
  /\ UNCHANGED <<barrierVars, call, grid, goal, slot>>
EntryDone(r, s) == GridLeave(r, s, "grid", "wait", "send")
ExitDone(r, s) ==
  GridLeave(r, s, "grid_exit", "wait_exit", IF s = 0 THEN "nvlink_exit" ELSE "done")

(* One warp stores its tokens into the slots of their ranks, and waits until  *)
(* the copies are complete: wait_group, for its own copies.                  *)
Store(r, w) ==
  /\ place[r][w] = "send"
  /\ slot' = [q \in Rank |-> [slot[q] EXCEPT ![<<r, w>>] = call[r]]]
  /\ Move(r, {w}, "grid_exit")
  /\ UNCHANGED <<barrierVars, call, grid, goal>>

(* Kernel 2 waits for the whole of kernel 1 (griddepcontrol.wait).            *)
Reduced(r) ==
  /\ KernelDone(r)
  /\ Move(r, Warp, "idle")
  /\ UNCHANGED <<barrierVars, call, grid, goal, slot>>

CombineInit ==
  /\ BarrierInit
  /\ call = [r \in Rank |-> 0]
  /\ place = [r \in Rank |-> [w \in Warp |-> "idle"]]
  /\ grid = [r \in Rank |-> [i \in Site |-> 0]]
  /\ goal = [r \in Rank |-> [s \in SM |-> 0]]
  /\ slot = [r \in Rank |-> [c \in Rank \X Warp |-> 0]]

SmStep(r, s) ==
  \/ ReadCount(r, s) \/ Arrive(r, s) \/ EntryDone(r, s) \/ ExitDone(r, s)
  \/ s = 0 /\ (CombineEnter(r) \/ CombineCount(r) \/ CombinePass(r) \/ \E q \in Rank : CombineTell(r, q))
CombineRank(r) == CombineLaunch(r) \/ Reduced(r)
AllCombined == \A r \in Rank : call[r] = CALLS /\ place[r] = [w \in Warp |-> "idle"]
CombineStop == AllCombined /\ UNCHANGED combineVars
CombineNext ==
  \/ CombineStop
  \/ \E r \in Rank : CombineRank(r) \/ (\E s \in SM : SmStep(r, s)) \/ (\E w \in Warp : Store(r, w))
CombineSpec == CombineInit /\ [][CombineNext]_combineVars

(* The CTAs of kernel 1 are resident together and its warps all run.          *)
CombineFairSpec ==
  /\ CombineSpec
  /\ \A r \in Rank : /\ WF_combineVars(CombineRank(r))
                     /\ \A s \in SM : WF_combineVars(SmStep(r, s))
                     /\ \A w \in Warp : WF_combineVars(Store(r, w))
-----------------------------------------------------------------------------
(* Nobody stores into a rank before its reduction of the last call is over:   *)
(* while kernel 1 or the reduction of a call runs on a rank, its slots hold   *)
(* nothing of a later call, and when its stores begin all those of earlier    *)
(* calls have landed, however late the warp that made them.                  *)
Stored(r) ==
  {w \in Warp : place[r][w] \in {"grid_exit", "arrive_exit", "wait_exit", "nvlink_exit", "done"}}
SlotsOfOneCall ==
  \A r \in Rank : \A c \in Rank \X Warp :
     /\ slot[r][c] <= call[r]
     /\ Stored(r) # {} => slot[r][c] >= call[r] - 1

(* No SM is past a grid barrier that another SM of the rank has not reached. *)
PastEntry == {"send", "grid_exit", "arrive_exit", "wait_exit", "nvlink_exit", "done"}
BeforeEntry == {"nvlink", "grid", "arrive"}
GridHolds ==
  \A r \in Rank : \A s, t \in SM :
     /\ place[r][<<s, 0>>] \in PastEntry => place[r][<<t, 0>>] \notin BeforeEntry
     /\ place[r][<<s, 0>>] \in {"nvlink_exit", "done"} =>
          place[r][<<t, 0>>] \in {"wait_exit", "nvlink_exit", "done"}

(* "Block until kernel 1 finished and all peer data are visible", says the    *)
(* reduction: every slot is of this call when it runs.                       *)
PeerDataVisible ==
  \A r \in Rank : KernelDone(r) => \A c \in Rank \X Warp : slot[r][c] = call[r]

(* Every call ends on every rank.                                             *)
CombinesEnd == <>AllCombined
=============================================================================
