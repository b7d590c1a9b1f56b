--------------------------- MODULE BroadcastCells ---------------------------
(***************************************************************************)
(* What a hand-over between the warps of a cluster promises: a writer puts  *)
(* an item in a cell, every reader takes that item exactly once, nobody     *)
(* changes it meanwhile, and only then is the next item put in that cell.   *)
(***************************************************************************)
CONSTANTS Items, NoItem
VARIABLES
  Readers,      \* per cell: who takes its items, once and for all
  item, taken   \* per cell: what is in it, and who took that

Init == item = [x \in DOMAIN Readers |-> NoItem] /\ taken = Readers

Put(x) ==
  /\ taken[x] = Readers[x]
  /\ taken' = [taken EXCEPT ![x] = {}]
  /\ item' = [item EXCEPT ![x] = item'[x]] /\ item'[x] \in Items

Take(x, r) ==
  /\ r \notin taken[x]
  /\ taken' = [taken EXCEPT ![x] = @ \cup {r}]
  /\ item' = IF taken'[x] = Readers[x] THEN [item EXCEPT ![x] = NoItem] ELSE item

Next == taken' # taken /\ \E x \in DOMAIN Readers : Put(x) \/ \E r \in Readers[x] : Take(x, r)
Spec == Init /\ [][Next /\ UNCHANGED Readers]_<<Readers, item, taken>>
=============================================================================
