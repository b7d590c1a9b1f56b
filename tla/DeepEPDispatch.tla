--------------------------- MODULE DeepEPDispatch ---------------------------
(***************************************************************************)
(* The dispatch of src/tirx_kernels/ported/deepep/dispatch.py on all ranks: *)
(* each rank sends every token to the ranks of its experts. Inside kernel 1 *)
(* the notify warps add up and exchange how many tokens go where, while the *)
(* dispatch warps take slots in the receivers' regions and copy the tokens; *)
(* a barrier of the ranks opens and closes the kernel. Kernel 2 then copies *)
(* as many tokens out of each region as the counts say.                     *)
(*                                                                         *)
(* A token is copied as <<call, token>>. A count travels as -count - 1, so  *)
(* that a zeroed word means none came yet.                                  *)
(***************************************************************************)
EXTENDS DeepEPCalls, Functions

CONSTANTS
  NUM_TOKENS,     \* tokens of every rank; token i belongs to SM i % NUM_SMS
  Routes          \* the routings: which ranks each token goes to

Token == 0 .. NUM_TOKENS - 1
ASSUME DispatchAssumption ==
  NUM_SMS \in Nat \ {0} /\ NUM_TOKENS \in Nat /\ Routes \subseteq [Token -> SUBSET Rank]

VARIABLES
  route,       \* per rank and call: where its tokens go (an input)
  at,          \* per rank: the stage of its set-up or of its kernels
  added,       \* per rank: the SMs whose counts are in the reduction
  reduction,   \* per rank: the counts added up so far, and how many SMs added
  notify,      \* per rank: the place of SM 0's notify warps
  total,       \* per rank: what they read and publish
  published,   \* per rank: the peers told, then those still to hear from
  inbox,       \* per rank: COUNT_RECV, one word per peer
  psum,        \* per rank: the counts the second kernel goes by
  sender,      \* per rank: the next slot in the region of each peer
  sent,        \* per rank: the tokens whose slots are taken
  flying,      \* per rank: copies not landed: <<token, peer, slot>>
  region       \* per rank, per peer: the token in each slot

setup == <<route, call, at>>
counts == <<added, reduction, notify, total, published, inbox, psum>>
copies == <<sender, sent, flying, region>>
vars == <<barrierVars, setup, counts, copies>>

PerRank(v) == [r \in Rank |-> v]
Nothing == [sms |-> 0, count |-> PerRank(0)]
Goto(r, p) == at' = [at EXCEPT ![r] = p]

(* The tokens of rank r's current call that go to rank q, all or one SM's.    *)
For(r, q) == {t \in Token : q \in route[r][call[r]][t]}
OfSm(r, q, s) == {t \in For(r, q) : t % NUM_SMS = s}

(* SymmetricWindow: the ranks register their windows together, then each      *)
(* clears its workspace.                                                     *)
Memset(r) ==
  /\ at[r] = "clear"
  /\ counter' = [counter EXCEPT ![r] = 0]
  /\ signal' = [signal EXCEPT ![r] = [p \in 0 .. 1 |-> 0]]
  /\ reduction' = [reduction EXCEPT ![r] = Nothing]
  /\ inbox' = [inbox EXCEPT ![r] = PerRank(0)]
  /\ Goto(r, "gate")
  /\ UNCHANGED <<spot, told, route, call, added, notify, total, published, psum, copies>>

(* ASSUMED of code outside this repository: the ranks are brought together    *)
(* once, after all have cleared and before the first of them launches. When  *)
(* there are many calls that is bench(), which is handed the barrier of the  *)
(* ranks (bench_context); the one call of a test comes after the reference's *)
(* own dispatch on the same stream. Nothing is assumed between the calls.    *)
AllCleared(r) == \A q \in Rank : at[q] # "clear"
Gate(r) ==
  /\ at[r] = "gate" /\ AllCleared(r)
  /\ Goto(r, "idle")
  /\ UNCHANGED <<barrierVars, route, call, counts, copies>>

(* Kernel 1: SM 0 resets the sender counters, then meets the other ranks.     *)
ResetSenders(r) == [sender EXCEPT ![r] = PerRank(0)]
Launch(r) ==
  /\ at[r] = "idle" /\ call[r] < CALLS
  /\ call' = [call EXCEPT ![r] = @ + 1]
  /\ Goto(r, "entry")
  /\ sender' = ResetSenders(r)
  /\ added' = [added EXCEPT ![r] = {}] /\ notify' = [notify EXCEPT ![r] = "add"]
  /\ published' = [published EXCEPT ![r] = {}] /\ sent' = [sent EXCEPT ![r] = {}]
  /\ UNCHANGED <<barrierVars, route, reduction, total, inbox, psum, flying, region>>

NvlinkEnter(r) == Begin(r) /\ at[r] \in {"entry", "exit"} /\ UNCHANGED <<setup, counts, copies>>
NvlinkTell(r, q) == Tell(r, q) /\ UNCHANGED <<setup, counts, copies>>
NvlinkCount(r) == CountUp(r) /\ UNCHANGED <<setup, counts, copies>>
NvlinkPass(r) ==
  /\ Pass(r)
  /\ Goto(r, IF at[r] = "entry" THEN "body" ELSE "copy")
  /\ UNCHANGED <<route, call, counts, copies>>

(* Notify: every SM adds its counts; SM 0 waits for all of them.              *)
NotifyAdd(r, s) ==
  /\ at[r] = "body" /\ s \notin added[r]
  /\ added' = [added EXCEPT ![r] = @ \cup {s}]
  /\ reduction' = [reduction EXCEPT ![r] =
       [sms |-> @.sms + 1,
        count |-> [q \in Rank |-> @.count[q] + Cardinality(OfSm(r, q, s))]]]
  /\ UNCHANGED <<barrierVars, setup, notify, total, published, inbox, psum, copies>>

OneMissing(r) == reduction[r].sms = NUM_SMS - 1
AllAdded(r) == reduction[r].sms = NUM_SMS
NotifyTake(r) ==
  /\ at[r] = "body" /\ notify[r] = "add" /\ AllAdded(r)
  /\ total' = [total EXCEPT ![r] = reduction[r].count]
  /\ reduction' = [reduction EXCEPT ![r] = Nothing]
  /\ notify' = [notify EXCEPT ![r] = "publish"]
  /\ UNCHANGED <<barrierVars, setup, added, published, inbox, psum, copies>>

EncodedPlain(n) == -n
Encoded(n) == -n - 1
Publish(r, q) ==
  /\ notify[r] = "publish" /\ q \notin published[r]
  /\ inbox' = [inbox EXCEPT ![q][r] = Encoded(total[r][q])]
  /\ published' = [published EXCEPT ![r] = @ \cup {q}]
  /\ notify' = [notify EXCEPT ![r] = IF published'[r] = Rank THEN "collect" ELSE @]
  /\ UNCHANGED <<barrierVars, setup, added, reduction, total, psum, copies>>

(* A word is read until it decodes to a count, then cleared for the next call.*)
Decoded(n) == -n - 1
CollectCount(r, q) ==
  /\ notify[r] = "collect" /\ q \in published[r]
  /\ Decoded(inbox[r][q]) >= 0
  /\ psum' = [psum EXCEPT ![r][q] = Decoded(inbox[r][q])]
  /\ inbox' = [inbox EXCEPT ![r][q] = 0]
  /\ published' = [published EXCEPT ![r] = @ \ {q}]
  /\ notify' = [notify EXCEPT ![r] = IF published'[r] = {} THEN "done" ELSE @]
  /\ UNCHANGED <<barrierVars, setup, added, reduction, total, copies>>

(* Dispatch: a warp takes a slot at every receiver of its token and starts    *)
(* the copies; they land when they like.                                     *)
Send(r, t) ==
  LET to == route[r][call[r]][t]
  IN /\ at[r] = "body" /\ t \notin sent[r]
     /\ sender' = [sender EXCEPT ![r] = [q \in Rank |-> @[q] + IF q \in to THEN 1 ELSE 0]]
     /\ flying' = [flying EXCEPT ![r] = @ \cup {<<t, q, sender[r][q]>> : q \in to}]
     /\ sent' = [sent EXCEPT ![r] = @ \cup {t}]
     /\ UNCHANGED <<barrierVars, setup, counts, region>>

Land(r) ==
  /\ \E c \in flying[r] :
        /\ flying' = [flying EXCEPT ![r] = @ \ {c}]
        /\ region' = [region EXCEPT ![c[2]][r][c[3]] = <<call[r], c[1]>>]
  /\ UNCHANGED <<barrierVars, setup, counts, sender, sent>>

(* wait_group(0) and the grid sync, before the barrier that ends the kernel.  *)
Unflushed(r) == notify[r] = "done" /\ added[r] = SM /\ sent[r] = Token
GridDone(r) == notify[r] = "done" /\ added[r] = SM /\ sent[r] = Token /\ flying[r] = {}
EndBody(r) ==
  /\ at[r] = "body" /\ GridDone(r)
  /\ Goto(r, "exit")
  /\ UNCHANGED <<barrierVars, route, call, counts, copies>>

(* Kernel 2, and the end of the call.                                         *)
CopyOut(r) ==
  /\ at[r] = "copy"
  /\ Goto(r, "idle")
  /\ UNCHANGED <<barrierVars, route, call, counts, copies>>

(* Fresh memory holds anything until it is cleared.                           *)
Junk == 1
Init ==
  /\ counter = PerRank(Junk) /\ signal = PerRank([p \in 0 .. 1 |-> Junk])
  /\ spot = PerRank("out") /\ told = PerRank({})
  /\ route \in [Rank -> [1 .. CALLS -> Routes]] /\ call = PerRank(0) /\ at = PerRank("clear")
  /\ added = PerRank({}) /\ notify = PerRank("done") /\ published = PerRank({})
  /\ reduction = PerRank([sms |-> Junk, count |-> PerRank(Junk)])
  /\ total = PerRank(PerRank(0)) /\ psum = PerRank(PerRank(0))
  /\ inbox = PerRank(PerRank(Junk))
  /\ sender = PerRank(PerRank(Junk)) /\ sent = PerRank({}) /\ flying = PerRank({})
  /\ region = PerRank(PerRank([i \in Token |-> <<0, i>>]))

RankNext(r) ==
  \/ Memset(r) \/ Gate(r) \/ Launch(r) \/ NvlinkEnter(r) \/ NvlinkCount(r) \/ NvlinkPass(r)
  \/ NotifyTake(r) \/ Land(r) \/ EndBody(r) \/ CopyOut(r)
  \/ \E q \in Rank : NvlinkTell(r, q) \/ Publish(r, q) \/ CollectCount(r, q)
  \/ (\E s \in SM : NotifyAdd(r, s)) \/ (\E t \in Token : Send(r, t))
AllIdle == \A r \in Rank : at[r] = "idle" /\ call[r] = CALLS
Stop == AllIdle /\ UNCHANGED vars
Next == Stop \/ \E r \in Rank : RankNext(r)
Spec == Init /\ [][Next]_vars

(* Every step of a rank leaves all the others it has to make: one condition   *)
(* on the rank is enough for its warps, its copies and its stream to go on.  *)
FairSpec == Spec /\ \A r \in Rank : WF_vars(RankNext(r))
-----------------------------------------------------------------------------

(* While kernel 2 reads, the counts are those of this call, and so are the    *)
(* tokens in the slots counted: each of them once, though the sender may be   *)
(* far into its next call.                                                   *)
Due(q, r, n) == {t \in Token : r \in route[q][n][t]}
ReceivedExactly ==
  \A r, q \in Rank : at[r] = "copy" =>
     /\ psum[r][q] = Cardinality(Due(q, r, call[r]))
     /\ {region[r][q][i] : i \in 0 .. psum[r][q] - 1} = {<<call[r], t>> : t \in Due(q, r, call[r])}

(* Between its kernels a rank's words are at rest: no peer has begun to count *)
(* into the call it has not launched.                                        *)
AtRest ==
  \A r \in Rank : at[r] \in {"idle", "copy"} =>
     reduction[r] = Nothing /\ inbox[r] = PerRank(0) /\ flying[r] = {}

(* Every call ends on every rank.                                             *)
CallsEnd == <>AllIdle
=============================================================================
