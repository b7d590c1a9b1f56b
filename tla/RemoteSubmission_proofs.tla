----------------------- MODULE RemoteSubmission_proofs -----------------------
(***************************************************************************)
(* A workload is timed a bounded number of times, a running request keeps    *)
(* its root, and the clients of a sweep are closed, for any number of        *)
(* threads and workloads, any retry policy and any age limits that leave a   *)
(* live root young. The argument: a workload is in the queue, with one       *)
(* thread, or done (Owned); what its thread may still make the server run,   *)
(* with what the server is about to run for nobody, never exceeds the        *)
(* connections that have broken (Spent).                                    *)
(***************************************************************************)
EXTENDS RemoteSubmission, WellFoundedInduction, TLAPS

Places == {"idle", "taken", "send", "wait"}
Modes == {"cpu", "gpu"}
Submissions == [place : Places, job : Job, mode : Modes, broken : Nat, busy : Nat]
Requests == [stage : {"none", "prepare", "run"}, job : Job, mode : Modes, age : Nat, root : BOOLEAN]
Types ==
  /\ queue \in SUBSET Job /\ rows \in SUBSET Job
  /\ thread \in [Thread -> Submissions] /\ server \in [Slot -> Requests]
  /\ ran \in [Job -> Nat]
  /\ main \in {"collect", "leaves", "raises"}
  /\ client \in [Thread -> {"none", "open", "closed"}]
  /\ registered \in SUBSET Thread /\ closing \in SUBSET Thread

(* A thread waits for exactly the request that is in its slot.               *)
Linked == \A t \in Thread :
  /\ thread[t].place = "wait" <=> server[t].stage # "none"
  /\ thread[t].place = "wait" => server[t].job = thread[t].job
  /\ thread[t].place # "idle" => thread[t].broken < TRANSPORT_ATTEMPTS
  /\ thread[t].place = "taken" => thread[t].broken = 0 /\ thread[t].mode = "cpu"

(* A workload is in the queue, or with one thread, or through.               *)
Owns(t, j) == thread[t].place # "idle" /\ thread[t].job = j
Owned ==
  /\ \A t \in Thread, j \in Job : Owns(t, j) => j \notin queue
  /\ \A t, u \in Thread, j \in Job : Owns(t, j) /\ Owns(u, j) => t = u
  /\ queue \cap rows = {}

(* Runs of a workload: those begun, and those a slot will begin; and what a   *)
(* submission has earned with the connections it lost.                      *)
Due(x, j) == IF server[x].stage = "prepare" /\ server[x].job = j THEN 1 ELSE 0
Begun(j) == ran[j] + Due(Lost, j)
Allowed(t) == thread[t].broken + (IF thread[t].mode = "gpu" THEN TRANSPORT_ATTEMPTS - 1 ELSE 0)
                               + (IF thread[t].place = "wait" THEN 1 ELSE 0)
Spent ==
  /\ \A j \in queue : Begun(j) = 0
  /\ \A j \in Job : Begun(j) < RUNS
  /\ \A t \in Thread, j \in Job : Owns(t, j) => Begun(j) + Due(t, j) <= Allowed(t)

Young == \A x \in Live : server[x].age <= LIMIT /\ server[x].root

Listed ==
  /\ \A t \in Thread : client[t] = "open" => t \in registered \cup closing
  /\ main = "collect" => closing = {}
  /\ main = "leaves" => Quiet /\ queue = {} /\ registered = {}

SweepInv == Types /\ Linked /\ Owned /\ Spent /\ Young /\ Listed

-----------------------------------------------------------------------------
LEMMA MinOfQueue ==
  ASSUME queue \in SUBSET Job, queue # {}
  PROVE  Min(queue) \in queue
<1>1. queue \subseteq Nat
  BY DEF Job
<1>2. \E j \in queue : \A i \in queue : <<i, j>> \notin OpToRel(<, Nat)
  BY <1>1, NatLessThanWellFounded, WFMin
<1>3. \A i, j \in Nat : i < j => <<i, j>> \in OpToRel(<, Nat)
  BY Zenon DEF OpToRel
<1>4. \A i, j \in Nat : ~(i < j) => j =< i
  BY SMT
<1>5. \E j \in queue : \A i \in queue : j =< i
  BY <1>1, <1>2, <1>3, <1>4
<1>. QED BY <1>5 DEF Min

LEMMA MinOfPair ==
  ASSUME NEW a \in Nat, NEW b \in Nat, a <= b
  PROVE  Min({a, b}) = a
BY SMT DEF Min

LEMMA Counts ==
  ASSUME Types, NEW i \in Job
  PROVE  /\ Begun(i) \in Nat
         /\ \A x \in Slot : Due(x, i) \in Nat
         /\ \A t \in Thread : Due(t, i) \in Nat /\ Allowed(t) \in Nat
BY CountAssumption, SMT DEF Types, Submissions, Begun, Due, Allowed

LEMMA SweepInit == Init => SweepInv
<1>. USE CountAssumption DEF Job, Slot, Idle, Submission, NoRequest
<1>. SUFFICES ASSUME Init PROVE SweepInv
  OBVIOUS
<1>1. Types
  BY SMT DEF Init, Types, Submissions, Requests, Places, Modes
<1>2. Linked /\ Owned /\ Young /\ Listed
  BY DEF Init, Linked, Owned, Owns, Young, Listed, Live
<1>3. Spent
  <2>1. \A t \in Thread, i \in Job : ~Owns(t, i)
    BY DEF Init, Owns
  <2>2. \A i \in Job : Begun(i) = 0
    BY SMT DEF Init, Begun, Due
  <2>. QED BY <2>1, <2>2, SMT DEF Init, Spent, RUNS
<1>. QED BY <1>1, <1>2, <1>3 DEF SweepInv

(* The steps that touch neither threads nor requests.                        *)
LEMMA StepMain ==
  ASSUME SweepInv, \/ \E t \in Thread : CloseOne(t)
                   \/ Collected \/ Interrupt
  PROVE  SweepInv'
<1>. USE DEF SweepInv, CloseOne, Collected, Interrupt, TakeList, QueueCancelled
<1>1. Types' /\ Linked' /\ Young'
  BY DEF Types, Linked, Young, Live
<1>2. Owned'
  BY DEF Owned, Owns
<1>3. Spent'
  <2>0. queue \in SUBSET Job
    BY DEF Types
  <2>1. \A i \in Job : Begun(i)' = Begun(i) /\ \A u \in Thread :
          (Owns(u, i)' <=> Owns(u, i)) /\ Due(u, i)' = Due(u, i) /\ Allowed(u)' = Allowed(u)
    BY DEF Owns, Begun, Due, Allowed
  <2>2. queue' \subseteq queue
    OBVIOUS
  <2>. QED BY ONLY <2>0, <2>1, <2>2, Spent DEF Spent
<1>4. Listed'
  BY DEF Types, Owned, Listed, Quiet
<1>. QED BY <1>1, <1>2, <1>3, <1>4

LEMMA StepTake ==
  ASSUME SweepInv, NEW t \in Thread, TakeWorkload(t)
  PROVE  SweepInv'
<1>. DEFINE j == Min(queue)
            r == Submission("taken", j, "cpu")
<1>1. j \in queue /\ j \in Job
  BY MinOfQueue DEF SweepInv, Types, TakeWorkload
<1>2. /\ r \in Submissions
      /\ r.place = "taken" /\ r.job = j /\ r.mode = "cpu" /\ r.broken = 0
  BY <1>1, SMT DEF Submission, Submissions, Places, Modes
<1>3. /\ thread' = [thread EXCEPT ![t] = r]
      /\ queue' = queue \ {j} /\ thread[t].place = "idle"
      /\ UNCHANGED <<rows, main, client, registered, closing, server, ran>>
  BY DEF TakeWorkload, pool
<1>. HIDE DEF j, r
<1>4. Types' /\ thread'[t] = r /\ \A u \in Thread : u # t => thread'[u] = thread[u]
  BY <1>1, <1>2, <1>3 DEF SweepInv, Types
<1>5. Linked'
  BY <1>2, <1>3, <1>4, CountAssumption, SMT DEF SweepInv, Linked
<1>6. \A u \in Thread, i \in Job :
        Owns(u, i)' <=> IF u = t THEN i = j ELSE Owns(u, i)
  BY <1>2, <1>4 DEF Owns
<1>7. Owned'
  BY <1>1, <1>3, <1>6 DEF SweepInv, Owned
<1>8. Spent'
  <2>1. \A i \in Job : Begun(i)' = Begun(i) /\ \A u \in Thread : Due(u, i)' = Due(u, i)
    BY <1>3 DEF Begun, Due
  <2>2. Due(t, j) = 0 /\ Begun(j) = 0
    BY <1>1, <1>3 DEF SweepInv, Linked, Spent, Due
  <2>3. Allowed(t)' = 0 /\ \A u \in Thread : u # t => Allowed(u)' = Allowed(u)
    BY <1>2, <1>4, SMT DEF Allowed
  <2>4. ASSUME NEW u \in Thread, NEW i \in Job, Owns(u, i)'
        PROVE  Begun(i)' + Due(u, i)' <= Allowed(u)'
    BY <1>1, <1>6, <2>1, <2>2, <2>3, <2>4 DEF SweepInv, Spent
  <2>. QED BY <1>3, <2>1, <2>4 DEF SweepInv, Types, Spent
<1>9. Young' /\ Listed'
  BY <1>1, <1>3 DEF SweepInv, Young, Live, Listed, Quiet
<1>. QED BY <1>4, <1>5, <1>7, <1>8, <1>9 DEF SweepInv

(* What one thread, or the request in one slot, does to its own workload.    *)
LEMMA WorkloadStep ==
  ASSUME SweepInv, Types', NEW t \in Thread, NEW j \in Job,
         \A u \in Thread : u # t => thread'[u] = thread[u],
         queue' = queue, rows' \subseteq rows \cup {j}, 
         \A i \in Job : i # j => Begun(i)' <= Begun(i),
         \A u \in Thread : u # t =>
           server'[u].stage = server[u].stage /\ server'[u].job = server[u].job,
         Owns(t, j), Begun(j)' < RUNS,
         thread'[t].place # "idle" =>
           /\ thread'[t].job = j /\ thread'[t].broken < TRANSPORT_ATTEMPTS
           /\ thread'[t].place # "taken"
           /\ Begun(j)' + Due(t, j)' <= Allowed(t)',
         thread'[t].place = "wait" <=> server'[t].stage # "none",
         thread'[t].place = "wait" => server'[t].job = j
  PROVE  Linked' /\ Owned' /\ Spent'
<1>1. \A u \in Thread, i \in Job : Owns(u, i)' => Owns(u, i)
  BY DEF Owns
<1>2. Linked'
  BY DEF SweepInv, Linked
<1>3. Owned'
  BY <1>1 DEF SweepInv, Owned
<1>4. \A i \in Job : Begun(i)' \in Nat /\ Begun(i) \in Nat
  BY SMT DEF SweepInv, Types, Begun, Due
<1>6. \A i \in queue' : Begun(i)' = 0
  BY <1>4, SMT DEF SweepInv, Types, Owned, Spent
<1>7. \A i \in Job : Begun(i)' < RUNS
  BY <1>4, CountAssumption, SMT DEF SweepInv, Spent, RUNS
<1>8. ASSUME NEW u \in Thread, NEW i \in Job, Owns(u, i)'
      PROVE  Begun(i)' + Due(u, i)' <= Allowed(u)'
  <2>1. CASE u = t
    BY <1>8, <2>1 DEF Owns
  <2>2. CASE u # t
    <3>1. Owns(u, i) /\ i # j
      BY <1>1, <1>8, <2>2 DEF SweepInv, Owned
    <3>2. Begun(i) + Due(u, i) <= Allowed(u)
      BY <3>1 DEF SweepInv, Spent
    <3>3. Begun(i)' <= Begun(i) /\ Due(u, i)' = Due(u, i) /\ Allowed(u)' = Allowed(u)
      BY <3>1, <2>2 DEF Due, Allowed
    <3>4. Due(u, i) \in Nat /\ Allowed(u) \in Int
      BY CountAssumption, SMT DEF SweepInv, Types, Submissions, Due, Allowed
    <3>. QED BY <1>4, <3>2, <3>3, <3>4, SMT
  <2>. QED BY <2>1, <2>2
<1>. QED BY <1>2, <1>3, <1>6, <1>7, <1>8 DEF Spent
LEMMA SentAgain ==
  ASSUME NEW b \in Submissions, NEW q, q = [b EXCEPT !.place = "send"]
  PROVE  /\ q \in Submissions /\ q.place = "send"
         /\ q.job = b.job /\ q.mode = b.mode /\ q.broken = b.broken
<1>1. q.place = "send" /\ q.job = b.job /\ q.mode = b.mode /\ q.broken = b.broken
  BY SMT DEF Submissions
<1>2. q \in Submissions
  BY SMT DEF Submissions, Places
<1>. QED BY <1>1, <1>2

LEMMA Retried ==
  ASSUME NEW r \in Submissions, NEW q, q = [Broken(r) EXCEPT !.place = "send"]
  PROVE  /\ q \in Submissions /\ q.place = "send" /\ q.job = r.job /\ q.mode = r.mode
         /\ q.broken = r.broken + 1 /\ Broken(r).broken = r.broken + 1
<1>1. PICK b : b = Broken(r)
  OBVIOUS
<1>2. b \in Submissions /\ b.job = r.job /\ b.mode = r.mode /\ b.broken = r.broken + 1
  BY <1>1, SMT DEF Broken, Submissions
<1>3. q = [b EXCEPT !.place = "send"]
  BY <1>1
<1>. QED BY <1>1, <1>2, <1>3, SentAgain

LEMMA RootGone ==
  ASSUME NEW r \in Requests, NEW q, q = [r EXCEPT !.root = FALSE]
  PROVE  q \in Requests /\ q.stage = r.stage /\ q.job = r.job
<1>1. q.stage = r.stage /\ q.job = r.job
  BY DEF Requests
<1>2. q \in Requests
  BY Zenon DEF Requests
<1>. QED BY <1>1, <1>2

LEMMA RowGiven ==
  ASSUME Types, NEW t \in Thread, GiveRow(t)
  PROVE  /\ thread' \in [Thread -> Submissions] /\ thread'[t].place = "idle"
         /\ \A u \in Thread : u # t => thread'[u] = thread[u]
         /\ rows' \in SUBSET Job /\ rows' = rows \cup {thread[t].job}
<1>1. Idle \in Submissions /\ Idle.place = "idle"
  BY CountAssumption, SMT DEF Idle, Submission, Submissions, Places, Modes, Job
<1>2. thread[t].job \in Job
  BY DEF Types, Submissions
<1>. QED BY <1>1, <1>2 DEF Types, GiveRow

(* A thread moves on with its own workload, and no request changes.          *)
LEMMA StepAlone ==
  ASSUME SweepInv, NEW t \in Thread, NEW j \in Job, UNCHANGED <<queue, server, ran>>,
         \A u \in Thread : u # t => thread'[u] = thread[u],
         Types', rows' \subseteq rows \cup {j}, thread[t].job = j,
         thread[t].place \in {"taken", "send"},
         \/ thread'[t].place = "idle"
         \/ /\ thread'[t].place = "send" /\ thread'[t].job = j
            /\ thread'[t].mode = thread[t].mode
            /\ thread'[t].broken \in {thread[t].broken, thread[t].broken + 1}
            /\ thread'[t].broken < TRANSPORT_ATTEMPTS
  PROVE  Linked' /\ Owned' /\ Spent' /\ Young'
<1>1. Owns(t, j)
  BY SMT DEF SweepInv, Types, Submissions, Owns
<1>2. \A i \in Job : Begun(i)' = Begun(i) /\ \A x : Due(x, i)' = Due(x, i)
  BY DEF Due, Begun
<1>3. /\ Begun(j) < RUNS /\ Begun(j) + Due(t, j) <= Allowed(t)
      /\ Begun(j) \in Nat /\ Due(t, j) \in Nat
  BY <1>1, Counts DEF SweepInv, Spent
<1>4. thread'[t].place # "idle" => Begun(j)' + Due(t, j)' <= Allowed(t)'
  BY <1>1, <1>2, <1>3, CountAssumption, SMT DEF SweepInv, Types, Submissions, Allowed, Slot
<1>5. server[t].stage = "none"
  BY SMT DEF SweepInv, Linked, Types, Slot, Requests
<1>6. Linked' /\ Owned' /\ Spent'
  <2>1. \A i \in Job : i # j => Begun(i)' <= Begun(i)
    BY <1>2, Counts, SMT DEF SweepInv
  <2>2. Begun(j)' < RUNS
    BY <1>1, <1>2, <1>3
  <2>4. \A u \in Thread : u # t =>
          server'[u].stage = server[u].stage /\ server'[u].job = server[u].job
    OBVIOUS
  <2>3. server'[t].stage = "none" /\ queue' = queue
    BY <1>5
  <2>. QED BY <1>1, <1>4, <2>1, <2>2, <2>3, <2>4, WorkloadStep
<1>7. Young'
  BY DEF SweepInv, Young, Live
<1>. QED BY <1>6, <1>7
LEMMA ListedKept ==
  ASSUME Listed, UNCHANGED <<main, client, registered, closing>>, queue' = queue,
         main # "leaves" \/ thread' = thread
  PROVE  Listed'
BY DEF Listed, Quiet

LEMMA StepGetClient ==
  ASSUME SweepInv, NEW t \in Thread, GetClient(t)
  PROVE  SweepInv'
<1>. PICK j \in Job : thread[t].job = j
  BY DEF SweepInv, Types, Submissions
<1>1. /\ thread[t].place = "taken"
      /\ thread' = [thread EXCEPT ![t].place = "send"]
      /\ client' \in [Thread -> {"none", "open", "closed"}] /\ registered' \in SUBSET Thread
      /\ \A u \in Thread : client'[u] = "open" => client[u] = "open" \/ u \in registered'
      /\ registered \subseteq registered'
      /\ UNCHANGED <<queue, rows, main, closing, server, ran>>
  BY DEF SweepInv, Types, GetClient, Registered
<1>2. /\ thread' \in [Thread -> Submissions]
      /\ \A u \in Thread : u # t => thread'[u] = thread[u]
      /\ thread'[t].place = "send" /\ thread'[t].job = j /\ thread'[t].mode = thread[t].mode
      /\ thread'[t].broken = thread[t].broken
  BY <1>1, SMT DEF SweepInv, Types, Submissions, Places
<1>3. Types'
  BY <1>1, <1>2 DEF SweepInv, Types
<1>4. thread'[t].broken < TRANSPORT_ATTEMPTS
  BY <1>1, <1>2 DEF SweepInv, Linked
<1>5. Linked' /\ Owned' /\ Spent' /\ Young'
  BY <1>1, <1>2, <1>3, <1>4, StepAlone
<1>6. Listed'
  BY <1>1 DEF SweepInv, Listed, Quiet
<1>. QED BY <1>3, <1>5, <1>6 DEF SweepInv

(* A round that asks nothing of the server: it is busy, refuses, or the       *)
(* connection or the client is gone before the request is out.               *)
LEMMA StepUnsent ==
  ASSUME SweepInv, NEW t \in Thread, thread[t].place = "send",
         \/ Saturated(t) \/ Refused(t)
         \/ ClientRaises(t) \/ TransportError(t)
  PROVE  SweepInv'
<1>. PICK j \in Job : thread[t].job = j
  BY DEF SweepInv, Types, Submissions
<1>1. /\ UNCHANGED <<queue, main, client, registered, closing, server, ran>>
      /\ main # "leaves"
  <2>1. CASE Saturated(t) \/ Refused(t)
    BY <2>1 DEF SweepInv, Listed, Quiet, Saturated, Refused, CanSend, pool
  <2>2. CASE ClientRaises(t)
    BY <2>2 DEF SweepInv, Listed, Quiet, ClientRaises, pool
  <2>3. CASE TransportError(t)
    BY <2>3 DEF SweepInv, Listed, Quiet, TransportError, pool
  <2>. QED BY <2>1, <2>2, <2>3
<1>2. /\ thread' \in [Thread -> Submissions]
      /\ \A u \in Thread : u # t => thread'[u] = thread[u]
      /\ rows' \in SUBSET Job /\ rows' \subseteq rows \cup {j}
      /\ \/ thread'[t].place = "idle"
         \/ /\ thread'[t].place = "send" /\ thread'[t].job = j
            /\ thread'[t].mode = thread[t].mode
            /\ thread'[t].broken \in {thread[t].broken, thread[t].broken + 1}
            /\ thread'[t].broken < TRANSPORT_ATTEMPTS
  <2>1. CASE GiveRow(t)
    BY <2>1, RowGiven DEF SweepInv
  <2>2. CASE Saturated(t)
    <3>1. thread' = [thread EXCEPT ![t].busy = @ + 1] /\ rows' = rows
      BY <2>2 DEF Saturated
    <3>2. thread[t].broken < TRANSPORT_ATTEMPTS
      BY DEF SweepInv, Linked
    <3>3. thread' \in [Thread -> Submissions]
      BY <3>1, SMT DEF SweepInv, Types, Submissions
    <3>. QED BY <3>1, <3>2, <3>3, SMT DEF SweepInv, Types, Submissions
  <2>3. CASE TransportError(t) /\ ~GiveRow(t)
    <3>. DEFINE q == [Broken(thread[t]) EXCEPT !.place = "send"]
    <3>1. /\ thread' = [thread EXCEPT ![t] = q] /\ rows' = rows
          /\ Broken(thread[t]).broken < TRANSPORT_ATTEMPTS
      BY <2>3, Zenon DEF TransportError, MayRetry
    <3>2. thread[t] \in Submissions
      BY DEF SweepInv, Types
    <3>3. /\ q \in Submissions /\ q.job = j /\ q.mode = thread[t].mode
          /\ q.broken = thread[t].broken + 1 /\ q.place = "send" /\ q.broken < TRANSPORT_ATTEMPTS
      BY <3>1, <3>2, Retried
    <3>. HIDE DEF q
    <3>. QED BY <3>1, <3>3 DEF SweepInv, Types
  <2>. QED BY <2>1, <2>2, <2>3, Zenon DEF Refused, ClientRaises
<1>3. Types'
  BY <1>1, <1>2 DEF SweepInv, Types
<1>4. Linked' /\ Owned' /\ Spent' /\ Young'
  BY <1>1, <1>2, <1>3, StepAlone
<1>5. Listed'
  BY <1>1, ListedKept DEF SweepInv
<1>. QED BY <1>3, <1>4, <1>5 DEF SweepInv
(* The server accepts: nobody's root is taken, for all are young.            *)
LEMMA StepAccepted ==
  ASSUME SweepInv, NEW t \in Thread, Accepted(t)
  PROVE  SweepInv'
<1>. PICK j \in Job : thread[t].job = j
  BY DEF SweepInv, Types, Submissions
<1>0. t \in Slot /\ t # Lost /\ Lost \in Slot
  BY LostAssumption DEF Slot
<1>1. /\ thread[t].place = "send" /\ client[t] = "open"
      /\ thread' = [thread EXCEPT ![t].place = "wait"]
      /\ UNCHANGED <<queue, rows, main, client, registered, closing, ran>>
  BY DEF Accepted, CanSend, pool
<1>2. /\ thread' \in [Thread -> Submissions]
      /\ \A u \in Thread : u # t => thread'[u] = thread[u]
      /\ thread'[t].place = "wait" /\ thread'[t].job = j /\ thread'[t].mode = thread[t].mode
      /\ thread'[t].broken = thread[t].broken
  BY <1>1, SMT DEF SweepInv, Types, Submissions, Places
<1>3. /\ thread[t].mode \in Modes /\ thread[t].broken \in Nat
      /\ thread[t].broken < TRANSPORT_ATTEMPTS
  BY <1>1 DEF SweepInv, Types, Submissions, Linked
<1>4. /\ server'[t] \in Requests /\ server'[t].stage = "prepare" /\ server'[t].job = j
      /\ server'[t].age = 0 /\ server'[t].root
  <2>1. server'[t] = [stage |-> "prepare", job |-> j, mode |-> thread[t].mode,
                      age |-> 0, root |-> TRUE]
    BY <1>0 DEF Accepted, Prepares
  <2>. QED BY <1>3, <2>1, SMT DEF Requests
<1>5. ASSUME NEW x \in Slot, x # t
      PROVE  /\ server'[x] \in Requests
             /\ server'[x].stage = server[x].stage /\ server'[x].job = server[x].job
             /\ server[x].stage # "none" => server'[x] = server[x]
  <2>1. server'[x] = Swept(server[x]) /\ server[x] \in Requests
    BY <1>5 DEF Accepted, Prepares, SweepInv, Types
  <2>2. CASE Stale(server[x].age)
    <3>. DEFINE q == [server[x] EXCEPT !.root = FALSE]
    <3>1. server'[x] = q
      BY <2>1, <2>2 DEF Swept
    <3>2. server[x].stage = "none"
      BY <2>1, <2>2, AgeAssumption, SMT DEF Stale, Requests, SweepInv, Young, Live
    <3>3. q \in Requests /\ q.stage = server[x].stage /\ q.job = server[x].job
      BY <2>1, RootGone
    <3>. HIDE DEF q
    <3>. QED BY <3>1, <3>2, <3>3
  <2>3. CASE ~Stale(server[x].age)
    BY <2>1, <2>3 DEF Swept
  <2>. QED BY <2>2, <2>3
<1>6. Types'
  <2>1. server' \in [Slot -> Requests]
    <3>1. \A x \in Slot : server'[x] \in Requests
      BY <1>4, <1>5
    <3>. QED BY <3>1, Zenon DEF Accepted, Prepares
  <2>. QED BY <1>1, <1>2, <2>1 DEF SweepInv, Types
<1>7. Linked' /\ Owned' /\ Spent'
  <2>1. \A i \in Job : Due(Lost, i)' = Due(Lost, i) /\ Begun(i)' = Begun(i)
    BY <1>0, <1>1, <1>5 DEF Due, Begun
  <2>2. Owns(t, j) /\ Due(t, j) = 0 /\ Due(t, j)' = 1 /\ Allowed(t)' = Allowed(t) + 1
    <3>1. server[t].stage = "none"
      BY <1>1 DEF SweepInv, Linked, Types, Requests
    <3>2. Owns(t, j) /\ Due(t, j) = 0 /\ Due(t, j)' = 1
      BY <1>1, <1>4, <3>1 DEF Owns, Due
    <3>. QED BY <1>1, <1>2, <1>3, <3>2, CountAssumption, SMT DEF Allowed
  <2>3. Begun(j) < RUNS /\ Begun(j) + Due(t, j) <= Allowed(t) /\ Begun(j) \in Nat /\ Allowed(t) \in Nat
    BY <2>2, Counts DEF SweepInv, Spent
  <2>4. Begun(j)' + Due(t, j)' <= Allowed(t)' /\ Begun(j)' < RUNS
    BY <2>1, <2>2, <2>3, SMT
  <2>5. \A i \in Job : i # j => Begun(i)' <= Begun(i)
    BY <2>1, Counts, SMT DEF SweepInv
  <2>6. \A u \in Thread : u # t =>
          server'[u].stage = server[u].stage /\ server'[u].job = server[u].job
    BY <1>5 DEF Slot
  <2>. QED BY <1>1, <1>2, <1>3, <1>4, <1>6, <2>2, <2>4, <2>5, <2>6, WorkloadStep
<1>8. Young'
  BY <1>4, <1>5, AgeAssumption, SMT DEF SweepInv, Young, Live
<1>9. Listed'
  <2>1. main # "leaves"
    BY <1>1 DEF SweepInv, Listed, Quiet
  <2>. QED BY <1>1, <2>1, ListedKept DEF SweepInv
<1>. QED BY <1>6, <1>7, <1>8, <1>9 DEF SweepInv

(* The connection of a request that is out is gone: the server goes on with  *)
(* it in the slot Lost, and the run it may still begin has been paid for.    *)
LEMMA StepDetached ==
  ASSUME SweepInv, NEW t \in Thread, thread[t].place = "wait",
         ClientRaises(t) \/ TransportError(t)
  PROVE  SweepInv'
<1>. PICK j \in Job : thread[t].job = j
  BY DEF SweepInv, Types, Submissions
<1>0. t \in Slot /\ t # Lost /\ Lost \in Slot
  BY LostAssumption DEF Slot
<1>1. /\ server[Lost].stage = "none"
      /\ server' = [server EXCEPT ![Lost] = server[t], ![t] = NoRequest]
      /\ UNCHANGED <<queue, main, client, registered, closing, ran>>
  BY DEF ClientRaises, TransportError, Detached, CanSend, pool
<1>2. /\ server' \in [Slot -> Requests] /\ server'[Lost] = server[t] /\ server'[t].stage = "none"
      /\ \A x \in Slot : x \notin {t, Lost} => server'[x] = server[x]
  <2>1. NoRequest \in Requests /\ NoRequest.stage = "none"
    BY CountAssumption, SMT DEF NoRequest, Requests, Modes, Job
  <2>. QED BY <1>0, <1>1, <2>1 DEF SweepInv, Types
<1>3. /\ thread' \in [Thread -> Submissions]
      /\ \A u \in Thread : u # t => thread'[u] = thread[u]
      /\ rows' \in SUBSET Job /\ rows' \subseteq rows \cup {j}
      /\ \/ thread'[t].place = "idle"
         \/ /\ thread'[t].place = "send" /\ thread'[t].job = j
            /\ thread'[t].mode = thread[t].mode
            /\ thread'[t].broken = thread[t].broken + 1
            /\ thread'[t].broken < TRANSPORT_ATTEMPTS
  <2>1. CASE GiveRow(t)
    BY <2>1, RowGiven DEF SweepInv
  <2>2. CASE TransportError(t) /\ ~GiveRow(t)
    <3>. DEFINE q == [Broken(thread[t]) EXCEPT !.place = "send"]
    <3>1. /\ thread' = [thread EXCEPT ![t] = q] /\ rows' = rows
          /\ Broken(thread[t]).broken < TRANSPORT_ATTEMPTS
      BY <2>2, Zenon DEF TransportError, MayRetry
    <3>2. thread[t] \in Submissions
      BY DEF SweepInv, Types
    <3>3. /\ q \in Submissions /\ q.job = j /\ q.mode = thread[t].mode
          /\ q.broken = thread[t].broken + 1 /\ q.place = "send" /\ q.broken < TRANSPORT_ATTEMPTS
      BY <3>1, <3>2, Retried
    <3>. HIDE DEF q
    <3>. QED BY <3>1, <3>3 DEF SweepInv, Types
  <2>. QED BY <2>1, <2>2, Zenon DEF ClientRaises
<1>4. Types'
  BY <1>1, <1>2, <1>3 DEF SweepInv, Types
<1>5. Linked' /\ Owned' /\ Spent'
  <2>1. Owns(t, j) /\ server[t].job = j /\ thread[t].mode \in Modes /\ thread[t].broken \in Nat
        /\ thread[t].broken < TRANSPORT_ATTEMPTS
    BY DEF Owns, SweepInv, Linked, Types, Submissions
  <2>2. \A i \in Job : /\ Due(Lost, i)' = Due(t, i) /\ Due(Lost, i) = 0 /\ Due(t, i)' = 0
                       /\ i # j => Due(t, i) = 0
    BY <1>1, <1>2, <2>1 DEF Due
  <2>3. \A i \in Job : Begun(i)' = Begun(i) + Due(t, i)
    <3>1. \A i \in Job : ran[i] \in Nat /\ ran'[i] = ran[i]
      BY <1>1 DEF SweepInv, Types
    <3>2. \A i \in Job : Due(t, i) \in Nat
      BY DEF Due
    <3>. QED BY <2>2, <3>1, <3>2, SMT DEF Begun
  <2>4. Begun(j) + Due(t, j) <= Allowed(t) /\ \A i \in Job : Begun(i) \in Nat /\ Due(t, i) \in Nat
    BY <2>1, Counts DEF SweepInv, Spent
  <2>5. Allowed(t) \in Nat /\ Allowed(t) < RUNS
    BY <2>1, CountAssumption, SMT DEF Allowed, RUNS
  <2>6. thread'[t].place = "send" => Allowed(t)' = Allowed(t)
    BY <1>3, <2>1, CountAssumption, SMT DEF Allowed
  <2>7. Begun(j)' < RUNS /\ (thread'[t].place = "send" => Begun(j)' + Due(t, j)' <= Allowed(t)')
    BY <2>2, <2>3, <2>4, <2>5, <2>6, CountAssumption, SMT DEF RUNS
  <2>8. \A i \in Job : i # j => Begun(i)' <= Begun(i)
    BY <2>2, <2>3, <2>4, SMT
  <2>9. \A u \in Thread : u # t =>
          server'[u].stage = server[u].stage /\ server'[u].job = server[u].job
    BY <1>2, LostAssumption DEF Slot
  <2>. QED BY <1>1, <1>2, <1>3, <1>4, <2>1, <2>7, <2>8, <2>9, WorkloadStep
<1>6. Young'
  BY <1>0, <1>2 DEF SweepInv, Young, Live, Linked
<1>7. Listed'
  <2>1. main # "leaves"
    BY DEF SweepInv, Listed, Quiet
  <2>. QED BY <1>1, <2>1, ListedKept DEF SweepInv
<1>. QED BY <1>4, <1>5, <1>6, <1>7 DEF SweepInv
(* A request of thread t ends with an answer; a prepare that failed off the   *)
(* lease has begun no run, so the submission that repeats it starts with at   *)
(* most the connections lost so far, one less than its attempts.             *)
LEMMA StepAnswered ==
  ASSUME SweepInv, NEW t \in Thread, server[t].stage # "none",
         PrepareFails(t) \/ EndRun(t) \/ Killed(t)
  PROVE  SweepInv'
<1>. PICK j \in Job : thread[t].job = j
  BY DEF SweepInv, Types, Submissions
<1>0. t \in Slot /\ t # Lost /\ Lost \in Slot
  BY LostAssumption DEF Slot
<1>1. /\ server' = [server EXCEPT ![t] = NoRequest]
      /\ UNCHANGED <<queue, main, client, registered, closing, ran>>
      /\ \/ GiveRow(t)
         \/ /\ thread' = [thread EXCEPT ![t] = Fallback(@)] /\ UNCHANGED rows
            /\ thread[t].mode = "cpu" /\ server[t].stage = "prepare"
  BY <1>0 DEF PrepareFails, EndRun, Killed, Ends, Answer, pool
<1>2. /\ server' \in [Slot -> Requests] /\ server'[t].stage = "none"
      /\ \A x \in Slot : x # t => server'[x] = server[x]
  <2>1. NoRequest \in Requests /\ NoRequest.stage = "none"
    BY CountAssumption, SMT DEF NoRequest, Requests, Modes, Job
  <2>. QED BY <1>0, <1>1, <2>1 DEF SweepInv, Types
<1>3. /\ thread' \in [Thread -> Submissions]
      /\ \A u \in Thread : u # t => thread'[u] = thread[u]
      /\ rows' \in SUBSET Job /\ rows' \subseteq rows \cup {j}
      /\ \/ thread'[t].place = "idle"
         \/ /\ thread'[t].place = "send" /\ thread'[t].job = j
            /\ thread'[t].mode = "gpu" /\ thread'[t].broken = 0
            /\ thread[t].mode = "cpu" /\ server[t].stage = "prepare"
  <2>1. CASE GiveRow(t)
    BY <2>1, RowGiven DEF SweepInv
  <2>2. CASE ~GiveRow(t)
    <3>1. /\ Fallback(thread[t]) \in Submissions
          /\ Fallback(thread[t]).place = "send" /\ Fallback(thread[t]).job = j
          /\ Fallback(thread[t]).mode = "gpu" /\ Fallback(thread[t]).broken = 0
      BY SMT DEF Fallback, Submission, Submissions, Places, Modes
    <3>. QED BY <1>1, <2>2, <3>1 DEF SweepInv, Types
  <2>. QED BY <2>1, <2>2
<1>4. Types'
  BY <1>1, <1>2, <1>3 DEF SweepInv, Types
<1>5. thread[t].place = "wait" /\ server[t].job = j
  BY DEF SweepInv, Linked
<1>6. Linked' /\ Owned' /\ Spent'
  <2>1. Owns(t, j) /\ thread[t].broken \in Nat /\ thread[t].broken < TRANSPORT_ATTEMPTS
    BY <1>5 DEF Owns, SweepInv, Linked, Types, Submissions
  <2>2. \A i \in Job : Begun(i)' = Begun(i) /\ Due(t, i)' = 0
    BY <1>0, <1>1, <1>2 DEF Begun, Due
  <2>3. /\ Begun(j) + Due(t, j) <= Allowed(t) /\ Begun(j) < RUNS
        /\ Begun(j) \in Nat /\ Due(t, j) \in Nat
    BY <2>1, Counts DEF SweepInv, Spent
  <2>4. thread'[t].place # "idle" => Begun(j)' + Due(t, j)' <= Allowed(t)'
    <3>. SUFFICES ASSUME thread'[t].place # "idle" PROVE Begun(j)' + Due(t, j)' <= Allowed(t)'
      OBVIOUS
    <3>1. Due(t, j) = 1 /\ Allowed(t) = thread[t].broken + 1
      BY <1>3, <1>5, <2>1, SMT DEF Due, Allowed
    <3>2. Allowed(t)' = TRANSPORT_ATTEMPTS - 1
      BY <1>3, CountAssumption, SMT DEF Allowed
    <3>. QED BY <2>1, <2>2, <2>3, <3>1, <3>2, CountAssumption, SMT
  <2>5. Begun(j)' < RUNS /\ \A i \in Job : i # j => Begun(i)' <= Begun(i)
    BY <2>2, <2>3, Counts, SMT DEF SweepInv
  <2>6. \A u \in Thread : u # t =>
          server'[u].stage = server[u].stage /\ server'[u].job = server[u].job
    BY <1>2 DEF Slot
  <2>7. thread'[t].place # "idle" => thread'[t].broken < TRANSPORT_ATTEMPTS
    BY <1>3, CountAssumption, SMT
  <2>. QED BY <1>1, <1>2, <1>3, <1>4, <2>1, <2>4, <2>5, <2>6, <2>7, WorkloadStep
<1>7. Young'
  BY <1>0, <1>2 DEF SweepInv, Young, Live
<1>8. Listed'
  <2>1. main # "leaves"
    BY <1>5 DEF SweepInv, Listed, Quiet
  <2>. QED BY <1>1, <2>1, ListedKept DEF SweepInv
<1>. QED BY <1>4, <1>6, <1>7, <1>8 DEF SweepInv

(* A request begins its run: what was due is begun.                          *)
LEMMA StepBeginRun ==
  ASSUME SweepInv, NEW x \in Slot, BeginRun(x)
  PROVE  SweepInv'
<1>. PICK j \in Job : server[x].job = j
  BY DEF SweepInv, Types, Requests
<1>0. Lost \in Slot /\ \A t \in Thread : t \in Slot /\ t # Lost
  BY LostAssumption DEF Slot
<1>1. /\ server[x].stage = "prepare" /\ server' = [server EXCEPT ![x].stage = "run"]
      /\ UNCHANGED <<queue, thread, rows, main, client, registered, closing>>
  BY DEF BeginRun, pool
<1>2. /\ server' \in [Slot -> Requests] /\ server'[x].stage = "run"
      /\ \A y \in Slot : y # x => server'[y] = server[y]
      /\ \A y \in Slot : /\ server'[y].job = server[y].job /\ server'[y].age = server[y].age
                         /\ server'[y].root = server[y].root
  BY <1>1, SMT DEF SweepInv, Types, Requests
<1>3. x # Lost => x \in Thread /\ Owns(x, j)
  BY <1>1 DEF Slot, Owns, SweepInv, Linked
<1>4. Due(x, j) = 1 /\ Due(x, j)' = 0
  BY <1>1, <1>2 DEF Due
<1>5. \A i \in Job, y \in Slot : y # x \/ i # j => Due(y, i)' = Due(y, i)
  BY <1>1, <1>2 DEF Due
<1>6. \A i \in Job : ran[i] \in Nat /\ \A y : Due(y, i) \in Nat
  BY DEF SweepInv, Types, Due
<1>7. ran[j] < RUNS
  <2>1. Begun(j) < RUNS
    BY DEF SweepInv, Spent
  <2>. QED BY <2>1, <1>6, CountAssumption, SMT DEF Begun, RUNS
<1>8. ran' = [ran EXCEPT ![j] = @ + 1]
  <2>1. Min({ran[j] + 1, RUNS}) = ran[j] + 1
    BY <1>6, <1>7, MinOfPair, CountAssumption, SMT DEF RUNS
  <2>. QED BY <2>1 DEF BeginRun
<1>9. \A i \in Job : ran'[i] \in Nat /\ ran'[i] = ran[i] + (IF i = j THEN 1 ELSE 0)
  BY <1>6, <1>8 DEF SweepInv, Types
<1>10. Types'
  BY <1>1, <1>2, <1>8, <1>9 DEF SweepInv, Types
<1>11. Linked' /\ Owned'
  BY <1>0, <1>1, <1>2 DEF SweepInv, Linked, Owned, Owns
<1>12. Spent'
  <2>1. \A i \in Job : Begun(i)' = Begun(i) + (IF i = j /\ x # Lost THEN 1 ELSE 0)
    BY <1>0, <1>4, <1>5, <1>6, <1>9, SMT DEF Begun
  <2>2. \A i \in Job, t \in Thread : Owns(t, i) => /\ Begun(i)' + Due(t, i)' <= Begun(i) + Due(t, i)
                                                 /\ Owns(t, i)' /\ Allowed(t)' = Allowed(t)
    <3>. SUFFICES ASSUME NEW i \in Job, NEW t \in Thread, Owns(t, i)
                  PROVE  /\ Begun(i)' + Due(t, i)' <= Begun(i) + Due(t, i)
                         /\ Owns(t, i)' /\ Allowed(t)' = Allowed(t)
      OBVIOUS
    <3>1. i = j /\ x # Lost => t = x
      BY <1>3 DEF SweepInv, Owned
    <3>2. Begun(i) \in Nat
      BY Counts DEF SweepInv
    <3>. QED BY <1>0, <1>1, <1>4, <1>5, <1>6, <2>1, <3>1, <3>2, SMT DEF Owns, Allowed
  <2>3. \A t \in Thread, i \in Job : Owns(t, i)' => Owns(t, i)
    BY <1>1 DEF Owns
  <2>4. \A t \in Thread : thread[t].place # "idle" => Allowed(t) < RUNS /\ Allowed(t) \in Nat
    BY CountAssumption, SMT DEF SweepInv, Types, Submissions, Modes, Linked, Allowed, RUNS
  <2>5. \A i \in Job : Begun(i)' < RUNS
    <3>1. CASE x = Lost
      BY <2>1, <3>1, Counts, SMT DEF SweepInv, Spent
    <3>2. CASE x # Lost
      <4>1. Begun(j)' <= Allowed(x) /\ Allowed(x) < RUNS /\ Begun(j)' \in Nat /\ Allowed(x) \in Nat
        <5>1. Begun(j) + Due(x, j) <= Allowed(x)
          BY <1>3, <3>2 DEF SweepInv, Spent
        <5>2. Begun(j) \in Nat
          BY Counts DEF SweepInv
        <5>3. Allowed(x) < RUNS /\ Allowed(x) \in Nat
          BY <1>3, <2>4, <3>2 DEF Owns
        <5>. QED BY <1>4, <2>1, <3>2, <5>1, <5>2, <5>3, SMT
      <4>2. \A i \in Job : i # j => Begun(i)' = Begun(i)
        BY <2>1, Counts, SMT DEF SweepInv
      <4>. QED BY <4>1, <4>2, CountAssumption, SMT DEF SweepInv, Spent, RUNS
    <3>. QED BY <3>1, <3>2
  <2>6. \A i \in queue : Begun(i)' = 0
    BY <1>3, <2>1, Counts, SMT DEF SweepInv, Types, Owned, Spent
  <2>7. ASSUME NEW t \in Thread, NEW i \in Job, Owns(t, i)'
        PROVE  Begun(i)' + Due(t, i)' <= Allowed(t)'
    <3>1. /\ Owns(t, i) /\ Begun(i)' + Due(t, i)' <= Begun(i) + Due(t, i)
          /\ Allowed(t)' = Allowed(t) /\ Begun(i) + Due(t, i) <= Allowed(t)
      BY <2>2, <2>3, <2>7 DEF SweepInv, Spent
    <3>2. Begun(i)' \in Nat /\ Due(t, i)' \in Nat /\ Begun(i) \in Nat /\ Due(t, i) \in Nat /\ Allowed(t) \in Nat
      BY <1>0, <1>10, Counts DEF SweepInv, Begun, Due, Types
    <3>. QED BY <3>1, <3>2, SMT
  <2>. QED BY <1>1, <2>5, <2>6, <2>7 DEF Spent
<1>13. Young'
  BY <1>1, <1>2 DEF SweepInv, Young, Live
<1>14. Listed'
  BY <1>1, ListedKept DEF SweepInv
<1>. QED BY <1>10, <1>11, <1>12, <1>13, <1>14 DEF SweepInv
(* Time passes, or a request nobody waits for ends.                          *)
LEMMA StepServer ==
  ASSUME SweepInv, Tick \/ PrepareFails(Lost) \/ EndRun(Lost) \/ Killed(Lost)
  PROVE  SweepInv'
<1>0. Lost \in Slot /\ \A t \in Thread : t \in Slot /\ t # Lost
  BY LostAssumption DEF Slot
<1>1. UNCHANGED <<queue, thread, rows, main, client, registered, closing, ran>>
  BY DEF Tick, PrepareFails, EndRun, Killed, Ends, pool
<1>2. /\ server' \in [Slot -> Requests]
      /\ \A x \in Slot : \/ /\ server'[x].stage = server[x].stage /\ server'[x].job = server[x].job
                            /\ server'[x].root = server[x].root
                            /\ server[x].stage # "none" => server'[x].age <= LIMIT
                         \/ x = Lost /\ server'[x].stage = "none"
  <2>1. CASE Tick
    <3>1. ASSUME NEW x \in Slot
          PROVE  /\ server'[x] \in Requests /\ server'[x].stage = server[x].stage
                 /\ server'[x].job = server[x].job /\ server'[x].root = server[x].root
                 /\ server[x].stage # "none" => server'[x].age <= LIMIT
      <4>1. server[x] \in Requests
        BY DEF SweepInv, Types
      <4>2. CASE server[x].stage # "none"
        <5>1. server'[x] = [server[x] EXCEPT !.age = @ + 1] /\ server[x].age < LIMIT
          BY <2>1, <4>2 DEF Tick, Live
        <5>. QED BY <4>1, <5>1, AgeAssumption, SMT DEF Requests
      <4>3. CASE server[x].stage = "none"
        BY <2>1, <4>1, <4>3 DEF Tick, Live
      <4>. QED BY <4>2, <4>3
    <3>2. server' \in [Slot -> Requests]
      BY <2>1, <3>1, Zenon DEF Tick
    <3>. QED BY <3>1, <3>2
  <2>2. CASE server' = [server EXCEPT ![Lost] = NoRequest]
    <3>1. NoRequest \in Requests /\ NoRequest.stage = "none"
      BY CountAssumption, SMT DEF NoRequest, Requests, Modes, Job
    <3>. QED BY <1>0, <2>2, <3>1 DEF SweepInv, Types, Young, Live
  <2>. QED BY <2>1, <2>2 DEF PrepareFails, EndRun, Killed, Ends
<1>3. Types' /\ Linked' /\ Owned'
  BY <1>0, <1>1, <1>2 DEF SweepInv, Types, Linked, Owned, Owns
<1>4. Spent'
  <2>1. \A i \in Job : /\ Due(Lost, i)' <= Due(Lost, i)
                       /\ \A t \in Thread : Due(t, i)' = Due(t, i)
    BY <1>0, <1>2 DEF Due
  <2>2. \A i \in Job : Begun(i)' \in Nat /\ Begun(i) \in Nat /\ Begun(i)' <= Begun(i)
    <3>1. \A i \in Job : ran[i] \in Nat /\ Due(Lost, i) \in Nat /\ Due(Lost, i)' \in Nat
      BY DEF SweepInv, Types, Due
    <3>. QED BY <1>1, <2>1, <3>1, SMT DEF Begun
  <2>3. \A i \in Job : Begun(i)' < RUNS
    BY <2>2, CountAssumption, SMT DEF SweepInv, Spent, RUNS
  <2>4. \A i \in queue : Begun(i)' = 0
    BY <2>2, SMT DEF SweepInv, Types, Spent
  <2>5. ASSUME NEW t \in Thread, NEW i \in Job, Owns(t, i)'
        PROVE  Begun(i)' + Due(t, i)' <= Allowed(t)'
    <3>1. Owns(t, i) /\ Allowed(t)' = Allowed(t)
      BY <1>1, <2>5 DEF Owns, Allowed
    <3>2. Begun(i) + Due(t, i) <= Allowed(t) /\ Due(t, i) \in Nat /\ Allowed(t) \in Nat
      BY <3>1, Counts DEF SweepInv, Spent
    <3>. QED BY <2>1, <2>2, <3>1, <3>2, SMT
  <2>. QED BY <1>1, <2>3, <2>4, <2>5 DEF Spent
<1>5. Young'
  BY <1>2 DEF SweepInv, Young, Live
<1>6. Listed'
  BY <1>1, ListedKept DEF SweepInv
<1>. QED BY <1>3, <1>4, <1>5, <1>6 DEF SweepInv

LEMMA SweepStep == SweepInv /\ [Next]_vars => SweepInv'
<1>. SUFFICES ASSUME SweepInv, [Next]_vars PROVE SweepInv'
  OBVIOUS
<1>1. ASSUME NEW t \in Thread, Submits(t) PROVE SweepInv'
  <2>1. CASE TakeWorkload(t) \/ GetClient(t) \/ Accepted(t)
    BY <2>1, StepTake, StepGetClient, StepAccepted
  <2>2. CASE Saturated(t) \/ Refused(t)
    BY <2>2, StepUnsent DEF Saturated, Refused, CanSend
  <2>3. CASE ClientRaises(t) \/ TransportError(t)
    <3>1. thread[t].place \in {"send", "wait"}
      BY <2>3 DEF ClientRaises, TransportError, CanSend
    <3>. QED BY <2>3, <3>1, StepUnsent, StepDetached
  <2>. QED BY <1>1, <2>1, <2>2, <2>3 DEF Submits
<1>2. ASSUME NEW x \in Slot, Works(x) PROVE SweepInv'
  <2>1. CASE BeginRun(x)
    BY <2>1, StepBeginRun
  <2>2. CASE PrepareFails(x) \/ EndRun(x) \/ Killed(x)
    <3>1. server[x].stage # "none"
      BY <2>2 DEF PrepareFails, EndRun, Killed
    <3>2. x \in Thread \/ x = Lost
      BY DEF Slot
    <3>. QED BY <2>2, <3>1, <3>2, StepAnswered, StepServer
  <2>. QED BY <1>2, <2>1, <2>2 DEF Works
<1>3. CASE UNCHANGED vars
  <2>1. UNCHANGED <<queue, thread, rows, main, client, registered, closing, server, ran>>
    BY <1>3 DEF vars, pool
  <2>. QED BY <2>1
     DEF SweepInv, Types, Linked, Owned, Owns, Spent, Begun, Due, Allowed, Young, Live, Listed, Quiet
<1>. QED BY <1>1, <1>2, <1>3, StepMain, StepServer DEF Next, Stop

LEMMA SweepInvariant == Spec => []SweepInv
BY SweepInit, SweepStep, PTL DEF Spec

(* A workload is timed less than 2 * transport_attempts times, whatever breaks *)
(* between its client and the server (execute_with_retry, submit_workload).  *)
THEOREM TimedBoundedly == Spec => []RunsBounded
<1>1. SweepInv => RunsBounded
  <2>. SUFFICES ASSUME SweepInv, NEW j \in Job PROVE ran[j] < 2 * TRANSPORT_ATTEMPTS
    BY DEF RunsBounded
  <2>1. Begun(j) < RUNS /\ ran[j] \in Nat /\ Due(Lost, j) \in Nat
    BY DEF SweepInv, Types, Spent, Due
  <2>. QED BY <2>1, CountAssumption, SMT DEF Begun, RUNS
<1>. QED BY <1>1, SweepInvariant, PTL

(* The sweep of stale roots by one request never takes the root of another   *)
(* that is still running (_sweep_stale_roots of the worker shim).            *)
THEOREM RootsKept == Spec => []LiveRootsKept
<1>1. SweepInv => LiveRootsKept
  BY DEF SweepInv, Young, LiveRootsKept
<1>. QED BY <1>1, SweepInvariant, PTL

(* close() leaves no client open, but for one that a thread registered after  *)
(* an interrupt had taken the list (RemotePool.close).                       *)
THEOREM EveryClientClosed == Spec => []ClientsClosed
<1>1. SweepInv => ClientsClosed
  BY DEF SweepInv, Types, Listed, ClientsClosed
<1>. QED BY <1>1, SweepInvariant, PTL
=============================================================================
