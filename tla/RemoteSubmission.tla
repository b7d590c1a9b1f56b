-------------------------- MODULE RemoteSubmission --------------------------
(***************************************************************************)
(* The sweep of src/tirx_kernels/bench_suite/remote.py: worker threads send *)
(* workloads to a benchmark server, with retries and one fallback; the main *)
(* thread collects the rows, and an interrupt cancels what is queued and    *)
(* closes the clients. Every request runs _remote_shim.py in a process of   *)
(* its own, whose extraction root is in a directory shared by all.          *)
(*                                                                         *)
(* The server is external: it may refuse a request, kill one that is old,   *)
(* and go on with one whose connection broke (the slot Lost).               *)
(***************************************************************************)
EXTENDS Integers, FiniteSetsExt

CONSTANTS
  Thread,              \* the max_in_flight workers of the pool
  Lost,                \* bound: one request at a time outlives its connection
  WORKLOADS,           \* how many there are
  TRANSPORT_ATTEMPTS,  \* RetryPolicy.transport_attempts
  BUSY,                \* bound: 503s before the deadline of one submission
  LIMIT,               \* age at which the server kills a request
  STALE_ROOT_AGE       \* age at which a root counts as dead

ASSUME LostAssumption == Lost \notin Thread
ASSUME CountAssumption == {WORKLOADS, TRANSPORT_ATTEMPTS} \subseteq Nat \ {0} /\ BUSY \in Nat
ASSUME AgeAssumption == LIMIT \in Nat /\ STALE_ROOT_AGE \in Nat /\ LIMIT < STALE_ROOT_AGE

Job == 1 .. WORKLOADS
Slot == Thread \cup {Lost}
RUNS == 2 * TRANSPORT_ATTEMPTS        \* bound: runs counted of one workload

VARIABLES
  queue,      \* the workloads no thread has taken
  thread,     \* per thread: its place, its workload, and the mode and the
              \*   retries of the submission it is in
  rows,       \* the workloads with a row
  main,       \* what the main thread does: collects, or leaves, or raises
  client,     \* per thread: its client
  registered, \* the threads whose clients are in the pool's list
  closing,    \* the clients that close() took off that list
  server,     \* per slot: the request there, and the age of its root
  ran         \* per workload: how often the server has timed it

pool == <<main, client, registered, closing>>
vars == <<queue, thread, rows, pool, server, ran>>

Submission(place, job, mode) ==
  [place |-> place, job |-> job, mode |-> mode, broken |-> 0, busy |-> 0]
Idle == Submission("idle", 1, "cpu")
NoRequest == [stage |-> "none", job |-> 1, mode |-> "cpu", age |-> 0, root |-> FALSE]

GiveRow(t) == /\ rows' = rows \cup {thread[t].job}
              /\ thread' = [thread EXCEPT ![t] = Idle]

-----------------------------------------------------------------------------
(* A thread of the pool takes the next workload, then a client if it has     *)
(* none yet.                                                                 *)
TakeWorkload(t) ==
  /\ thread[t].place = "idle" /\ queue # {}
  /\ thread' = [thread EXCEPT ![t] = Submission("taken", Min(queue), "cpu")]
  /\ queue' = queue \ {Min(queue)}
  /\ UNCHANGED <<rows, pool, server, ran>>

FirstOnly(t) == IF registered = {} THEN {t} ELSE registered
Registered(t) == registered \cup {t}
GetClient(t) ==
  /\ thread[t].place = "taken"
  /\ IF client[t] = "none"
     THEN client' = [client EXCEPT ![t] = "open"] /\ registered' = Registered(t)
     ELSE UNCHANGED <<client, registered>>
  /\ thread' = [thread EXCEPT ![t].place = "send"]
  /\ UNCHANGED <<queue, rows, main, closing, server, ran>>

(* The worker process of a request first sweeps the roots that are too old,  *)
(* whoever made them, then makes its own.                                    *)
StaleAtLimit(age) == age >= LIMIT
Stale(age) == age >= STALE_ROOT_AGE
Swept(q) == IF Stale(q.age) THEN [q EXCEPT !.root = FALSE] ELSE q
Prepares(t) ==
  server' = [x \in Slot |-> IF x # t THEN Swept(server[x])
                            ELSE [stage |-> "prepare", job |-> thread[t].job, mode |-> thread[t].mode,
                                  age |-> 0, root |-> TRUE]]

(* One round of execute_with_retry.                                          *)
CanSend(t) == thread[t].place = "send" /\ client[t] = "open"
Accepted(t) ==
  /\ CanSend(t) /\ Prepares(t)
  /\ thread' = [thread EXCEPT ![t].place = "wait"]
  /\ UNCHANGED <<queue, rows, pool, ran>>

Saturated(t) ==
  /\ CanSend(t) /\ thread[t].busy < BUSY
  /\ thread' = [thread EXCEPT ![t].busy = @ + 1]
  /\ UNCHANGED <<queue, rows, pool, server, ran>>

(* A 503 after the deadline, another error of the server, a malformed answer. *)
Refused(t) ==
  /\ CanSend(t) /\ GiveRow(t)
  /\ UNCHANGED <<queue, pool, server, ran>>

(* A closed client raises what the loop does not handle: the guard around    *)
(* the workload makes a row of it, and a request that is out is left alone.  *)
Detached(t) == /\ server[Lost].stage = "none"
               /\ server' = [server EXCEPT ![Lost] = server[t], ![t] = NoRequest]
ClientRaises(t) ==
  /\ thread[t].place \in {"send", "wait"} /\ client[t] = "closed"
  /\ GiveRow(t)
  /\ IF thread[t].place = "wait" THEN Detached(t) ELSE UNCHANGED server
  /\ UNCHANGED <<queue, pool, ran>>

(* A TransportError, before the server has the request or while it is out.   *)
Uncounted(r) == r
ForgottenWhenBusy(r) == [r EXCEPT !.broken = IF r.busy > 0 THEN 1 ELSE @ + 1]
Broken(r) == [r EXCEPT !.broken = @ + 1]
MayRetry(r) == r.broken < TRANSPORT_ATTEMPTS
TransportError(t) ==
  LET r == Broken(thread[t]) IN
  /\ \/ CanSend(t) /\ UNCHANGED server
     \/ thread[t].place = "wait" /\ Detached(t)
  /\ IF MayRetry(r)
     THEN thread' = [thread EXCEPT ![t] = [r EXCEPT !.place = "send"]] /\ UNCHANGED rows
     ELSE GiveRow(t)
  /\ UNCHANGED <<queue, pool, ran>>

(* submit_workload: a prepare that failed off the lease is repeated on it,   *)
(* once, as a submission with retries of its own.                            *)
Fallback(r) == Submission("send", r.job, "gpu")
Answer(t, status) ==
  IF status = "prepare" /\ thread[t].mode = "cpu"
  THEN thread' = [thread EXCEPT ![t] = Fallback(@)] /\ UNCHANGED rows
  ELSE GiveRow(t)

-----------------------------------------------------------------------------
(* A request ends, with an answer if somebody waits for one. What is left of *)
(* its root when the guard rejects it or the server kills it, nobody reads.  *)
Ends(x, status) ==
  /\ server' = [server EXCEPT ![x] = NoRequest]
  /\ IF x = Lost THEN UNCHANGED <<thread, rows>> ELSE Answer(x, status)
  /\ UNCHANGED <<queue, pool, ran>>

PrepareFails(x) == server[x].stage = "prepare" /\ Ends(x, "prepare")

BeginRun(x) ==
  /\ server[x].stage = "prepare"
  /\ server' = [server EXCEPT ![x].stage = "run"]
  /\ ran' = [ran EXCEPT ![server[x].job] = Min({@ + 1, RUNS})]
  /\ UNCHANGED <<queue, thread, rows, pool>>

EndRun(x) == server[x].stage = "run" /\ Ends(x, "run")
Killed(x) == server[x].stage # "none" /\ Ends(x, "timeout")

(* Time passes for every root; no request lives past its limit.              *)
Live == {x \in Slot : server[x].stage # "none"}
Tick ==
  /\ \A x \in Live : server[x].age < LIMIT
  /\ server' = [x \in Slot |-> IF x \in Live THEN [server[x] EXCEPT !.age = @ + 1] ELSE server[x]]
  /\ UNCHANGED <<queue, thread, rows, pool, ran>>

-----------------------------------------------------------------------------
(* The main thread: rows as they come, shutdown of the pool, and close, which *)
(* takes the list under the lock and closes one client after the other.      *)
Quiet == \A t \in Thread : thread[t].place = "idle"
TakeList(after) == /\ main' = after
                   /\ closing' = registered /\ registered' = {}
Collected ==
  /\ main = "collect" /\ rows = Job /\ Quiet /\ TakeList("leaves")
  /\ UNCHANGED <<queue, thread, rows, client, server, ran>>

QueueCancelled == {}
Interrupt ==
  /\ main = "collect" /\ TakeList("raises")
  /\ queue' = QueueCancelled
  /\ UNCHANGED <<thread, rows, client, server, ran>>

CloseOne(t) ==
  /\ t \in closing
  /\ client' = [client EXCEPT ![t] = "closed"] /\ closing' = closing \ {t}
  /\ UNCHANGED <<queue, thread, rows, main, registered, server, ran>>

Init ==
  /\ queue = Job /\ thread = [t \in Thread |-> Idle] /\ rows = {}
  /\ main = "collect" /\ client = [t \in Thread |-> "none"] /\ registered = {} /\ closing = {}
  /\ server = [x \in Slot |-> NoRequest] /\ ran = [j \in Job |-> 0]

Submits(t) ==
  \/ TakeWorkload(t) \/ GetClient(t) \/ Accepted(t) \/ Saturated(t) \/ Refused(t)
  \/ ClientRaises(t) \/ TransportError(t)
Works(x) == PrepareFails(x) \/ BeginRun(x) \/ EndRun(x) \/ Killed(x)
Over == main # "collect" /\ closing = {} /\ Quiet
Stop == Over /\ UNCHANGED vars
Next ==
  \/ \E t \in Thread : Submits(t) \/ CloseOne(t)
  \/ \E x \in Slot : Works(x)
  \/ Tick \/ Collected \/ Interrupt \/ Stop

Spec == Init /\ [][Next]_vars

(* As long as a thread, the server or the clock can go on, one of them does. *)
FairSpec == Spec /\ WF_vars(Next)
-----------------------------------------------------------------------------
(* A workload is timed at most 2 * transport_attempts - 1 times, whatever    *)
(* breaks: only a lost connection makes the client repeat what ran, and a    *)
(* submission that fell back has lost one less than its attempts.            *)
RunsBounded == \A j \in Job : ran[j] < 2 * TRANSPORT_ATTEMPTS

(* The sweep of one request never takes the root of another that still runs, *)
(* with or without a client to wait for it.                                  *)
LiveRootsKept == \A x \in Live : server[x].root

(* When the main thread is through, every client is closed; after an         *)
(* interrupt one can be open, if its thread made it when the list was taken. *)
ClientsClosed ==
  main # "collect" /\ closing = {} =>
    \A t \in Thread : client[t] = "open" => main = "raises" /\ t \in registered

(* The sweep ends and its threads with it, interrupted or not.               *)
SweepEnds == <>Over
=============================================================================
