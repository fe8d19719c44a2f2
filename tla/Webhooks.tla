------------------------------ MODULE Webhooks ------------------------------
(***************************************************************************)
(* Webhook deliveries (app/modules/integrations, integration_tasks.py).    *)
(*                                                                         *)
(* The event handler commits one webhook_deliveries row per subscribed     *)
(* endpoint and then dispatches a Celery message for it.  The message is   *)
(* acknowledged when its task ends, by an exception too, so only a worker  *)
(* that dies gives it back.                                                *)
(* A failed attempt leaves the row "retrying" with a next_retry_at, and a  *)
(* sweep every minute attempts the rows that are due.  A worker reads the  *)
(* row without a lock, takes the row lock when it flushes "delivering",    *)
(* and holds it over the POST until it commits.                            *)
(***************************************************************************)
EXTENDS Integers, FiniteSets

CONSTANTS
  Deliveries,    \* webhook_deliveries rows that may be created
  Workers,       \* Celery worker slots and request handlers
  Backoffs,      \* Len(RETRY_SCHEDULE)
  MaxCrashes,    \* bound: worker deaths and failed transactions
  MaxManual,     \* bound: manual retries
  NULL           \* SQL NULL

ASSUME BackoffsAssumption == Backoffs \in Nat
ASSUME BoundsAssumption == MaxCrashes \in Nat /\ MaxManual \in Nat
ASSUME NullAssumption == NULL \notin Deliveries /\ NULL \notin {"waiting", "due"}

VARIABLES
  row,          \* committed rows
  dispatching,  \* rows whose handler has committed but not yet dispatched them
  queue,        \* unacknowledged messages of each row that no worker holds
  worker,       \* what each worker is doing
  lost,         \* rows whose message never reached the broker, or went with a task that raised (history)
  budget        \* crashes, failed transactions and manual retries so far

vars == <<row, dispatching, queue, worker, lost, budget>>

MaxAttempts == Backoffs + 1
Terminal == {"delivered", "failed"}
Statuses == {"none", "pending", "retrying", "gone"} \cup Terminal

\* due: next_retry_at is NULL, in the future ("waiting") or has passed ("due").
Row == [status : Statuses, attempts : 0 .. MaxAttempts, due : {NULL, "waiting", "due"}]

NoRow == [status |-> "none", attempts |-> 0, due |-> NULL]

Idle == [kind |-> "none", pc |-> "idle", d |-> NULL, todo |-> {}, seen |-> NoRow,
         locked |-> FALSE, ok |-> FALSE]

WorkerType ==
  [kind : {"none", "task", "sweep", "manual"}, pc : {"idle", "next", "read", "flush", "post", "commit", "ack"},
   d : Deliveries \cup {NULL}, todo : SUBSET Deliveries, seen : Row, locked : BOOLEAN, ok : BOOLEAN]

Exists(d) == row[d].status \notin {"none", "gone"}
Locked(d) == \E w \in Workers : worker[w].d = d /\ worker[w].locked
Spend(k) == budget' = [budget EXCEPT ![k] = @ + 1]

Set(w, val) == worker' = [worker EXCEPT ![w] = val]

\* Where a worker goes once it is done with a row: a sweep takes its next one, a
\* task has its message acknowledged.
Finished(w) ==
  CASE worker[w].kind = "sweep" -> [Idle EXCEPT !.kind = "sweep", !.pc = "next", !.todo = worker[w].todo]
    [] worker[w].kind = "task" -> [Idle EXCEPT !.kind = "task", !.pc = "ack", !.d = worker[w].d]
    [] OTHER -> Idle

-----------------------------------------------------------------------------
(* The producer side *)

\* The event handler, in a session of its own: it commits the row whatever
\* becomes of the transaction that published the event.
FanOut(d) ==
  /\ row[d].status = "none"
  /\ row' = [row EXCEPT ![d].status = "pending"]
  /\ dispatching' = dispatching \cup {d}
  /\ UNCHANGED <<queue, worker, lost, budget>>

Dispatch(d) ==
  /\ d \in dispatching
  /\ dispatching' = dispatching \ {d}
  /\ queue' = [queue EXCEPT ![d] = @ + 1]
  /\ UNCHANGED <<row, worker, lost, budget>>

\* The broker is unreachable, or the process ends between commit and dispatch.
DispatchLost(d) ==
  /\ d \in dispatching
  /\ dispatching' = dispatching \ {d}
  /\ lost' = lost \cup {d}
  /\ UNCHANGED <<row, queue, worker, budget>>

\* Deleting an endpoint cascades to its deliveries and waits for their locks.
DeleteEndpoint(d) ==
  /\ Exists(d) /\ ~Locked(d)
  /\ row' = [row EXCEPT ![d] = [NoRow EXCEPT !.status = "gone"]]
  /\ UNCHANGED <<dispatching, queue, worker, lost, budget>>

-----------------------------------------------------------------------------
(* The outcome of an attempt *)

\* Mutant: the comparison of attempts with the schedule is off by one.
NextRetryAt_OneMore(attempts) == IF attempts < 1 \/ attempts > Backoffs + 1 THEN NULL ELSE "waiting"

NextRetryAt(attempts) == IF attempts < 1 \/ attempts > Backoffs THEN NULL ELSE "waiting"

Attempts(w) == (IF worker[w].kind = "manual" THEN 0 ELSE worker[w].seen.attempts) + 1

\* The ORM writes the columns whose value differs from the one it loaded: a
\* next_retry_at that was NULL and is NULL again is left as the row has it.
Outcome(r, seen, attempts, ok) ==
  LET due == IF ok THEN NULL ELSE NextRetryAt(attempts) IN
  [ status   |-> IF ok THEN "delivered" ELSE IF due = NULL THEN "failed" ELSE "retrying",
    attempts |-> attempts,
    due      |-> IF due = NULL /\ seen.due = NULL THEN r.due ELSE due ]

\* test_endpoint: the row is inserted and attempted in one transaction.
TestEvent(d, ok) ==
  /\ row[d].status = "none"
  /\ row' = [row EXCEPT ![d] = Outcome(NoRow, NoRow, 1, ok)]
  /\ UNCHANGED <<dispatching, queue, worker, lost, budget>>

-----------------------------------------------------------------------------
(* Workers *)

Take(w, d) ==
  /\ worker[w].pc = "idle" /\ queue[d] > 0
  /\ queue' = [queue EXCEPT ![d] = @ - 1]
  /\ Set(w, [Idle EXCEPT !.kind = "task", !.pc = "read", !.d = d])
  /\ UNCHANGED <<row, dispatching, lost, budget>>

\* Mutant: the sweep looks for the pending rows only.
DueRows_Pending == {d \in Deliveries : row[d].status = "pending" /\ row[d].due = "due"}

DueRows == {d \in Deliveries : row[d].status = "retrying" /\ row[d].due = "due"}

Sweep(w) ==
  /\ worker[w].pc = "idle" /\ DueRows # {}
  /\ Set(w, [Idle EXCEPT !.kind = "sweep", !.pc = "next", !.todo = DueRows])
  /\ UNCHANGED <<row, dispatching, queue, lost, budget>>

SweepNext(w) ==
  /\ worker[w].pc = "next"
  /\ \/ worker[w].todo = {} /\ Set(w, Idle)
     \/ \E d \in worker[w].todo :
          Set(w, [worker[w] EXCEPT !.todo = @ \ {d}, !.d = d, !.pc = "read"])
  /\ UNCHANGED <<row, dispatching, queue, lost, budget>>

\* A row that is gone or terminal is left alone.
Read(w) ==
  /\ worker[w].pc = "read"
  /\ LET d == worker[w].d IN
       IF Exists(d) /\ row[d].status \notin Terminal
         THEN Set(w, [worker[w] EXCEPT !.seen = row[d], !.pc = "flush"])
         ELSE Set(w, Finished(w))
  /\ UNCHANGED <<row, dispatching, queue, lost, budget>>

\* An operator retries any row, terminal ones included, in the request itself.
ManualRetry(w, d) ==
  /\ worker[w].pc = "idle" /\ Exists(d) /\ budget["manual"] < MaxManual
  /\ Spend("manual")
  /\ Set(w, [Idle EXCEPT !.kind = "manual", !.pc = "flush", !.d = d, !.seen = row[d]])
  /\ UNCHANGED <<row, dispatching, queue, lost>>

\* A manual retry of a row that is still as it was inserted changes no column,
\* so its first flush issues no UPDATE and takes no lock.
NothingToFlush(w) == worker[w].kind = "manual" /\ worker[w].seen = [NoRow EXCEPT !.status = "pending"]

\* Mutant: "delivering" is set but not flushed before the POST.
Flush_NoLock(w) ==
  /\ worker[w].pc = "flush" /\ Exists(worker[w].d)
  /\ Set(w, [worker[w] EXCEPT !.pc = "post"])
  /\ UNCHANGED <<row, dispatching, queue, lost, budget>>

Flush(w) ==
  /\ worker[w].pc = "flush" /\ Exists(worker[w].d)
  /\ \/ NothingToFlush(w) /\ Set(w, [worker[w] EXCEPT !.pc = "post"])
     \/ ~NothingToFlush(w) /\ ~Locked(worker[w].d)
          /\ Set(w, [worker[w] EXCEPT !.pc = "post", !.locked = TRUE])
  /\ UNCHANGED <<row, dispatching, queue, lost, budget>>

Post(w, ok) ==
  /\ worker[w].pc = "post"
  /\ Set(w, [worker[w] EXCEPT !.pc = "commit", !.ok = ok])
  /\ UNCHANGED <<row, dispatching, queue, lost, budget>>

Commit(w) ==
  /\ worker[w].pc = "commit" /\ Exists(worker[w].d)
  /\ worker[w].locked \/ ~Locked(worker[w].d)
  /\ row' = [row EXCEPT ![worker[w].d] = Outcome(@, worker[w].seen, Attempts(w), worker[w].ok)]
  /\ Set(w, Finished(w))
  /\ UNCHANGED <<dispatching, queue, lost, budget>>

Ack(w) ==
  /\ worker[w].pc = "ack" /\ Set(w, Idle)
  /\ UNCHANGED <<row, dispatching, queue, lost, budget>>

\* The UPDATE of a deleted row matches nothing, or its endpoint is not found: the
\* call raises and the task, or the sweep with all it had left, ends.
Stale(w) ==
  /\ worker[w].pc \in {"flush", "post", "commit"} /\ ~worker[w].locked /\ ~Exists(worker[w].d)
  /\ Set(w, Idle)
  /\ UNCHANGED <<row, dispatching, queue, lost, budget>>

\* Mutant: the message is acknowledged when its task starts.
Crash_EarlyAck(w) ==
  /\ worker[w].pc # "idle" /\ budget["crash"] < MaxCrashes
  /\ Spend("crash") /\ Set(w, Idle)
  /\ UNCHANGED <<row, dispatching, queue, lost>>

\* The worker dies: its transaction is rolled back and the message of a task,
\* not yet acknowledged, goes back to the queue.
Crash(w) ==
  /\ worker[w].pc # "idle" /\ budget["crash"] < MaxCrashes
  /\ Spend("crash")
  /\ queue' = IF worker[w].kind = "task" THEN [queue EXCEPT ![worker[w].d] = @ + 1] ELSE queue
  /\ Set(w, Idle)
  /\ UNCHANGED <<row, dispatching, lost>>

\* The database fails a statement outside the try of attempt, or the commit: the
\* transaction is rolled back and the exception ends the task, whose message is
\* acknowledged all the same, or the sweep with all it had left, or the request.
Raise(w) ==
  /\ worker[w].pc \in {"read", "flush", "post", "commit"} /\ budget["crash"] < MaxCrashes
  /\ Spend("crash")
  /\ lost' = IF worker[w].kind = "task" THEN lost \cup {worker[w].d} ELSE lost
  /\ Set(w, Idle)
  /\ UNCHANGED <<row, dispatching, queue>>

\* next_retry_at passes.
Elapse(d) ==
  /\ row[d].due = "waiting"
  /\ row' = [row EXCEPT ![d].due = "due"]
  /\ UNCHANGED <<dispatching, queue, worker, lost, budget>>

-----------------------------------------------------------------------------
Init ==
  /\ row = [d \in Deliveries |-> NoRow]
  /\ dispatching = {}
  /\ queue = [d \in Deliveries |-> 0]
  /\ worker = [w \in Workers |-> Idle]
  /\ lost = {}
  /\ budget = [k \in {"crash", "manual"} |-> 0]

Working(w) ==
  SweepNext(w) \/ Read(w) \/ Flush(w) \/ (\E ok \in BOOLEAN : Post(w, ok)) \/ Commit(w) \/ Ack(w) \/ Stale(w)

Next ==
  \/ \E d \in Deliveries :
       FanOut(d) \/ Dispatch(d) \/ DispatchLost(d) \/ DeleteEndpoint(d) \/ Elapse(d)
         \/ \E ok \in BOOLEAN : TestEvent(d, ok)
  \/ \E w \in Workers :
       \/ Sweep(w) \/ Working(w) \/ Crash(w) \/ Raise(w)
       \/ \E d \in Deliveries : Take(w, d) \/ ManualRetry(w, d)

Spec == Init /\ [][Next]_vars

\* Time passes, dispatching goes on, beat starts a sweep every minute and
\* workers keep taking messages and finishing what they started.
Fairness ==
  /\ \A d \in Deliveries : WF_vars(Elapse(d)) /\ WF_vars(Dispatch(d) \/ DispatchLost(d))
  /\ \A w \in Workers :
       /\ WF_vars(Working(w)) /\ WF_vars(Sweep(w))
       /\ \A d \in Deliveries : WF_vars(Take(w, d))

FairSpec == Spec /\ Fairness

-----------------------------------------------------------------------------
(* Properties *)

\* Every variable has its type; in particular no row counts more attempts than the
\* schedule allows, though workers race on it and operators start it over.
TypeOK ==
  /\ row \in [Deliveries -> Row]
  /\ dispatching \subseteq Deliveries
  /\ queue \in [Deliveries -> Nat]
  /\ worker \in [Workers -> WorkerType]
  /\ lost \subseteq Deliveries
  /\ budget \in [{"crash", "manual"} -> Nat]

Holds(d) == \E w \in Workers : worker[w].kind = "task" /\ worker[w].d = d

\* An unfinished delivery always has something that will drive it, whatever
\* workers die and races they run: a pending row a dispatch, a message or the task
\* that holds it, a retrying row a next_retry_at.  Two things leave a pending row
\* with nothing (lost): a dispatch that failed, which events.py:53-54 leaves to a
\* sweep that selects retrying rows only, and a task that raised.
AlwaysDriven ==
  \A d \in Deliveries :
    /\ row[d].status = "pending" => d \in dispatching \/ queue[d] > 0 \/ Holds(d) \/ d \in lost
    /\ row[d].status = "retrying" => row[d].due # NULL

Posting(w) == worker[w].pc \in {"post", "commit"} /\ worker[w].kind # "manual"

\* Tasks and sweeps never POST the same delivery at the same time: the
\* "delivering" flush holds the row lock over the POST.
SerialPosts ==
  \A v, w \in Workers : v # w /\ Posting(v) /\ Posting(w) => worker[v].d # worker[w].d

Stranded(d) == row[d].status = "pending" /\ d \in lost

\* A delivery that reached the queue ends delivered, failed or deleted with its
\* endpoint, however many workers die on the way, unless a task that raised has
\* taken its message along.
EverySettles ==
  \A d \in Deliveries : queue[d] > 0 ~> row[d].status \in Terminal \cup {"gone"} \/ Stranded(d)

=============================================================================
