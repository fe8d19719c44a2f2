----------------------------- MODULE Ingestion -----------------------------
(***************************************************************************)
(* Ingestion of one document (app/modules/documents, app/modules/ingestion, *)
(* ingestion_tasks.py).  Documents share no row, so one stands for all.    *)
(*                                                                         *)
(* A request inserts or resets an ingestion_jobs row and enqueues a Celery *)
(* message BEFORE its transaction commits.  The worker that takes it loads *)
(* the document and its latest job, rebuilds chunks and entities in one    *)
(* transaction, and on an error puts the message back with one try more;   *)
(* after the last try it marks document and latest job failed.  Rows are   *)
(* read without locks; an UPDATE or DELETE waits for the row lock and      *)
(* keeps it to the end of its transaction (READ COMMITTED).  The ORM       *)
(* writes only the columns whose value differs from the one it loaded.     *)
(***************************************************************************)
EXTENDS Integers, Sequences, FiniteSets, FiniteSetsExt

CONSTANTS
  Workers,       \* Celery worker slots
  Requests,      \* request handlers
  MaxVersion,    \* bound: versions of the document
  Stages,        \* stages a run may start from
  MaxRetries,    \* max_retries of ingest_document
  MaxAsked,      \* bound: requests served
  MaxCrashes,    \* bound: worker deaths
  MaxLost,       \* bound: tasks the broker or the database loses track of
  NULL

ASSUME ActorsAssumption == Workers \cap Requests = {} /\ IsFiniteSet(Workers \cup Requests)
\* Starting before "chunking" is starting at "ocr", and "embedding" finds every
\* chunk embedded, so three starts differ.
ASSUME StagesAssumption == Stages \subseteq {"ocr", "extracting", "graphing"} /\ "ocr" \in Stages
ASSUME BoundsAssumption ==
  /\ MaxVersion \in Nat \ {0} /\ MaxRetries \in Nat
  /\ MaxAsked \in Nat /\ MaxCrashes \in Nat /\ MaxLost \in Nat

VARIABLES
  doc,        \* documents: ingestion_status, current_version_id, deleted_at set
  uploaded,   \* versions whose object is in storage
  jobs,       \* ingestion_jobs.status by created_at; "none" before the commit
  rows,       \* committed sets of chunks of each version, and of entities
  queue,      \* unacknowledged messages that no worker holds
  act,        \* the open transaction of each worker and request
  budget      \* requests served, worker deaths and lost tasks so far

vars == <<doc, uploaded, jobs, rows, queue, act, budget>>

Actors == Workers \cup Requests
Versions == 1 .. MaxVersion
Jobs == 1 .. MaxAsked + 1
Entities == 0            \* extracted_entities, among the tables a run rebuilds
Tables == Versions \cup {Entities}

Messages == [from : Stages, tries : 0 .. MaxRetries]

JobStatuses == {"none", "pending", "completed", "failed", "cancelled"}
DocStatuses == {"pending", "completed", "failed"}

Idle ==
  [ kind |-> "none", pc |-> "idle",
    from |-> NULL, tries |-> 0,            \* the message
    job |-> NULL, seenJob |-> NULL,        \* the job row and the status it was read with
    version |-> NULL, seenDoc |-> NULL,    \* current_version_id and ingestion_status as read
    todo |-> <<>>,                         \* tables still to rebuild
    snap |-> {},                           \* rows the DELETE under way has found
    gone |-> [t \in Tables |-> {}],        \* rows deleted, and so locked
    new |-> [t \in Tables |-> {}],         \* rows inserted
    hasDoc |-> FALSE, hasJob |-> FALSE ]   \* row locks

-----------------------------------------------------------------------------
(* Rows and locks *)

Others(a) == Actors \ {a}
DocFree(a) == \A b \in Others(a) : ~act[b].hasDoc
JobFree(a) == \A b \in Others(a) : ~(act[b].hasJob /\ act[b].job = act[a].job)

Set(a, val) == act' = [act EXCEPT ![a] = val]
Put(from, tries) == queue' = [queue EXCEPT ![[from |-> from, tries |-> tries]] = @ + 1]

Exists(j) == jobs[j] # "none"

\* latest_for_document: ordered by created_at, the start of the transaction.
Latest == IF \E j \in Jobs : Exists(j) THEN Max({j \in Jobs : Exists(j)}) ELSE NULL

\* Mutant: the chunk index is not unique.
Unique_No(t) == FALSE
Unique(t) == t # Entities

Fresh(t) ==
  LET used == rows[t] \cup UNION {act[a].new[t] \cup act[a].snap : a \in Actors}
  IN  CHOOSE n \in 0 .. Cardinality(used) : n \notin used

Ask(k) == budget' = [budget EXCEPT ![k] = @ + 1]
More == budget["asked"] < MaxAsked /\ Ask("asked")
NewJob == budget["asked"] + 2   \* created_at follows the order of the requests

-----------------------------------------------------------------------------
(* Requests: documents/service.py and ingestion/service.py *)

\* The client PUTs the object to its presigned URL.
Upload ==
  /\ doc.version \notin uploaded
  /\ uploaded' = uploaded \cup {doc.version}
  /\ UNCHANGED <<doc, jobs, rows, queue, act, budget>>

\* A new version, or a deletion, is a single UPDATE and taken as one step.
CreateVersion ==
  /\ More
  /\ ~doc.deleted /\ doc.version < MaxVersion
  /\ \A a \in Actors : ~act[a].hasDoc
  /\ doc' = [doc EXCEPT !.version = @ + 1, !.status = "pending"]
  /\ UNCHANGED <<uploaded, jobs, rows, queue, act>>

Delete ==
  /\ More
  /\ ~doc.deleted /\ (\A a \in Actors : ~act[a].hasDoc)
  /\ doc' = [doc EXCEPT !.deleted = TRUE]
  /\ UNCHANGED <<uploaded, jobs, rows, queue, act>>

\* A flush updates the document row when one of its columns differs; whether
\* columns other than the status do is left open.
DocThen(seen, next) == {"doc"} \cup (IF seen = "pending" THEN {next} ELSE {})

Begin(r, t) ==
  /\ More
  /\ act[r].pc = "idle"
  /\ Set(r, t)
  /\ UNCHANGED <<doc, uploaded, jobs, rows, queue>>

Confirm(r) ==
  /\ ~doc.deleted /\ doc.version \in uploaded
  /\ \E pc \in DocThen(doc.status, "send") :
       Begin(r, [Idle EXCEPT !.kind = "confirm", !.pc = pc, !.from = "ocr", !.job = NewJob,
                             !.seenDoc = doc.status])

Reprocess(r) ==
  /\ ~doc.deleted
  /\ \E pc \in DocThen(doc.status, "send"), from \in Stages :
       Begin(r, [Idle EXCEPT !.kind = "reprocess", !.pc = pc, !.from = from, !.job = NewJob,
                             !.seenDoc = doc.status])

Retry(r, j) ==
  /\ Exists(j) /\ ~doc.deleted
  /\ \E pc \in DocThen(doc.status, "job") :
       Begin(r, [Idle EXCEPT !.kind = "retry", !.pc = pc, !.from = "ocr", !.job = j,
                             !.seenJob = jobs[j], !.seenDoc = doc.status])

Cancel(r, j) ==
  /\ Exists(j) /\ jobs[j] \notin {"completed", "failed", "cancelled"}
  /\ Begin(r, [Idle EXCEPT !.kind = "cancel", !.pc = "job", !.job = j, !.seenJob = jobs[j]])

\* The message goes out before the COMMIT.  When the broker is unreachable the
\* event bus swallows the error; retry() calls the broker itself and fails.
Send(r) ==
  /\ act[r].pc = "send"
  /\ \/ Put(act[r].from, 0) /\ Set(r, [act[r] EXCEPT !.pc = "commit"])
     \/ act[r].kind # "retry" /\ Set(r, [act[r] EXCEPT !.pc = "commit"]) /\ UNCHANGED queue
     \/ act[r].kind = "retry" /\ Set(r, Idle) /\ UNCHANGED queue
  /\ UNCHANGED <<doc, uploaded, jobs, rows, budget>>

Rollback(r) ==
  /\ act[r].pc # "idle"
  /\ Set(r, Idle)
  /\ UNCHANGED <<doc, uploaded, jobs, rows, queue, budget>>

-----------------------------------------------------------------------------
(* Row locks taken by a flush *)

LockDoc(a) ==
  /\ act[a].pc = "doc" /\ DocFree(a)
  /\ Set(a,
       CASE act[a].kind = "fail" ->
              IF Latest = NULL THEN [act[a] EXCEPT !.hasDoc = TRUE, !.pc = "commit"]
              ELSE [act[a] EXCEPT !.hasDoc = TRUE, !.pc = "job", !.job = Latest, !.seenJob = jobs[Latest]]
         [] act[a].kind \in {"confirm", "reprocess"} -> [act[a] EXCEPT !.hasDoc = TRUE, !.pc = "send"]
         [] OTHER -> [act[a] EXCEPT !.hasDoc = TRUE, !.pc = "job"])
  /\ UNCHANGED <<doc, uploaded, jobs, rows, queue, budget>>

\* Parsing may change page_count, which locks the document row too.
AfterJob(t) ==
  CASE t.kind = "run" -> {"step"} \cup (IF Len(t.todo) = 2 THEN {"pages"} ELSE {})
    [] t.kind = "retry" -> {"send"}
    [] OTHER -> {"commit"}

\* Mutant: the stage is entered without waiting for the job row.
LockJob_NoWait(a) ==
  /\ act[a].pc = "job"
  /\ \E pc \in AfterJob(act[a]) : Set(a, [act[a] EXCEPT !.hasJob = TRUE, !.pc = pc])
  /\ UNCHANGED <<doc, uploaded, jobs, rows, queue, budget>>

LockJob(a) ==
  /\ act[a].pc = "job" /\ JobFree(a)
  /\ \E pc \in AfterJob(act[a]) : Set(a, [act[a] EXCEPT !.hasJob = TRUE, !.pc = pc])
  /\ UNCHANGED <<doc, uploaded, jobs, rows, queue, budget>>

LockPages(w) ==
  /\ act[w].pc = "pages" /\ DocFree(w)
  /\ Set(w, [act[w] EXCEPT !.hasDoc = TRUE, !.pc = "step"])
  /\ UNCHANGED <<doc, uploaded, jobs, rows, queue, budget>>

-----------------------------------------------------------------------------
(* Tasks: ingestion_tasks.py *)

Take(w, m) ==
  /\ act[w].pc = "idle" /\ queue[m] > 0
  /\ queue' = [queue EXCEPT ![m] = @ - 1]
  /\ Set(w, [Idle EXCEPT !.kind = "run", !.pc = "load", !.from = m.from, !.tries = m.tries])
  /\ UNCHANGED <<doc, uploaded, jobs, rows, budget>>

Acking(w) == [Idle EXCEPT !.kind = "run", !.pc = "ack", !.from = act[w].from, !.tries = act[w].tries]

\* The task ends with neither a result, a retry nor mark_failed.
Lost(w) == Ask("lost") /\ Set(w, Acking(w)) /\ UNCHANGED queue

\* The run raised: its transaction is rolled back and the message goes out again
\* with one try more, or, after the last one, mark_failed is called.  A broker
\* that cannot be reached ends the task with neither.
Failed(w) ==
  IF act[w].tries < MaxRetries
    THEN \/ Put(act[w].from, act[w].tries + 1) /\ Set(w, Acking(w)) /\ UNCHANGED budget
         \/ budget["lost"] < MaxLost /\ Lost(w)
    ELSE /\ Set(w, [Acking(w) EXCEPT !.kind = "fail", !.pc = "doc"])
         /\ UNCHANGED <<queue, budget>>

Running(w) == act[w].kind = "run" /\ act[w].pc # "ack"

\* Storage, OCR, parsing, the providers or the database: any stage may raise.
Fail(w) ==
  /\ Running(w) /\ Failed(w)
  /\ UNCHANGED <<doc, uploaded, jobs, rows>>

Ack(w) ==
  /\ act[w].pc = "ack" /\ Set(w, Idle)
  /\ UNCHANGED <<doc, uploaded, jobs, rows, queue, budget>>

\* Mutant: the message is acknowledged when its task starts.
Crash_EarlyAck(w) ==
  /\ act[w].pc # "idle" /\ budget["crash"] < MaxCrashes /\ Ask("crash")
  /\ Set(w, Idle)
  /\ UNCHANGED <<doc, uploaded, jobs, rows, queue>>

\* The worker dies; the message, not yet acknowledged, is delivered again.
Crash(w) ==
  /\ act[w].pc # "idle" /\ budget["crash"] < MaxCrashes /\ Ask("crash")
  /\ Put(act[w].from, act[w].tries) /\ Set(w, Idle)
  /\ UNCHANGED <<doc, uploaded, jobs, rows>>

-----------------------------------------------------------------------------
(* The pipeline: run_pipeline *)

Todo(t) ==
  CASE t.from = "ocr" -> <<t.version, Entities>>
    [] t.from = "extracting" -> <<Entities>>
    [] OTHER -> <<>>

\* It raises when the document is gone, ...
LoadDoc(w) ==
  /\ act[w].pc = "load"
  /\ IF doc.deleted THEN Failed(w)
     ELSE /\ Set(w, [act[w] EXCEPT !.pc = "find", !.version = doc.version, !.seenDoc = doc.status])
          /\ UNCHANGED <<queue, budget>>
  /\ UNCHANGED <<doc, uploaded, jobs, rows>>

\* ... has no job yet, or the object of the version it has read was never uploaded.
LoadJob(w) ==
  /\ act[w].pc = "find"
  /\ IF Latest = NULL \/ act[w].version \notin uploaded THEN Failed(w)
     ELSE /\ \E pc \in DocThen(act[w].seenDoc, "job") :
               Set(w, [act[w] EXCEPT !.pc = pc, !.job = Latest, !.seenJob = jobs[Latest],
                                     !.todo = Todo(act[w])])
          /\ UNCHANGED <<queue, budget>>
  /\ UNCHANGED <<doc, uploaded, jobs, rows>>

\* A DELETE sees the rows committed when it starts, ...
Step(w) ==
  /\ act[w].pc = "step"
  /\ IF act[w].todo = <<>> THEN Set(w, [act[w] EXCEPT !.pc = "commit"])
     ELSE Set(w, [act[w] EXCEPT !.pc = "deleting", !.snap = rows[Head(act[w].todo)]])
  /\ UNCHANGED <<doc, uploaded, jobs, rows, queue, budget>>

\* ... waits for those another transaction is deleting, and skips the ones that
\* are gone by then.  An unreadable or empty object yields no rows to insert.
DeleteRows(w) ==
  /\ act[w].pc = "deleting"
  /\ LET t == Head(act[w].todo)
         cut == [act[w] EXCEPT !.snap = {}, !.gone[t] = act[w].snap \cap rows[t]]
     IN  /\ \A b \in Others(w) : act[b].gone[t] \cap act[w].snap = {}
         /\ \/ Set(w, [cut EXCEPT !.pc = "insert"])
            \/ Set(w, [cut EXCEPT !.pc = "step", !.todo = Tail(@)])
  /\ UNCHANGED <<doc, uploaded, jobs, rows, queue, budget>>

\* uq_chunk_version_index: the INSERT waits for an open transaction that inserts
\* or deletes the same keys, and fails on those that remain.
KeyBusy(w, t) == \E b \in Others(w) : act[b].new[t] # {} \/ act[b].gone[t] \cap rows[t] # {}
KeyTaken(w, t) == rows[t] \ act[w].gone[t] # {}

InsertRows(w) ==
  /\ act[w].pc = "insert"
  /\ LET t == Head(act[w].todo) IN
       /\ Unique(t) => ~KeyBusy(w, t)
       /\ IF Unique(t) /\ KeyTaken(w, t) THEN Failed(w)
          ELSE /\ Set(w, [act[w] EXCEPT !.pc = "step", !.todo = Tail(@), !.new[t] = {Fresh(t)}])
               /\ UNCHANGED <<queue, budget>>
  /\ UNCHANGED <<doc, uploaded, jobs, rows>>

-----------------------------------------------------------------------------
(* The end of a transaction *)

Rebuilt(w) == [t \in Tables |-> (rows[t] \ act[w].gone[t]) \cup act[w].new[t]]

\* _finalize: "completed" differs from the "pending" the run has set, whatever the
\* row holds by now.
CommitRun(w) ==
  /\ act[w].pc = "commit" /\ act[w].kind = "run" /\ DocFree(w)
  /\ doc' = [doc EXCEPT !.status = "completed"]
  /\ jobs' = [jobs EXCEPT ![act[w].job] = "completed"]
  /\ rows' = Rebuilt(w)
  /\ Set(w, Acking(w))
  /\ UNCHANGED <<uploaded, queue, budget>>

\* Mutant: mark_failed updates the document only.
CommitFail_DocOnly(w) ==
  /\ act[w].pc = "commit" /\ act[w].kind = "fail"
  /\ doc' = [doc EXCEPT !.status = "failed"]
  /\ Set(w, Acking(w))
  /\ UNCHANGED <<uploaded, jobs, rows, queue, budget>>

\* Mutant: mark_failed updates the job only.
CommitFail_JobOnly(w) ==
  /\ act[w].pc = "commit" /\ act[w].kind = "fail"
  /\ jobs' = [j \in Jobs |-> IF j = act[w].job THEN "failed" ELSE jobs[j]]
  /\ Set(w, Acking(w))
  /\ UNCHANGED <<doc, uploaded, rows, queue, budget>>

CommitFail(w) ==
  /\ act[w].pc = "commit" /\ act[w].kind = "fail"
  /\ doc' = [doc EXCEPT !.status = "failed"]
  /\ jobs' = [j \in Jobs |-> IF j = act[w].job /\ act[w].seenJob # "failed" THEN "failed" ELSE jobs[j]]
  /\ Set(w, Acking(w))
  /\ UNCHANGED <<uploaded, rows, queue, budget>>

\* mark_failed itself raises: the task ends and its message is acknowledged.
FailRaises(w) ==
  /\ act[w].kind = "fail" /\ budget["lost"] < MaxLost
  /\ Lost(w)
  /\ UNCHANGED <<doc, uploaded, jobs, rows>>

CommitRequest(r) ==
  /\ act[r].pc = "commit" /\ act[r].kind \in {"confirm", "reprocess", "retry", "cancel"}
  /\ LET t == act[r] IN
       /\ doc' = IF t.kind # "cancel" /\ t.seenDoc # "pending" THEN [doc EXCEPT !.status = "pending"] ELSE doc
       /\ jobs' = [jobs EXCEPT ![t.job] =
                    CASE t.kind = "cancel" -> "cancelled"
                      [] t.kind = "retry" /\ t.seenJob = "pending" -> @
                      [] OTHER -> "pending"]
  /\ Set(r, Idle)
  /\ UNCHANGED <<uploaded, rows, queue, budget>>

-----------------------------------------------------------------------------
(* Deadlocks between row locks, which PostgreSQL breaks by failing a transaction *)

WaitsFor(a, b) ==
  /\ a # b
  /\ LET t == act[a] IN
     \/ (t.pc \in {"doc", "pages"} \/ (t.pc = "commit" /\ t.kind = "run")) /\ act[b].hasDoc
     \/ t.pc = "job" /\ act[b].hasJob /\ act[b].job = t.job
     \/ t.pc = "deleting" /\ act[b].gone[Head(t.todo)] \cap t.snap # {}
     \/ t.pc = "insert" /\ Unique(Head(t.todo))
          /\ (act[b].new[Head(t.todo)] # {} \/ act[b].gone[Head(t.todo)] \cap rows[Head(t.todo)] # {})

InCycle(a) ==
  \E C \in SUBSET Actors :
    a \in C /\ \A x \in C : (\E y \in C : WaitsFor(x, y)) /\ (\E y \in C : WaitsFor(y, x))

DeadlockVictim(a) ==
  /\ InCycle(a)
  /\ CASE act[a].kind = "run" -> Failed(a)
       [] act[a].kind = "fail" -> Lost(a)
       [] OTHER -> Set(a, Idle) /\ UNCHANGED <<queue, budget>>
  /\ UNCHANGED <<doc, uploaded, jobs, rows>>

-----------------------------------------------------------------------------
\* A document whose upload URL has been issued, or one that has been ingested.
Init ==
  /\ \E ingested \in BOOLEAN :
       /\ doc = [status |-> IF ingested THEN "completed" ELSE "pending", version |-> 1, deleted |-> FALSE]
       /\ uploaded = IF ingested THEN {1} ELSE {}
       /\ jobs = [j \in Jobs |-> IF j = 1 /\ ingested THEN "completed" ELSE "none"]
       /\ rows = [t \in Tables |-> IF t \in {1, Entities} /\ ingested THEN {0} ELSE {}]
  /\ queue = [m \in Messages |-> 0]
  /\ act = [a \in Actors |-> Idle]
  /\ budget = [k \in {"asked", "crash", "lost"} |-> 0]

Working(w) ==
  \/ LoadDoc(w) \/ LoadJob(w) \/ LockDoc(w) \/ LockJob(w) \/ LockPages(w) \/ Step(w) \/ DeleteRows(w) \/ InsertRows(w)
  \/ CommitRun(w) \/ CommitFail(w) \/ DeadlockVictim(w) \/ Ack(w)

Serving(r) == LockDoc(r) \/ LockJob(r) \/ Send(r) \/ CommitRequest(r) \/ DeadlockVictim(r)

Next ==
  \/ Upload \/ CreateVersion \/ Delete
  \/ \E r \in Requests :
       \/ Confirm(r) \/ Reprocess(r) \/ Serving(r) \/ Rollback(r)
       \/ \E j \in Jobs : Retry(r, j) \/ Cancel(r, j)
  \/ \E w \in Workers :
       \/ Working(w) \/ Fail(w) \/ FailRaises(w) \/ Crash(w)
       \/ \E m \in Messages : Take(w, m)

Spec == Init /\ [][Next]_vars

\* Workers keep taking messages and finish what they start; so do requests.
Fairness ==
  /\ \A w \in Workers : WF_vars(Working(w)) /\ WF_vars(\E m \in Messages : Take(w, m))
  /\ \A r \in Requests : WF_vars(Serving(r))

FairSpec == Spec /\ Fairness

-----------------------------------------------------------------------------
(* Properties *)

ActType ==
  [ kind : {"none", "confirm", "reprocess", "retry", "cancel", "run", "fail"},
    pc : {"idle", "doc", "job", "send", "commit", "load", "find", "pages", "step", "deleting", "insert", "ack"},
    from : Stages \cup {NULL}, tries : 0 .. MaxRetries,
    job : Jobs \cup {NULL}, seenJob : JobStatuses \cup {NULL},
    version : Versions \cup {NULL}, seenDoc : DocStatuses \cup {NULL},
    todo : Seq(Tables), snap : SUBSET Nat,
    gone : [Tables -> SUBSET Nat], new : [Tables -> SUBSET Nat],
    hasDoc : BOOLEAN, hasJob : BOOLEAN ]

\* Every variable has its type; a lock is held by one transaction.
TypeOK ==
  /\ doc \in [status : DocStatuses, version : Versions, deleted : BOOLEAN]
  /\ uploaded \subseteq Versions
  /\ jobs \in [Jobs -> JobStatuses]
  /\ rows \in [Tables -> SUBSET Nat]
  /\ queue \in [Messages -> Nat]
  /\ act \in [Actors -> ActType]
  /\ \A a, b \in Actors : a # b /\ act[a].hasDoc => ~act[b].hasDoc
  /\ \A a, b \in Actors : a # b /\ act[a].hasJob /\ act[b].hasJob => act[a].job # act[b].job
  /\ budget \in [{"asked", "crash", "lost"} -> Nat]

Index == INSTANCE SearchIndex WITH index <- [v \in Versions |-> rows[v]]

\* Runs of the same document, their retries, redeliveries and deaths keep the
\* promise made to search: one set of chunks a version or none, and a commit puts
\* one set or none in its place in one step, for one version at a time.  (A run
\* whose object yields no chunks takes the former set away.)
IndexSpec == Index!Spec

Queued == \E m \in Messages : queue[m] > 0
Driven == Queued \/ \E w \in Workers : act[w].kind \in {"run", "fail"} /\ act[w].pc # "ack"

\* A document that is pending with a task on its way ends completed or failed,
\* whatever workers die and transactions are aborted.
DocumentSettles == doc.status = "pending" /\ Driven ~> doc.status # "pending" \/ budget["lost"] > 0

\* The latest job, pending with a message in the queue, is not left pending.
LatestJobSettles ==
  \A j \in Jobs : Latest = j /\ jobs[j] = "pending" /\ Queued ~> jobs[j] # "pending" \/ Latest # j \/ budget["lost"] > 0
=============================================================================
