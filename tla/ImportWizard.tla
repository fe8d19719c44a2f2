---------------------------- MODULE ImportWizard ----------------------------
(***************************************************************************)
(* The bulk import wizard (components/views/data/ImportWizard.tsx) and the *)
(* import jobs of the built-in server (lib/api/client.ts): upload, field   *)
(* mapping, start, and a poll of the job every 1.5 seconds.  Jobs are only *)
(* ever created there: the backend refuses the wizard's POST, which names  *)
(* no file_key (dataops/schemas.py).  The built-in server answers every    *)
(* call after the same 0.3 seconds, so answers come in the order of calls. *)
(***************************************************************************)
EXTENDS Integers, Sequences

CONSTANTS
  Entities,      \* import_entities of GET /lookups
  MaxRuns,       \* bound: imports started
  MaxPolls,      \* bound: calls in flight when a poll is sent
  None

WizardAssumption ==
  /\ None \notin Entities \cup {"validating", "preview", "applying", "done"}
  /\ {MaxRuns, MaxPolls} \subseteq Nat

VARIABLES
  view,          \* the state hooks and the FileReaders
  calls,         \* calls in flight, oldest first
  server         \* the jobs, each [entity, mapping, status]

vars == <<view, calls, server>>

Stages == <<"validating", "preview", "applying", "done">>
NextStage(status) ==
  CASE status = "validating" -> "preview"
    [] status = "preview" -> "applying"
    [] OTHER -> "done"

\* mapping: the entity whose fields the columns are mapped to.  status: of jobDetails.
\* readers: entities of the FileReaders that have not loaded yet.
Fresh(entity, readers) ==
  [readers |-> readers, step |-> 1, entity |-> entity, file |-> FALSE, headers |-> FALSE, mapping |-> None,
   jobId |-> 0, status |-> None, isPolling |-> FALSE, failed |-> FALSE]

Init ==
  /\ \E e \in Entities : view = Fresh(e, {})
  /\ calls = <<>>
  /\ server = <<>>

\* Another entity: the file goes, the mapping stays.
SelectEntity(e) ==
  /\ view.step = 1
  /\ view' = [view EXCEPT !.entity = e, !.file = FALSE, !.headers = FALSE]
  /\ UNCHANGED <<calls, server>>

\* handleFile: the name is shown at once, the columns when the reader has loaded.
HandleFile ==
  /\ view.step = 1
  /\ view' = [view EXCEPT !.file = TRUE, !.readers = @ \cup {view.entity}]
  /\ UNCHANGED <<calls, server>>

\* An empty file has no header line and changes nothing.
Loaded(e, empty) ==
  /\ e \in view.readers
  /\ view' = [view EXCEPT !.readers = @ \ {e}, !.headers = @ \/ ~empty,
                          !.mapping = IF empty THEN @ ELSE e]
  /\ UNCHANGED <<calls, server>>

ForceAutoGuess ==
  /\ view.step = 2
  /\ view' = [view EXCEPT !.mapping = IF view.headers THEN view.entity ELSE None]
  /\ UNCHANGED <<calls, server>>

ProceedToMapping ==
  /\ view.step = 1
  /\ view.file
  /\ view' = [view EXCEPT !.step = 2]
  /\ UNCHANGED <<calls, server>>

BackToUpload ==
  /\ view.step = 2
  /\ view' = [view EXCEPT !.step = 1]
  /\ UNCHANGED <<calls, server>>

StartImport ==
  /\ view.step = 2
  /\ Len(server) + Len(calls) < MaxRuns
  /\ view' = [view EXCEPT !.step = 3]
  /\ calls' = Append(calls, [op |-> "create", entity |-> view.entity, mapping |-> view.mapping])
  /\ UNCHANGED server

\* POST /import/jobs
JobCreated ==
  /\ calls # <<>>
  /\ Head(calls).op = "create"
  /\ calls' = Tail(calls)
  /\ server' = Append(server, [entity |-> Head(calls).entity, mapping |-> Head(calls).mapping,
                           status |-> "validating"])
  /\ view' = [view EXCEPT !.jobId = Len(server) + 1, !.status = "validating", !.isPolling = TRUE]

\* A tick of the interval; it does not look whether the last answer has come.
Poll ==
  /\ view.isPolling
  /\ Len(calls) < MaxPolls
  /\ calls' = Append(calls, [op |-> "poll", job |-> view.jobId])
  /\ UNCHANGED <<view, server>>

\* Mutant: the answer that ends the job leaves the interval running.
Polled_IntervalKept ==
  /\ calls # <<>>
  /\ Head(calls).op = "poll"
  /\ calls' = Tail(calls)
  /\ LET job == Head(calls).job
         status == NextStage(server[job].status)
     IN /\ server' = [server EXCEPT ![job].status = status]
        /\ view' = [view EXCEPT !.status = status]

\* GET /import/jobs/{id} advances the job and answers with its status.
Polled ==
  /\ calls # <<>>
  /\ Head(calls).op = "poll"
  /\ calls' = Tail(calls)
  /\ LET job == Head(calls).job
         status == NextStage(server[job].status)
     IN /\ server' = [server EXCEPT ![job].status = status]
        /\ view' = [view EXCEPT !.status = status, !.isPolling = @ /\ status # "done"]

\* A call fails: the log says so, and a poll is the last one.
CallFails ==
  /\ calls # <<>>
  /\ calls' = Tail(calls)
  /\ view' = [view EXCEPT !.isPolling = @ /\ Head(calls).op # "poll", !.failed = TRUE]
  /\ UNCHANGED server

\* START NEW BULK IMPORT is only offered once the job is done.
ResetWizard ==
  /\ view.step = 3
  /\ view.status = "done"
  /\ view' = Fresh(view.entity, view.readers)
  /\ UNCHANGED <<calls, server>>

Next ==
  \/ \E e \in Entities : SelectEntity(e) \/ \E empty \in BOOLEAN : Loaded(e, empty)
  \/ HandleFile \/ ForceAutoGuess \/ ProceedToMapping \/ BackToUpload
  \/ StartImport \/ JobCreated \/ Poll \/ Polled \/ CallFails \/ ResetWizard

Spec == Init /\ [][Next]_vars

-----------------------------------------------------------------------------
TypeOK ==
  /\ view \in [readers : SUBSET Entities, step : 1 .. 3, entity : Entities, file : BOOLEAN, headers : BOOLEAN,
                 mapping : Entities \cup {None}, jobId : 0 .. Len(server),
                 status : {None} \cup {Stages[i] : i \in DOMAIN Stages}, isPolling : BOOLEAN,
                 failed : BOOLEAN]
  /\ \A i \in DOMAIN server : server[i].status \in {Stages[k] : k \in DOMAIN Stages}
=============================================================================
