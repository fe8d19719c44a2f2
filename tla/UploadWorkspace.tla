--------------------------- MODULE UploadWorkspace ---------------------------
(***************************************************************************)
(* The upload workspace (DocumentsLibrary.tsx, DocumentsUploadWorkspace):  *)
(* a queue of dropped files, for each an ingestion pipeline played by an   *)
(* interval, an editable table of what was extracted, and an approval that *)
(* makes two calls and goes on, after them, with the queue of the render   *)
(* it was clicked in.  The built-in server answers every call after the    *)
(* same delay, so answers come in the order of calls.                      *)
(***************************************************************************)
EXTENDS Integers, Sequences, Lists

CONSTANTS
  Files,         \* files that may be dropped
  LastStage,     \* stages of the pipeline (6 in the code)
  MaxCalls,      \* bound: calls in flight
  MaxStored,     \* bound: documents stored
  None

UploadAssumption ==
  None \notin Files /\ {LastStage, MaxCalls, MaxStored} \subseteq Nat

VARIABLES
  view,          \* the state hooks and the pipelines' intervals
  calls,         \* calls in flight, oldest first
  server         \* the documents stored: a sequence of [file, entities]

vars == <<view, calls, server>>

\* Status of a task: 0 is pending, LastStage + 1 is completed.
Pending == 0
Completed == LastStage + 1
NewTask == [status |-> Pending, tags |-> 0, entities |-> None]

\* queue: ids in order.  intervals: file -> the next stage and the tags the pipeline was
\* started with.  gone: another screen is shown.
Init ==
  /\ view = [queue |-> <<>>, task |-> [f \in {} |-> NewTask], active |-> None,
             intervals |-> [f \in {} |-> 0], gone |-> FALSE]
  /\ calls = <<>>
  /\ server = <<>>

Queued(f) == f \in DOMAIN view.task

\* handleFileDrop: an id is used once, so a file is dropped once.
HandleFileDrop(f) ==
  /\ ~view.gone
  /\ ~Queued(f) /\ f \notin DOMAIN view.intervals
  /\ \A i \in DOMAIN calls : calls[i].file # f
  /\ \A i \in DOMAIN server : server[i].file # f
  /\ view' = [view EXCEPT !.queue = Append(@, f),
                          !.task = [g \in DOMAIN @ \cup {f} |-> IF g = f THEN NewTask ELSE @[g]],
                          !.active = IF @ = None THEN f ELSE @]
  /\ UNCHANGED <<calls, server>>

Select(f) ==
  /\ ~view.gone /\ Queued(f)
  /\ view' = [view EXCEPT !.active = f]
  /\ UNCHANGED <<calls, server>>

Active == IF Queued(view.active) THEN {view.active} ELSE {}

\* The metadata of the active task can be edited until its pipeline runs.
UpdateTaskMetadata ==
  /\ ~view.gone
  /\ \E f \in Active :
       /\ view.task[f].status = Pending
       /\ view' = [view EXCEPT !.task[f].tags = 1 - @]
  /\ UNCHANGED <<calls, server>>

RunIngestionPipeline ==
  /\ ~view.gone
  /\ \E f \in Active :
       /\ view.task[f].status = Pending
       /\ view' = [view EXCEPT
            !.task[f].status = 1,
            !.intervals = [g \in DOMAIN @ \cup {f} |->
                             IF g = f THEN [next |-> 1, tags |-> view.task[f].tags] ELSE @[g]]]
  /\ UNCHANGED <<calls, server>>

\* Mutant: a tick updates the task that is shown, not the one it was started for.
Tick_ShownTask(f) ==
  /\ f \in DOMAIN view.intervals
  /\ LET timer == view.intervals[f]
     IN IF timer.next <= LastStage
        THEN view' = [view EXCEPT
               !.intervals[f].next = @ + 1,
               !.task = [g \in DOMAIN @ |-> IF g = view.active THEN [@[g] EXCEPT !.status = timer.next]
                                            ELSE @[g]]]
        ELSE view' = [view EXCEPT
               !.intervals = [g \in DOMAIN @ \ {f} |-> @[g]],
               !.task = [g \in DOMAIN @ |->
                           IF g = view.active
                           THEN [@[g] EXCEPT !.status = Completed, !.entities = timer.tags]
                           ELSE @[g]]]
  /\ UNCHANGED <<calls, server>>

\* A tick of the 1.2 s interval: the next stage, and at the end what was extracted.  It goes
\* on for a task that has been removed, and changes nothing then.
Tick(f) ==
  /\ f \in DOMAIN view.intervals
  /\ LET timer == view.intervals[f]
     IN IF timer.next <= LastStage
        THEN view' = [view EXCEPT
               !.intervals[f].next = @ + 1,
               !.task = [g \in DOMAIN @ |-> IF g = f THEN [@[g] EXCEPT !.status = timer.next]
                                            ELSE @[g]]]
        ELSE view' = [view EXCEPT
               !.intervals = [g \in DOMAIN @ \ {f} |-> @[g]],
               !.task = [g \in DOMAIN @ |->
                           IF g = f
                           THEN [@[g] EXCEPT !.status = Completed, !.entities = timer.tags]
                           ELSE @[g]]]
  /\ UNCHANGED <<calls, server>>

\* removeTask, called with the queue and the active task of the caller's render.  A file is
\* queued once, so filtering takes out its one place.
Removed(v, f, queue, active) ==
  LET remaining == Without(queue, f)
  IN [v EXCEPT !.queue = Without(@, f),
               !.task = [g \in DOMAIN @ \ {f} |-> @[g]],
               !.active = IF active = f
                          THEN (IF remaining = <<>> THEN None ELSE remaining[1]) ELSE @]

RemoveTask(f) ==
  /\ ~view.gone /\ Queued(f)
  /\ view' = Removed(view, f, view.queue, view.active)
  /\ UNCHANGED <<calls, server>>

\* handleEntityChange
EditEntity ==
  /\ ~view.gone
  /\ \E f \in Active :
       /\ view.task[f].entities # None
       /\ view' = [view EXCEPT !.task[f].entities = 1 - @]
  /\ UNCHANGED <<calls, server>>

\* handleApproveExtraction, offered once something is extracted, and again while it runs.
Approve ==
  /\ ~view.gone
  /\ Len(calls) < MaxCalls /\ Len(server) < MaxStored
  /\ \E f \in Active :
       /\ view.task[f].entities # None
       /\ calls' = Append(calls, [op |-> "upload-url", file |-> f,
                                  entities |-> view.task[f].entities,
                                  queue |-> view.queue, active |-> view.active])
  /\ UNCHANGED <<view, server>>

UploadUrl ==
  /\ calls # <<>>
  /\ Head(calls).op = "upload-url"
  /\ calls' = Append(Tail(calls), [Head(calls) EXCEPT !.op = "store"])
  /\ UNCHANGED <<view, server>>

\* POST /documents stores what the click saw; the task goes, and the screen with the last one.
Stored ==
  /\ calls # <<>>
  /\ LET call == Head(calls)
     IN /\ call.op = "store"
        /\ server' = Append(server, [file |-> call.file, entities |-> call.entities])
        /\ view' = [Removed(view, call.file, call.queue, call.active) EXCEPT
                      !.gone = @ \/ Len(call.queue) <= 1]
  /\ calls' = Tail(calls)

ApproveFails ==
  /\ calls # <<>>
  /\ calls' = Tail(calls)
  /\ UNCHANGED <<view, server>>

Next ==
  \/ \E f \in Files : HandleFileDrop(f) \/ Select(f) \/ Tick(f) \/ RemoveTask(f)
  \/ UpdateTaskMetadata \/ RunIngestionPipeline \/ EditEntity
  \/ Approve \/ UploadUrl \/ Stored \/ ApproveFails

Spec == Init /\ [][Next]_vars

-----------------------------------------------------------------------------
TypeOK ==
  /\ Elements(view.queue) = DOMAIN view.task /\ DOMAIN view.task \subseteq Files
  /\ view.active \in Files \cup {None}
  /\ \A f \in DOMAIN view.task : view.task[f].status \in 0 .. Completed
  /\ \A f \in DOMAIN view.intervals : view.intervals[f].next \in 1 .. Completed

\* The pipeline of a file is under way.
Running(f) == f \in DOMAIN view.task /\ view.task[f].status \in 1 .. LastStage

\* The bar of a file moves on by one stage at a time and never back, whatever other pipelines
\* are running.
MovesForward ==
  \A f \in DOMAIN view.task \cap DOMAIN view'.task :
    view'.task[f].status \in view.task[f].status .. view.task[f].status + 1
=============================================================================
