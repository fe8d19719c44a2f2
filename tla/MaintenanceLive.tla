-------------------------- MODULE MaintenanceLive --------------------------
(***************************************************************************)
(* Work orders on the maintenance screens against the backend: the lists   *)
(* loaded once, the details of an order loaded when it is first opened,    *)
(* and edits shown at once and then reconciled (MaintenanceHub.tsx,        *)
(* live.ts).  Each edit sends its own calls one after the other; calls of  *)
(* different edits and other users' requests overlap.  The backend compares *)
(* the version of a call with the order it has read, without a lock, and   *)
(* writes afterwards (maintenance/service.py).                             *)
(***************************************************************************)
EXTENDS Integers, FiniteSets

CONSTANTS
  Orders,        \* the work orders the backend has when the screen loads
  Draft,         \* the work order raised on this screen
  MaxEdits,      \* bound: edits on this screen
  MaxOthers,     \* bound: edits of an order by other users
  MaxCalls       \* bound: syncs in flight

LiveAssumption ==
  /\ Draft \notin Orders
  /\ {MaxEdits, MaxOthers, MaxCalls} \subseteq Nat

VARIABLES
  view,          \* the state hooks
  calls,         \* syncs in flight, each with its next call
  server         \* the work orders of the backend

vars == <<view, calls, server>>

Ids == Orders \cup {Draft}
Moves == {"open", "in_progress"}

\* mine, theirs: the edits of this screen and of others its fields hold.  checklist:
\* whether its items and parts are there.  overlapped: history, a request has written the
\* order that had read an older version.
Stored == [mine |-> 0, theirs |-> 0, assigned |-> FALSE, status |-> "open", version |-> 1,
           checklist |-> TRUE, overlapped |-> FALSE]

\* An order the screen made up: it has no identity of the backend, so no version.
Local == [Stored EXCEPT !.version = 0]

\* adaptWorkOrder: a row of the list comes without checklist and parts.
Row(order, detail) == [order EXCEPT !.checklist = detail /\ @, !.overlapped = FALSE]

\* The draft is put before the rows.
With(order, rows) ==
  [o \in DOMAIN rows \cup {Draft} |-> IF o = Draft THEN order ELSE rows[o]]

Init ==
  /\ view = [loading |-> TRUE, rows |-> [o \in {} |-> Stored], detailed |-> {}, edits |-> 0]
  /\ calls = {}
  /\ server = [o \in Orders |-> Stored]

\* loadMaintenanceData: failed lists come back empty.
Loaded ==
  /\ view.loading
  /\ \E answered \in {Orders, {}} :
       view' = [view EXCEPT !.loading = FALSE, !.rows = [o \in answered |-> Row(server[o], FALSE)]]
  /\ UNCHANGED <<calls, server>>

Send(call) == calls' = calls \cup {call}

Shown == DOMAIN view.rows

\* The address names an order; its details are asked for once.
Open(o) ==
  /\ o \in Shown
  /\ o \notin view.detailed
  /\ view.rows[o].version # 0
  /\ Cardinality(calls) < MaxCalls
  /\ view' = [view EXCEPT !.detailed = @ \cup {o}]
  /\ Send([op |-> "detail", order |-> o])
  /\ UNCHANGED server

\* The row becomes what the backend has, whatever was edited meanwhile.
DetailAnswered(c) ==
  /\ c \in calls /\ c.op = "detail"
  /\ calls' = calls \ {c}
  /\ \/ view' = [view EXCEPT !.rows[c.order] = Row(server[c.order], TRUE)]
     \/ UNCHANGED view
  /\ UNCHANGED server

\* handleUpdateWorkOrders for one edited row: the screen changes at once, the row keeps
\* the version it was loaded with, and syncWorkOrderEdit starts unless the backend does
\* not know the row.
Edit(o, row) ==
  /\ view.edits < MaxEdits
  /\ Cardinality(calls) < MaxCalls
  /\ view' = [view EXCEPT !.rows[o] = row, !.edits = @ + 1]
  /\ IF row.version = 0
     THEN UNCHANGED calls
     ELSE Send([op |-> IF row.assigned # view.rows[o].assigned THEN "assign" ELSE "patch",
                order |-> o, row |-> row, version |-> row.version,
                moved |-> row.status # view.rows[o].status, read |-> {}])
  /\ UNCHANGED server

EditFields(o) ==
  /\ o \in Shown
  /\ Edit(o, [view.rows[o] EXCEPT !.mine = @ + 1])

Assign(o) ==
  /\ o \in Shown
  /\ ~view.rows[o].assigned
  /\ Edit(o, [view.rows[o] EXCEPT !.assigned = TRUE])

Move(o, status) ==
  /\ o \in Shown
  /\ view.rows[o].status # status
  /\ Edit(o, [view.rows[o] EXCEPT !.status = status])

Syncs == {"assign", "patch", "move"}

\* Mutant: the version is not compared.
Checked_Unversioned(c) ==
  /\ c \in calls /\ c.op \in Syncs /\ c.read = {}
  /\ c.op = "move" => server[c.order].status = "open" /\ c.row.status = "in_progress"
  /\ calls' = (calls \ {c}) \cup {[c EXCEPT !.read = {server[c.order]}]}
  /\ UNCHANGED <<view, server>>

\* A handler has read the order: it refuses another version than the call's, and a
\* transition that is none.
Checked(c) ==
  /\ c \in calls /\ c.op \in Syncs /\ c.read = {}
  /\ c.version = server[c.order].version
  /\ c.op = "move" => server[c.order].status = "open" /\ c.row.status = "in_progress"
  /\ calls' = (calls \ {c}) \cup {[c EXCEPT !.read = {server[c.order]}]}
  /\ UNCHANGED <<view, server>>

\* What the handlers make of the order they have read.  A PATCH brings every field of the
\* row, also when only the status was moved.
Assigned(read, row) == [read EXCEPT !.assigned = row.assigned]
Patched(read, row) == [read EXCEPT !.mine = row.mine, !.theirs = row.theirs, !.checklist = row.checklist]
Transitioned(read, row) == [read EXCEPT !.status = row.status]

\* The flush names the columns that were changed, and the next version of the one read.
Flush(o, read, new) ==
  LET old == server[o]
      Column(f) == IF new[f] = read[f] THEN old[f] ELSE new[f]
  IN server' = [server EXCEPT ![o] =
       [mine |-> Column("mine"), theirs |-> Column("theirs"), assigned |-> Column("assigned"),
        status |-> Column("status"), version |-> read.version + 1, checklist |-> Column("checklist"),
        overlapped |-> old.overlapped \/ old.version # read.version]]

\* syncWorkOrderEdit: assignment, fields, status, each with the version of the answer before.
FollowUp(c) ==
  {op \in {"patch", "move"} : IF op = "patch" THEN c.op = "assign" ELSE c.op = "patch" /\ c.moved}
NextCall(c, op, version) == [c EXCEPT !.op = op, !.version = version, !.read = {}]

Written(c) ==
  /\ c \in calls /\ c.op \in Syncs
  /\ \E read \in c.read :
       /\ Flush(c.order, read, CASE c.op = "assign" -> Assigned(read, c.row)
                                 [] c.op = "patch" -> Patched(read, c.row)
                                 [] c.op = "move" -> Transitioned(read, c.row))
       /\ calls' = (calls \ {c}) \cup
                     {NextCall(c, op, read.version + 1) : op \in FollowUp(c)}
  /\ UNCHANGED view

\* A call of a sync is refused or lost: the rest of the sync is given up, the screen
\* is not told.
SyncFails(c) ==
  /\ c \in calls /\ c.op \in Syncs
  /\ calls' = calls \ {c}
  /\ UNCHANGED <<view, server>>

\* A bound: the screen raises one order, by one of its two ways.
NoDraft ==
  Draft \notin Shown \cup DOMAIN server /\ \A c \in calls : c.op \notin {"create", "add"}

\* handleAddWorkOrderDirect, for the actions of an RCA or a prediction
AddDirect ==
  /\ ~view.loading
  /\ NoDraft
  /\ Cardinality(calls) < MaxCalls
  /\ view' = [view EXCEPT !.rows = With(Local, @)]
  /\ Send([op |-> "create", rows |-> view'.rows])
  /\ UNCHANGED server

\* handleAddWorkOrderManual shows the order when the backend has answered.
AddManual ==
  /\ ~view.loading
  /\ NoDraft
  /\ Cardinality(calls) < MaxCalls
  /\ Send([op |-> "add"])
  /\ UNCHANGED <<view, server>>

\* The order has an identity: the rows of the time it was raised come back with it.
Created(c) ==
  /\ c \in calls /\ c.op \in {"create", "add"}
  /\ Draft \notin DOMAIN server
  /\ calls' = calls \ {c}
  /\ server' = With(Stored, server)
  /\ view' = IF c.op = "create"
             THEN [view EXCEPT !.rows = With(Stored, c.rows)]
             ELSE [view EXCEPT !.rows = With(Stored, @)]

\* The row stays on the screen, unknown to the backend.
CreateFails(c) ==
  /\ c \in calls /\ c.op \in {"create", "add"}
  /\ calls' = calls \ {c}
  /\ view' = IF c.op = "create" THEN view
             ELSE [view EXCEPT !.rows = With(Local, @)]
  /\ UNCHANGED server

\* Another user edits the version that is stored: read, and written later.  A bound: one at
\* a time.
OtherReads(o) ==
  /\ o \in DOMAIN server
  /\ server[o].theirs < MaxOthers
  /\ \A c \in calls : c.op # "other"
  /\ Send([op |-> "other", order |-> o, read |-> {server[o]}])
  /\ UNCHANGED <<view, server>>

OtherWrites(c) ==
  /\ c \in calls /\ c.op = "other"
  /\ \E read \in c.read : Flush(c.order, read, [read EXCEPT !.theirs = @ + 1])
  /\ calls' = calls \ {c}
  /\ UNCHANGED view

Next ==
  \/ Loaded \/ AddDirect \/ AddManual
  \/ \E o \in Ids : Open(o) \/ EditFields(o) \/ Assign(o) \/ OtherReads(o) \/ \E s \in Moves : Move(o, s)
  \/ \E c \in calls : DetailAnswered(c) \/ Checked(c) \/ Written(c) \/ SyncFails(c) \/ OtherWrites(c)
                       \/ Created(c) \/ CreateFails(c)

Spec == Init /\ [][Next]_vars

-----------------------------------------------------------------------------
TypeOK ==
  LET Order == [mine : 0 .. MaxEdits, theirs : 0 .. MaxOthers, assigned : BOOLEAN, status : Moves,
                version : Nat, checklist : BOOLEAN, overlapped : BOOLEAN]
  IN /\ Orders \subseteq DOMAIN server /\ DOMAIN server \subseteq Ids
     /\ \A o \in DOMAIN server : server[o] \in Order
     /\ \A o \in Shown : o \in Ids /\ view.rows[o] \in Order
     /\ view.detailed \subseteq DOMAIN server
     /\ \A c \in calls : c.op \in Syncs \cup {"detail", "create", "add", "other"}

\* Although an edit sends every field of a row that may have been loaded long ago, and an
\* edit may be three requests, it never takes back what another user has stored since; only
\* on an order of which two requests have overlapped it may, since versions then say nothing.
OthersEditsStay ==
  \A o \in DOMAIN server : server'[o].overlapped \/ server'[o].theirs >= server[o].theirs

\* A sync only sends what was changed: nobody edits a checklist here, so every order
\* keeps its checklist and its parts.
ChecklistKept == \A o \in DOMAIN server : server[o].checklist
=============================================================================
