-------------------------- MODULE MaintenanceDesk --------------------------
(***************************************************************************)
(* The other tabs of the maintenance screens in demo mode: root cause      *)
(* analysis (RcaWorkspace.tsx, FailuresRegistry.tsx), risk predictions     *)
(* (RiskPredictions.tsx) and the preventive schedule (PmScheduling.tsx).   *)
(* The hub's lists and localStorage change together (WorkOrderBoard), so   *)
(* one copy stands for both; hooks of a tab start again when it is left.   *)
(***************************************************************************)
EXTENDS Integers, FiniteSets

CONSTANTS
  Failures,      \* failure records
  Actions,       \* corrective actions of an analysis
  Predictions,   \* risk predictions
  Jobs,          \* scheduled maintenance jobs
  Dates,         \* dates of the calendar
  Proposed,      \* the date the optimisation gives a job, None for a job it leaves
  MaxOrders,     \* bound: orders one action or prediction raises
  MaxTimers,     \* bound: optimisations under way
  None

DeskAssumption ==
  /\ Proposed \in [Jobs -> Dates \cup {None}]
  /\ {MaxOrders, MaxTimers} \subseteq Nat
  /\ None \notin Failures \cup Predictions \cup Jobs \cup Dates
  /\ (Failures \X Actions) \cap Predictions = {}

VARIABLES
  view,          \* the state hooks of the tab
  calls,         \* optimisations under way: the schedule of the click, and whether the tab
                 \* they were started on is still there
  server         \* localStorage

vars == <<view, calls, server>>

Tabs == {"failures", "predictions", "schedule"}
Sources == (Failures \X Actions) \cup Predictions

\* rca: the failure under analysis and the actions converted since it was opened.
Tab(tab, role) ==
  [tab |-> tab, role |-> role, rca |-> None, converted |-> {}, confirming |-> FALSE,
   snoozing |-> None, dismissing |-> None, selected |-> None, date |-> None, optimize |-> "idle"]

\* orders: how many work orders a source has raised.
Init ==
  /\ \E r \in {"Planner", "Technician"} : view = Tab("failures", r)
  /\ calls = {}
  /\ \E d \in Dates :
       server = [published |-> {}, predictions |-> [p \in Predictions |-> "active"],
                 schedule |-> [j \in Jobs |-> d], orders |-> [s \in Sources |-> 0]]

\* The tabs are drawn while no analysis is open.
Switch(tab) ==
  /\ view.rca = None /\ tab # view.tab
  /\ view' = Tab(tab, view.role)
  /\ calls' = {[c EXCEPT !.mine = FALSE] : c \in calls}
  /\ UNCHANGED server

-----------------------------------------------------------------------------
(* Root cause analysis: the study is a copy that nothing stores. *)

StartRca(f) ==
  /\ view.tab = "failures" /\ view.rca = None
  /\ view' = [view EXCEPT !.rca = f]
  /\ UNCHANGED <<calls, server>>

LeaveRca ==
  /\ view.rca # None
  /\ view' = Tab("failures", view.role)
  /\ UNCHANGED <<calls, server>>

ConvertToWorkOrder(a) ==
  /\ view.rca # None /\ a \notin view.converted
  /\ server.orders[<<view.rca, a>>] < MaxOrders
  /\ server' = [server EXCEPT !.orders[<<view.rca, a>>] = @ + 1]
  /\ view' = [view EXCEPT !.converted = @ \cup {a}]
  /\ UNCHANGED calls

AskToPublish ==
  /\ view.rca # None /\ view.rca \notin server.published
  /\ view' = [view EXCEPT !.confirming = ~@]
  /\ UNCHANGED <<calls, server>>

PublishRca ==
  /\ view.confirming
  /\ server' = [server EXCEPT !.published = @ \cup {view.rca}]
  /\ view' = [view EXCEPT !.confirming = FALSE]
  /\ UNCHANGED calls

-----------------------------------------------------------------------------
(* Risk predictions *)

Active(p) == view.tab = "predictions" /\ server.predictions[p] = "active"

\* One of the two menus is open, for one prediction.
OpenSnooze(p) ==
  /\ Active(p)
  /\ view' = [view EXCEPT !.dismissing = None, !.snoozing = IF @ = p THEN None ELSE p]
  /\ UNCHANGED <<calls, server>>

OpenDismiss(p) ==
  /\ Active(p)
  /\ view' = [view EXCEPT !.snoozing = None, !.dismissing = IF @ = p THEN None ELSE p]
  /\ UNCHANGED <<calls, server>>

Snooze(p) ==
  /\ Active(p) /\ view.snoozing = p
  /\ server' = [server EXCEPT !.predictions[p] = "snoozed"]
  /\ view' = [view EXCEPT !.snoozing = None]
  /\ UNCHANGED calls

Dismiss(p) ==
  /\ Active(p) /\ view.dismissing = p
  /\ server' = [server EXCEPT !.predictions[p] = "dismissed"]
  /\ view' = [view EXCEPT !.dismissing = None]
  /\ UNCHANGED calls

\* The order is raised and the prediction is out of reach.
AcceptPrediction(p) ==
  /\ Active(p)
  /\ server.orders[p] < MaxOrders
  /\ server' = [server EXCEPT !.orders[p] = @ + 1, !.predictions[p] = "accepted"]
  /\ UNCHANGED <<view, calls>>

-----------------------------------------------------------------------------
(* The schedule *)

OnSchedule == view.tab = "schedule"

SelectEvent(j) ==
  /\ OnSchedule
  /\ view' = [view EXCEPT !.selected = j]
  /\ UNCHANGED <<calls, server>>

\* The date stays in its field when another job is selected.
PickDate(d) ==
  /\ OnSchedule /\ view.selected # None
  /\ view' = [view EXCEPT !.date = d]
  /\ UNCHANGED <<calls, server>>

\* A weekend or a busy crew is a warning only.
Reschedule ==
  /\ OnSchedule /\ view.selected # None /\ view.date # None
  /\ view.role = "Planner"
  /\ server' = [server EXCEPT !.schedule[view.selected] = view.date]
  /\ UNCHANGED <<view, calls>>

\* The timeout holds the schedule of the click; the tab may be left meanwhile.
Optimize ==
  /\ OnSchedule /\ view.optimize = "idle"
  /\ Cardinality(calls) < MaxTimers
  /\ view' = [view EXCEPT !.optimize = "loading"]
  /\ calls' = calls \cup {[schedule |-> server.schedule, mine |-> TRUE]}
  /\ UNCHANGED server

\* Every job gets the date proposed or else the one it had at the click.
Optimized(c) ==
  /\ c \in calls
  /\ calls' = calls \ {c}
  /\ server' = [server EXCEPT !.schedule =
       [j \in Jobs |-> IF Proposed[j] = None THEN c.schedule[j] ELSE Proposed[j]]]
  /\ view' = [view EXCEPT !.optimize = IF c.mine THEN "applied" ELSE @]

Next ==
  \/ \E tab \in Tabs : Switch(tab)
  \/ \E f \in Failures : StartRca(f)
  \/ \E a \in Actions : ConvertToWorkOrder(a)
  \/ LeaveRca \/ AskToPublish \/ PublishRca
  \/ \E p \in Predictions :
       OpenSnooze(p) \/ OpenDismiss(p) \/ Snooze(p) \/ Dismiss(p) \/ AcceptPrediction(p)
  \/ \E j \in Jobs : SelectEvent(j)
  \/ \E d \in Dates : PickDate(d)
  \/ Reschedule \/ Optimize \/ \E c \in calls : Optimized(c)

Spec == Init /\ [][Next]_vars

-----------------------------------------------------------------------------
Hooks ==
  [tab : Tabs, role : {"Planner", "Technician"}, rca : Failures \cup {None},
   converted : SUBSET Actions, confirming : BOOLEAN,
   snoozing : Predictions \cup {None}, dismissing : Predictions \cup {None},
   selected : Jobs \cup {None}, date : Dates \cup {None},
   optimize : {"idle", "loading", "applied"}]

Stored ==
  [published : SUBSET Failures,
   predictions : [Predictions -> {"active", "snoozed", "dismissed", "accepted"}],
   schedule : [Jobs -> Dates], orders : [Sources -> 0 .. MaxOrders]]

Timeouts == [schedule : [Jobs -> Dates], mine : BOOLEAN]

TypeOK ==
  /\ view \in Hooks /\ (view.confirming => view.rca # None)
  /\ server \in Stored
  /\ calls \subseteq Timeouts

\* A prediction raises exactly one work order if it is accepted and none otherwise,
\* however often its menus are used and the tab is left and entered again.
OneOrderPerPrediction ==
  \A p \in Predictions : server.orders[p] = IF server.predictions[p] = "accepted" THEN 1 ELSE 0

\* While the button of the optimisation spins, its timeout is still to come: leaving
\* the tab and coming back neither strands the button nor lets an old timeout stop it.
SpinnerHasTimer == view.optimize = "loading" <=> \E c \in calls : c.mine
=============================================================================
