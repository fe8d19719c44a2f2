------------------------------ MODULE Dashboard ------------------------------
(***************************************************************************)
(* The role dashboard (RoleDashboard.tsx): tiles that fetch their data     *)
(* when they are drawn, a list of ingestion jobs that is polled, a refresh *)
(* that draws the whole page anew, and the readiness checklist with its    *)
(* sample data, loaded by a handler that waits between its steps.          *)
(***************************************************************************)
EXTENDS Integers, Sequences

CONSTANTS
  Widgets,       \* tiles and panels of the role
  MaxRefreshes,  \* bound: refreshes and reloads
  MaxPolls,      \* bound: polls in flight
  MaxSeeds       \* bound: times sample data is loaded

DashboardAssumption == {MaxRefreshes, MaxPolls, MaxSeeds} \subseteq Nat

VARIABLES
  view,          \* the state hooks, and the handlers that load sample data
  calls,         \* calls of widgets and polls in flight
  server         \* localStorage: sample data stored, milestones stored, checklist dismissed

vars == <<view, calls, server>>

Tiles == [w \in Widgets |-> "loading"]
WidgetCalls(gen) == {[op |-> "widget", widget |-> w, gen |-> gen] : w \in Widgets}

\* gen: which drawing of the page the tiles belong to.  handlers: where each loader is.
Init ==
  /\ view = [loading |-> FALSE, gen |-> 0, tiles |-> Tiles, loadingJobs |-> TRUE, jobs |-> FALSE,
             polls |-> 1, refreshes |-> 0, complete |-> FALSE, loadingSeed |-> FALSE,
             handlers |-> [i \in 1 .. MaxSeeds |-> "idle"]]
  /\ calls = WidgetCalls(0) \cup {[op |-> "jobs", poll |-> 1]}
  /\ server = [seeded |-> FALSE, milestones |-> FALSE, dismissed |-> FALSE]

\* useWidget: the answer of a tile that is no longer drawn has no effect.
WidgetAnswered(c, ok) ==
  /\ c.op = "widget"
  /\ calls' = calls \ {c}
  /\ view' = IF c.gen = view.gen /\ ~view.loading
             THEN [view EXCEPT !.tiles[c.widget] = IF ok THEN "data" ELSE "empty"] ELSE view
  /\ UNCHANGED server

\* useIngestionJobs: every 30 seconds, kept by the page through a refresh.
PollJobs ==
  /\ view.polls < MaxPolls
  /\ view' = [view EXCEPT !.polls = @ + 1]
  /\ calls' = calls \cup {[op |-> "jobs", poll |-> view.polls + 1]}
  /\ UNCHANGED server

JobsAnswered(c, ok) ==
  /\ c.op = "jobs"
  /\ calls' = calls \ {c}
  /\ view' = [view EXCEPT !.jobs = ok, !.loadingJobs = FALSE]
  /\ UNCHANGED server

\* triggerRefresh: a skeleton for 400 ms, then tiles that fetch again.
TriggerRefresh ==
  /\ ~view.loading /\ view.refreshes < MaxRefreshes
  /\ view' = [view EXCEPT !.loading = TRUE, !.refreshes = @ + 1]
  /\ UNCHANGED <<calls, server>>

\* The tiles and the checklist are mounted again.
RefreshEnds ==
  /\ view.loading
  /\ view' = [view EXCEPT !.loading = FALSE, !.gen = @ + 1, !.tiles = Tiles,
                          !.loadingSeed = FALSE, !.complete = server.seeded \/ server.milestones]
  /\ calls' = calls \cup WidgetCalls(view.gen + 1)
  /\ UNCHANGED server

Checklist == ~view.loading /\ ~server.dismissed

HandleDismiss ==
  /\ Checklist
  /\ server' = [server EXCEPT !.dismissed = TRUE]
  /\ UNCHANGED <<view, calls>>

\* The interval of the checklist, which goes on when it is dismissed.
CheckMilestones ==
  /\ ~view.loading
  /\ view' = [view EXCEPT !.complete = server.seeded \/ server.milestones]
  /\ UNCHANGED <<calls, server>>

\* handleLoadSampleData up to its first call.
LoadSampleData(i) ==
  /\ Checklist /\ ~view.loadingSeed /\ view.handlers[i] = "idle"
  /\ view' = [view EXCEPT !.loadingSeed = TRUE, !.handlers[i] = "posting"]
  /\ UNCHANGED <<calls, server>>

\* POST /admin/seed-demo
SeedDemo(i) ==
  /\ view.handlers[i] = "posting"
  /\ server' = [server EXCEPT !.seeded = TRUE]
  /\ view' = [view EXCEPT !.handlers[i] = "seeded"]
  /\ UNCHANGED calls

\* Mutant: the milestones are stored whether the call succeeds or not.
SeedFails_MilestonesKept(i) ==
  /\ view.handlers[i] = "posting"
  /\ view' = [view EXCEPT !.handlers[i] = "idle", !.loadingSeed = FALSE]
  /\ server' = [server EXCEPT !.milestones = TRUE]
  /\ UNCHANGED calls

SeedFails(i) ==
  /\ view.handlers[i] = "posting"
  /\ view' = [view EXCEPT !.handlers[i] = "idle", !.loadingSeed = FALSE]
  /\ UNCHANGED <<calls, server>>

\* After half a second more the milestones are stored, all four at once.
StoreMilestones(i) ==
  /\ view.handlers[i] = "seeded"
  /\ server' = [server EXCEPT !.milestones = TRUE]
  /\ view' = [view EXCEPT !.handlers[i] = "reloading", !.complete = @ \/ ~view.loading]
  /\ UNCHANGED calls

Opened ==
  [view EXCEPT !.loading = FALSE, !.gen = 0, !.tiles = Tiles, !.loadingJobs = TRUE, !.jobs = FALSE,
               !.polls = 1, !.complete = server.seeded \/ server.milestones, !.loadingSeed = FALSE,
               !.handlers = [i \in 1 .. MaxSeeds |-> "idle"]]

\* window.location.reload(), by the handler at its end or by a person at any time.
Reload ==
  /\ view.refreshes < MaxRefreshes
  /\ view' = [Opened EXCEPT !.refreshes = @ + 1]
  /\ calls' = WidgetCalls(0) \cup {[op |-> "jobs", poll |-> 1]}
  /\ UNCHANGED server

Next ==
  \/ \E c \in calls, ok \in BOOLEAN : WidgetAnswered(c, ok) \/ JobsAnswered(c, ok)
  \/ PollJobs \/ TriggerRefresh \/ RefreshEnds \/ HandleDismiss \/ CheckMilestones \/ Reload
  \/ \E i \in 1 .. MaxSeeds :
       LoadSampleData(i) \/ SeedDemo(i) \/ SeedFails(i) \/ StoreMilestones(i)

Spec == Init /\ [][Next]_vars

-----------------------------------------------------------------------------
TypeOK ==
  /\ view.tiles \in [Widgets -> {"loading", "data", "empty"}]
  /\ view.handlers \in [1 .. MaxSeeds -> {"idle", "posting", "seeded", "reloading"}]
  /\ server \in [seeded : BOOLEAN, milestones : BOOLEAN, dismissed : BOOLEAN]

\* No tile that is drawn waits for an answer that will not come: refreshes and failures leave no
\* tile loading without a call of its own.
TilesSettle ==
  \A w \in Widgets :
    (~view.loading /\ view.tiles[w] = "loading")
      => [op |-> "widget", widget |-> w, gen |-> view.gen] \in calls

\* The checklist is only complete over sample data that was stored, whatever fails or is reloaded
\* between the handler's steps.
CompleteMeansSeeded == view.complete => server.seeded
=============================================================================
