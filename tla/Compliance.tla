----------------------------- MODULE Compliance -----------------------------
(***************************************************************************)
(* Compliance on the built-in server (components/views/compliance): the    *)
(* hub and its tabs, the registry with its imports and mappings, the gaps  *)
(* and their remediation, the evidence packages.  An import and a          *)
(* compilation are intervals that hold the lists of the moment they were   *)
(* started; nothing clears them when their panel is cancelled or left.     *)
(***************************************************************************)
EXTENDS Integers, FiniteSets

CONSTANTS
  Gaps,          \* compliance gaps
  Drilled,       \* those a click on the heatmap filters for
  Imports,       \* ids of imported regulations
  Packages,      \* ids of evidence packages
  Decisions,     \* what a mapping can be changed to
  Filters,       \* statuses the list is filtered for
  MaxOrders,     \* bound: remediation orders of a gap
  MaxTimers,     \* bound: intervals under way
  None

ComplianceAssumption ==
  /\ Drilled \subseteq Gaps /\ {MaxOrders, MaxTimers} \subseteq Nat
  /\ "Proposed" \notin Decisions /\ Filters \subseteq {"Open", "Remediating", "Risk Accepted"}
  /\ None \notin Gaps \cup Imports \cup Packages \cup Decisions \cup {"own", "Proposed"}

VARIABLES
  view,          \* hooks of the hub and of the panel that is shown
  calls,         \* intervals under way
  server         \* localStorage: regulations, gaps, packages, and work orders of gaps

vars == <<view, calls, server>>

Tabs == {"overview", "regulations", "gaps", "audits"}
Statuses == {"Open", "Remediating", "Risk Accepted"}

\* A regulation is the status of its mapping; "own" stands for those shipped with the code.
Own == [r \in {"own"} |-> "Proposed"]
OpenGaps == [g \in Gaps |-> "Open"]
Stored == [regs |-> Own, gaps |-> OpenGaps, packages |-> {}, orders |-> [g \in Gaps |-> 0]]

\* Hooks of the four panels.  importStep: 0, or 1 and 2 in the importer; clause: the
\* regulation of the selected clause and the mapping status drawn with it; form: the one open
\* over a gap; wizard: 0 when closed.
Panel ==
  [acknowledged |-> FALSE, importing |-> FALSE, importStep |-> 0, clause |-> None,
   filter |-> "All", form |-> None, typed |-> FALSE, wizard |-> 0, latest |-> None]

Hub(stored) ==
  [tab |-> "overview", reg |-> None, gap |-> None, drill |-> FALSE, panel |-> Panel,
   regs |-> stored.regs, gaps |-> stored.gaps, packages |-> stored.packages]

Init ==
  /\ view = Hub(Stored)
  /\ calls = {}
  /\ server = Stored

\* parseHashRoute: another tab has a panel with hooks of its own.  Intervals go on, but what
\* they set in the hooks of a panel that is gone has no effect.
Route(tab, reg, gap, v) ==
  /\ view' = [v EXCEPT !.tab = tab, !.reg = reg, !.gap = gap,
                       !.panel = IF tab = v.tab THEN @ ELSE Panel]
  /\ calls' = IF tab = view.tab THEN calls
              ELSE {[c EXCEPT !.of = IF @ = "panel" THEN "hub" ELSE @] : c \in calls}
  /\ UNCHANGED server

\* The tabs are drawn on the lists; an address may be typed or followed at any time.
SwitchTab(t) ==
  /\ view.reg = None /\ view.gap = None
  /\ Route(t, None, None, IF t = "overview" THEN [view EXCEPT !.drill = FALSE] ELSE view)

OpenRegulation(r) == r # view.reg /\ Route("regulations", r, None, view)
OpenGap(g) == g # view.gap /\ Route("gaps", None, g, view)

\* Another screen is shown and this one again.
Reopen ==
  /\ view' = Hub(server)
  /\ calls' = {[c EXCEPT !.of = "gone"] : c \in calls}
  /\ UNCHANGED server

Hooks(panel) == view' = [view EXCEPT !.panel = panel]
Local(panel) == Hooks(panel) /\ UNCHANGED <<calls, server>>

-----------------------------------------------------------------------------
(* Overview *)

HandleHeatmapDrilldown(drill) ==
  /\ view.tab = "overview"
  /\ Route("gaps", None, None, [view EXCEPT !.drill = drill])

HandleAcknowledgeAlert ==
  /\ view.tab = "overview" /\ ~view.panel.acknowledged
  /\ Local([view.panel EXCEPT !.acknowledged = TRUE])

-----------------------------------------------------------------------------
(* Regulations *)

HandleStartImport ==
  /\ view.tab = "regulations" /\ view.reg = None
  /\ Local([view.panel EXCEPT !.importing = TRUE, !.importStep = 1])

\* The button only hides the importer.
CancelImport ==
  /\ view.panel.importing
  /\ Local([view.panel EXCEPT !.importing = FALSE])

HandleExecuteImport ==
  /\ view.panel.importing /\ view.panel.importStep = 1
  /\ Cardinality(calls) < MaxTimers
  /\ \E r \in Imports :
       /\ r \notin DOMAIN server.regs
       /\ \A c \in calls : c.id # r
       /\ calls' = calls \cup {[op |-> "import", id |-> r, held |-> view.regs, of |-> "panel"]}
  /\ Hooks([view.panel EXCEPT !.importStep = 2])
  /\ UNCHANGED server

With(regs, r) == [k \in DOMAIN regs \cup {r} |-> IF k = r THEN "Confirmed" ELSE regs[k]]

\* The last stage: the list it was started with and the new regulation become the registry,
\* and the address names the new one, wherever its reader is by now.
Imported(c) ==
  /\ c.op = "import"
  /\ LET regs == With(c.held, c.id)
         v == [view EXCEPT !.regs = IF c.of = "gone" THEN @ ELSE regs]
         shown == [v EXCEPT !.tab = "regulations", !.reg = c.id, !.gap = None]
     IN  /\ server' = [server EXCEPT !.regs = regs]
         /\ view' = CASE c.of = "panel" ->
                           [shown EXCEPT !.panel.importing = FALSE, !.panel.importStep = 0,
                                         !.panel.clause = [reg |-> c.id, status |-> "Confirmed"]]
                      [] c.of # "panel" /\ v.tab = "regulations" -> shown
                      [] OTHER -> [shown EXCEPT !.panel = Panel]
         /\ calls' = {[d EXCEPT !.of = IF @ = "panel" /\ view.tab # "regulations" THEN "hub" ELSE @] :
                        d \in calls \ {c}}

\* The row's button and a node of the tree: both keep a copy of the clause.
SelectClause(r) ==
  /\ view.tab = "regulations" /\ r \in DOMAIN view.regs
  /\ view.reg \in {None, r}
  /\ view' = [view EXCEPT !.reg = r, !.panel.clause = [reg |-> r, status |-> view.regs[r]]]
  /\ UNCHANGED <<calls, server>>

LeaveRegulation ==
  /\ view.tab = "regulations" /\ view.reg # None
  /\ view' = [view EXCEPT !.reg = None, !.panel.clause = None]
  /\ UNCHANGED <<calls, server>>

\* What the clause's copy offers: a decision, or to take one back.
Offered == IF view.panel.clause.status = "Proposed" THEN Decisions ELSE {"Proposed"}

\* Only a mapping of the regulation that is open is changed.
HandleUpdateMappingStatus(s) ==
  /\ view.tab = "regulations" /\ view.reg \in DOMAIN view.regs
  /\ view.panel.clause # None /\ s \in Offered
  /\ LET mine == view.panel.clause.reg = view.reg
         regs == IF mine THEN [view.regs EXCEPT ![view.reg] = s] ELSE view.regs
     IN  /\ view' = [view EXCEPT !.regs = regs,
                                 !.panel.clause.status = IF mine THEN s ELSE @]
         /\ server' = [server EXCEPT !.regs = regs]
  /\ UNCHANGED calls

-----------------------------------------------------------------------------
(* Gaps *)

Detail == view.tab = "gaps" /\ view.gap \in Gaps

FilterStatus(s) ==
  /\ view.tab = "gaps" /\ view.gap = None /\ view.panel.filter # s
  /\ Local([view.panel EXCEPT !.filter = s])

\* filteredGaps: the drill's filter stays until the overview's tab is chosen.
FilteredGaps ==
  {g \in IF view.drill THEN Drilled ELSE Gaps : view.panel.filter \in {"All", view.gaps[g]}}

OpenRow(g) ==
  /\ view.tab = "gaps" /\ view.gap = None /\ g \in FilteredGaps
  /\ OpenGap(g)

LeaveGap == Detail /\ Route("gaps", None, None, view)

\* handleUpdateGaps
UpdateGap(status, panel) ==
  LET gaps == [view.gaps EXCEPT ![view.gap] = status]
  IN  /\ view' = [view EXCEPT !.gaps = gaps, !.panel = panel]
      /\ server' = [server EXCEPT !.gaps = gaps]

\* The order goes straight to what the maintenance screen stores.
HandleCreateRemediation ==
  /\ Detail /\ view.gaps[view.gap] # "Remediating"
  /\ server.orders[view.gap] < MaxOrders
  /\ LET gaps == [view.gaps EXCEPT ![view.gap] = "Remediating"]
     IN  /\ view' = [view EXCEPT !.gaps = gaps]
         /\ server' = [server EXCEPT !.gaps = gaps, !.orders[view.gap] = @ + 1]
  /\ UNCHANGED calls

\* One of the two forms at a time; what was typed stays for the next gap.
ToggleForm(form) ==
  /\ Detail
  /\ Local([view.panel EXCEPT !.form = IF @ = form THEN None ELSE form])

Type == Detail /\ view.panel.form # None /\ Local([view.panel EXCEPT !.typed = TRUE])

HandleAcceptRiskSubmit ==
  /\ Detail /\ view.panel.form = "risk" /\ view.panel.typed
  /\ UpdateGap("Risk Accepted", [view.panel EXCEPT !.form = None, !.typed = FALSE])
  /\ UNCHANGED calls

HandleAssignOwnerSubmit ==
  /\ Detail /\ view.panel.form = "assign"
  /\ UpdateGap(view.gaps[view.gap], [view.panel EXCEPT !.form = None])
  /\ UNCHANGED calls

-----------------------------------------------------------------------------
(* Audits and evidence *)

HandleStartCompilation ==
  /\ view.tab = "audits" /\ view.panel.wizard = 0
  /\ Local([view.panel EXCEPT !.wizard = 1])

CloseWizard ==
  /\ view.panel.wizard # 0
  /\ Local([view.panel EXCEPT !.wizard = 0])

HandleRunCompilation ==
  /\ view.panel.wizard = 1
  /\ Cardinality(calls) < MaxTimers
  /\ \E p \in Packages :
       /\ p \notin server.packages
       /\ \A c \in calls : c.id # p
       /\ calls' = calls \cup {[op |-> "compile", id |-> p, held |-> view.packages, of |-> "panel"]}
  /\ Hooks([view.panel EXCEPT !.wizard = 2])
  /\ UNCHANGED server

\* The packages held and the new one become the list.  A closed wizard is only closed: the
\* step it will open at is the third.
Compiled(c) ==
  /\ c.op = "compile"
  /\ LET packages == c.held \cup {c.id}
         panel == [view.panel EXCEPT !.latest = c.id, !.wizard = IF @ = 0 THEN 0 ELSE 3]
     IN  /\ server' = [server EXCEPT !.packages = packages]
         /\ view' = [view EXCEPT !.packages = IF c.of = "gone" THEN @ ELSE packages,
                                 !.panel = IF c.of # "panel" THEN @ ELSE panel]
  /\ calls' = calls \ {c}

Next ==
  \/ \E t \in Tabs : SwitchTab(t)
  \/ \E r \in {"own"} \cup Imports : OpenRegulation(r) \/ SelectClause(r)
  \/ \E g \in Gaps : OpenGap(g) \/ OpenRow(g)
  \/ Reopen
  \/ \E drill \in BOOLEAN : HandleHeatmapDrilldown(drill)
  \/ HandleAcknowledgeAlert
  \/ HandleStartImport \/ CancelImport \/ HandleExecuteImport \/ LeaveRegulation
  \/ \E s \in Decisions \cup {"Proposed"} : HandleUpdateMappingStatus(s)
  \/ \E s \in Filters \cup {"All"} : FilterStatus(s)
  \/ LeaveGap \/ HandleCreateRemediation \/ Type
  \/ \E form \in {"risk", "assign"} : ToggleForm(form)
  \/ HandleAcceptRiskSubmit \/ HandleAssignOwnerSubmit
  \/ HandleStartCompilation \/ CloseWizard \/ HandleRunCompilation
  \/ \E c \in calls : Imported(c) \/ Compiled(c)

Spec == Init /\ [][Next]_vars

-----------------------------------------------------------------------------
TypeOK ==
  /\ view.tab \in Tabs /\ view.gap \in Gaps \cup {None}
  /\ view.reg \in Imports \cup {"own", None}
  /\ {view.gaps, server.gaps} \subseteq [Gaps -> Statuses]
  /\ server.packages \subseteq Packages
  /\ \A c \in calls : c.of \in {"panel", "hub", "gone"}

\* A gap stored as being remediated has a work order on the maintenance screen, however often
\* its risk was accepted in between and whichever lists the intervals wrote back.
RemediationDispatched ==
  \A g \in Gaps : server.gaps[g] = "Remediating" => server.orders[g] > 0

\* A panel that shows an import or a compilation under way has the interval that will end it,
\* though intervals are neither stopped with their panel nor told apart by it.
WizardsEnd ==
  /\ view.panel.importing /\ view.panel.importStep = 2
       => \E c \in calls : c.op = "import" /\ c.of = "panel"
  /\ view.panel.wizard = 2 => \E c \in calls : c.op = "compile" /\ c.of = "panel"
=============================================================================
