------------------------------- MODULE Console -------------------------------
(***************************************************************************)
(* The screens of the web application under one router: App.tsx mounts     *)
(* the screen of the hash, inside AppShell, and a screen that is left is   *)
(* unmounted with all of its state.  A behaviour is one visit of one       *)
(* screen: what is shown (view), the requests and timers under way (calls) *)
(* and what the backend, or the screen's mock store, keeps (server).  The  *)
(* tabs of a hash that share no state, and a screen's live and demo halves,*)
(* are routes of their own.  The session and the notification socket,      *)
(* which outlive every screen, are the modules Session and Realtime.       *)
(***************************************************************************)
EXTENDS Integers

CONSTANTS
  Routes,        \* the routes that are visited
  None,
  \* Bounds that several screens share: calls in flight, timers under way, work orders
  \* raised, polls in flight, questions asked.
  MaxCalls, MaxTimers, MaxOrders, MaxPolls, MaxSends,
  \* What the shell and the home screen work on.
  Terms, Suggest, Blank, MaxRecents, TourSteps, Targets, Pages,
  Widgets, MaxRefreshes, MaxSeeds, ImportEntities, MaxRuns,
  \* Documents and the assistant.
  Vault, PageSize, DocumentFilters, Files, LastStage, MaxStored,
  Addressed, Existing, DocumentEntities, LastPage,
  Chats, MaxTokens, Seeds, MaxSessions, Nodes, Links, Found, Hideable,
  \* Maintenance.
  Items, ProcedureSteps, OrderFilters, Orders, Draft, MaxEdits, MaxOthers, MaxVersion,
  Failures, Actions, Predictions, PmJobs, Dates, Proposed, Parts, NewParts, Counts,
  \* Equipment and compliance.
  Assets, Units, UnitOf, Series, MaxReadings,
  Gaps, Drilled, Imports, Packages, Decisions, RegulationFilters, MaxRemediations,
  \* Administration and settings.
  Users, Guests, Roles, Cells, Capabilities, Prompts, Flags, Jobs, Codes, Models, Texts,
  MaxRecords, Templates, Reports, Rules, NewRule, Values, Events, Sessions,
  MaxKeys, MaxHooks, MaxDeliveries

VARIABLES
  route,         \* the screen of the hash
  view, calls, server   \* those of that screen

vars == <<route, view, calls, server>>

Wizard == INSTANCE ImportWizard WITH Entities <- ImportEntities
Palette == INSTANCE CommandPalette
Panels == INSTANCE ShellPanels WITH Steps <- TourSteps
Library == INSTANCE DocumentLibrary WITH Docs <- Vault, Filters <- DocumentFilters
Upload == INSTANCE UploadWorkspace
Detail == INSTANCE DocumentDetail WITH Docs <- Addressed, Entities <- DocumentEntities
Chat == INSTANCE Copilot
Demo == INSTANCE CopilotDemo
Home == INSTANCE Dashboard
Board == INSTANCE WorkOrderBoard WITH Steps <- ProcedureSteps, Filters <- OrderFilters
Live == INSTANCE MaintenanceLive
Desk == INSTANCE MaintenanceDesk WITH Jobs <- PmJobs
Directory == INSTANCE AdminDirectory
Forms == INSTANCE AdminForms
Keys == INSTANCE Integrations
Stock == INSTANCE SpareParts
Condition == INSTANCE ConditionTab
Registry == INSTANCE EquipmentRegistry
Asset == INSTANCE AssetPage
Regulations == INSTANCE Compliance WITH Filters <- RegulationFilters, MaxOrders <- MaxRemediations
Graph == INSTANCE KnowledgeGraph
Profile == INSTANCE ProfileSettings

ScreenNames ==
  {"import", "palette", "panels", "documents", "upload", "document",
   "copilot", "copilot-demo", "dashboard", "board", "maintenance", "planning",
   "admin", "admin-forms", "integrations", "parts", "condition", "equipment",
   "asset", "compliance", "knowledge-graph", "settings"}

ASSUME RouteAssumption == Routes \subseteq ScreenNames

ASSUME ConsoleAssumption ==
  /\ Wizard!WizardAssumption
  /\ Palette!PaletteAssumption
  /\ Panels!PanelsAssumption
  /\ Library!LibraryAssumption
  /\ Upload!UploadAssumption
  /\ Detail!DetailAssumption
  /\ Chat!CopilotAssumption
  /\ Demo!DemoAssumption
  /\ Home!DashboardAssumption
  /\ Board!BoardAssumption
  /\ Live!LiveAssumption
  /\ Desk!DeskAssumption
  /\ Directory!DirectoryAssumption
  /\ Forms!FormsAssumption
  /\ Keys!IntegrationsAssumption
  /\ Stock!PartsAssumption
  /\ Condition!ConditionAssumption
  /\ Registry!RegistryAssumption
  /\ Asset!PageAssumption
  /\ Regulations!ComplianceAssumption
  /\ Graph!GraphAssumption
  /\ Profile!ProfileAssumption

-----------------------------------------------------------------------------
\* renderActiveRoute: the screen of the hash is mounted.
Mounted ==
  \/ route = "import" /\ Wizard!Init
  \/ route = "palette" /\ Palette!Init
  \/ route = "panels" /\ Panels!Init
  \/ route = "documents" /\ Library!Init
  \/ route = "upload" /\ Upload!Init
  \/ route = "document" /\ Detail!Init
  \/ route = "copilot" /\ Chat!Init
  \/ route = "copilot-demo" /\ Demo!Init
  \/ route = "dashboard" /\ Home!Init
  \/ route = "board" /\ Board!Init /\ calls = {}
  \/ route = "maintenance" /\ Live!Init
  \/ route = "planning" /\ Desk!Init
  \/ route = "admin" /\ Directory!Init
  \/ route = "admin-forms" /\ Forms!Init
  \/ route = "integrations" /\ Keys!Init
  \/ route = "parts" /\ Stock!Init
  \/ route = "condition" /\ Condition!Init
  \/ route = "equipment" /\ Registry!Init
  \/ route = "asset" /\ Asset!Init
  \/ route = "compliance" /\ Regulations!Init
  \/ route = "knowledge-graph" /\ Graph!Init
  \/ route = "settings" /\ Profile!Init

Init == route \in Routes /\ Mounted

-----------------------------------------------------------------------------
\* A step of the screen that is mounted.
Next ==
  \/ route = "import" /\ Wizard!Next /\ UNCHANGED route
  \/ route = "palette" /\ Palette!Next /\ UNCHANGED route
  \/ route = "panels" /\ Panels!Next /\ UNCHANGED route
  \/ route = "documents" /\ Library!Next /\ UNCHANGED route
  \/ route = "upload" /\ Upload!Next /\ UNCHANGED route
  \/ route = "document" /\ Detail!Next /\ UNCHANGED route
  \/ route = "copilot" /\ Chat!Next /\ UNCHANGED route
  \/ route = "copilot-demo" /\ Demo!Next /\ UNCHANGED route
  \/ route = "dashboard" /\ Home!Next /\ UNCHANGED route
  \/ route = "board" /\ Board!Next /\ UNCHANGED <<route, calls>>
  \/ route = "maintenance" /\ Live!Next /\ UNCHANGED route
  \/ route = "planning" /\ Desk!Next /\ UNCHANGED route
  \/ route = "admin" /\ Directory!Next /\ UNCHANGED route
  \/ route = "admin-forms" /\ Forms!Next /\ UNCHANGED route
  \/ route = "integrations" /\ Keys!Next /\ UNCHANGED route
  \/ route = "parts" /\ Stock!Next /\ UNCHANGED route
  \/ route = "condition" /\ Condition!Next /\ UNCHANGED route
  \/ route = "equipment" /\ Registry!Next /\ UNCHANGED route
  \/ route = "asset" /\ Asset!Next /\ UNCHANGED route
  \/ route = "compliance" /\ Regulations!Next /\ UNCHANGED route
  \/ route = "knowledge-graph" /\ Graph!Next /\ UNCHANGED route
  \/ route = "settings" /\ Profile!Next /\ UNCHANGED route

Spec == Init /\ [][Next]_vars

\* The import's interval ticks and is answered, and the stages of the pipelines do: no other
\* screen's property needs a step to happen.
Fairness ==
  /\ WF_vars(route = "import" /\ Wizard!Poll /\ UNCHANGED route)
  /\ WF_vars(/\ route = "import"
             /\ Wizard!JobCreated \/ Wizard!Polled \/ Wizard!CallFails
             /\ UNCHANGED route)
  /\ \A f \in Files : WF_vars(route = "upload" /\ Upload!Tick(f) /\ UNCHANGED route)

FairSpec == Spec /\ Fairness

-----------------------------------------------------------------------------
\* The screen that is mounted keeps its state of its type.
TypeOK ==
  /\ route = "import" => Wizard!TypeOK
  /\ route = "palette" => Palette!TypeOK
  /\ route = "panels" => Panels!TypeOK
  /\ route = "documents" => Library!TypeOK
  /\ route = "upload" => Upload!TypeOK
  /\ route = "document" => Detail!TypeOK
  /\ route = "copilot" => Chat!TypeOK
  /\ route = "copilot-demo" => Demo!TypeOK
  /\ route = "dashboard" => Home!TypeOK
  /\ route = "board" => Board!TypeOK
  /\ route = "maintenance" => Live!TypeOK
  /\ route = "planning" => Desk!TypeOK
  /\ route = "admin" => Directory!TypeOK
  /\ route = "admin-forms" => Forms!TypeOK
  /\ route = "integrations" => Keys!TypeOK
  /\ route = "parts" => Stock!TypeOK
  /\ route = "condition" => Condition!TypeOK
  /\ route = "equipment" => Registry!TypeOK
  /\ route = "asset" => Asset!TypeOK
  /\ route = "compliance" => Regulations!TypeOK
  /\ route = "knowledge-graph" => Graph!TypeOK
  /\ route = "settings" => Profile!TypeOK

\* Whatever is drawn as still under way has a call or a timer under way that will end it: the
\* shell's drawer and legal page, the palette, a document, the tiles, the tour (by the tooltip of
\* its step), the optimisation, a branch of the registry, an import of a regulation or a
\* compilation, the canvas.
NothingHangs ==
  /\ route = "panels" => Panels!SpinnersStop /\ Panels!TourOnAStep
  /\ route = "palette" => Palette!LoadingEnds
  /\ route = "document" => Detail!LoadingEnds
  /\ route = "dashboard" => Home!TilesSettle
  /\ route = "planning" => Desk!SpinnerHasTimer
  /\ route = "equipment" => Registry!BranchesSettle
  /\ route = "compliance" => Regulations!WizardsEnd
  /\ route = "knowledge-graph" => Graph!LoadingEnds

\* Once every call is answered a screen shows what is stored, whatever was clicked, typed,
\* refused, left or opened while the calls were under way.
ShownIsStored ==
  /\ route = "documents" => Library!NoGhostRows
  /\ route = "copilot-demo" => Demo!StoredIsShown
  /\ route = "board" => Board!BoardIsStored
  /\ route = "admin-forms" => Forms!ListsSettle
  /\ route = "integrations" => Keys!PanelSettles
  /\ route = "parts" => Stock!StockShown
  /\ route = "condition" => Condition!NewReadingDrawn
  /\ route = "settings" => Profile!ShownIsStored

\* Once every call is answered, what is shown is what was asked for last, where the screen drops
\* the answers of older questions: the preview is of the template and the text in the editor, the
\* suggestions of the canvas are of the query in its box.
ShownIsAskedFor ==
  /\ route = "admin-forms" => Forms!PreviewSettles
  /\ route = "knowledge-graph" => Graph!SuggestionsAreOfTheQuery

\* A bubble that is shown holds exactly what its own stream has brought so far, whichever chats
\* are opened and questions asked meanwhile (Copilot).
AnswerIsItsOwn == route = "copilot" => Chat!AnswerIsItsOwn

\* A prediction or a recommendation raises one work order if it is accepted and none otherwise,
\* and a gap that is stored as being remediated has one, however often their screens are left
\* and opened again (MaintenanceDesk, AssetPage, Compliance).
OrdersMatchDecisions ==
  /\ route = "planning" => Desk!OneOrderPerPrediction
  /\ route = "asset" => Asset!OneOrderPerRecommendation
  /\ route = "compliance" => Regulations!RemediationDispatched

\* The checklist is only complete over sample data that was stored (Dashboard).
CompleteMeansSeeded == route = "dashboard" => Home!CompleteMeansSeeded

\* With every deferred write done or lost, replaying the audit log from the seed gives every
\* stored value but those whose last record went with the page (AdminDirectory).
AuditTrail == route = "admin" => Directory!AuditTrail

\* Every edge of the canvas has both of its ends there (KnowledgeGraph).
EdgesHaveEnds == route = "knowledge-graph" => Graph!EdgesHaveEnds

\* Progress is never taken back: the bar of a file moves on by one stage at a time, whatever
\* other pipelines are running and files are removed (UploadWorkspace).
NothingMovesBack == [][route = "upload" => Upload!MovesForward]_vars

\* However an order comes to be closed, it is a planner who closes it (WorkOrderBoard).
ClosedByPlanner == [][route = "board" => Board!PlannerCloses]_vars

\* An edit never takes back what another user has stored since, unless two requests have
\* overlapped at the backend on that order (MaintenanceLive).
KeepsOthersEdits == [][route = "maintenance" => Live!OthersEditsStay]_vars

\* The import's polling comes to an end, however many polls overlap: the interval is cleared by
\* the answer that ends the job or by the first failure (ImportWizard).
PollingEnds == (route = "import" /\ view.isPolling) ~> (route = "import" /\ ~view.isPolling)

\* A pipeline that was started comes to its end for every file (UploadWorkspace).
PipelinesEnd ==
  \A f \in Files : (route = "upload" /\ Upload!Running(f)) ~> (route = "upload" /\ ~Upload!Running(f))

\* maintenance/live.ts on a sync: "so we only fire the calls that actually changed".  Nobody
\* edits a checklist here, so every order would keep its checklist and its parts.
ChecklistKept == route = "maintenance" => Live!ChecklistKept
=============================================================================
