------------------------- MODULE EquipmentRegistry -------------------------
(***************************************************************************)
(* The equipment screens in demo mode (Equipment360.tsx): the plant tree   *)
(* whose branches load when they are first opened, the filtered registry   *)
(* and the QR scanner.  AssetPage has the page an address opens.           *)
(***************************************************************************)
EXTENDS Integers

CONSTANTS
  Units,         \* branches of the tree that hold assets
  Assets,
  UnitOf,        \* the unit of an asset
  MaxTimers,     \* bound: timers of one kind under way
  None

RegistryAssumption ==
  /\ UnitOf \in [Assets -> Units]
  /\ MaxTimers \in Nat
  /\ None \notin Assets \cup Units \cup {"area"} /\ "area" \notin Units

VARIABLES
  view,          \* the address and the state hooks
  calls,         \* timers: what they are for -> how many are under way
  server         \* nothing is stored

vars == <<view, calls, server>>

\* The branch above the units stands for the plant and the area.
TreeNodes == {"area"} \cup Units

Timers == [for : {"node"}, of : Units] \cup [for : {"camera"}, of : {None}] \cup [for : {"scan"}, of : Assets]

Init ==
  /\ view = [address |-> None, expanded |-> {"area"}, loading |-> {}, loaded |-> {"area"},
             branch |-> None, filter |-> None, scanning |-> FALSE, step |-> "idle"]
  /\ calls = [t \in Timers |-> 0]
  /\ server = None

\* The address can name any asset at any time: a link, the palette, the back button.
Open(address) ==
  /\ address # view.address
  /\ view' = [view EXCEPT !.address = address]
  /\ UNCHANGED <<calls, server>>

Start(timer) ==
  /\ calls[timer] < MaxTimers
  /\ calls' = [calls EXCEPT ![timer] = @ + 1]

Due(timer) ==
  /\ calls[timer] > 0
  /\ calls' = [calls EXCEPT ![timer] = @ - 1]

-----------------------------------------------------------------------------
(* The tree and the registry *)

OnRegistry == view.address = None /\ ~view.scanning

\* A branch is drawn when the ones above it are open.
Drawn(n) ==
  /\ OnRegistry
  /\ n \in Units => "area" \in view.expanded

\* A click selects the branch; a second one before it has loaded starts a second timer.
HandleTreeNodeClick(n) ==
  /\ Drawn(n)
  /\ \/ /\ n \in view.expanded
        /\ view' = [view EXCEPT !.branch = n, !.expanded = @ \ {n}]
        /\ UNCHANGED calls
     \/ /\ n \notin view.expanded /\ n \in view.loaded
        /\ view' = [view EXCEPT !.branch = n, !.expanded = @ \cup {n}]
        /\ UNCHANGED calls
     \/ /\ n \notin view.expanded \cup view.loaded
        /\ view' = [view EXCEPT !.branch = n, !.loading = @ \cup {n}]
        /\ Start([for |-> "node", of |-> n])
  /\ UNCHANGED server

NodeLoaded(n) ==
  /\ Due([for |-> "node", of |-> n])
  /\ view' = [view EXCEPT !.loading = @ \ {n}, !.loaded = @ \cup {n}, !.expanded = @ \cup {n}]
  /\ UNCHANGED server

\* The leaves of a unit that is open.
OpenLeaf(a) ==
  /\ Drawn(UnitOf[a]) /\ UnitOf[a] \in view.expanded
  /\ Open(a)

\* The filters of the table; the unit stands for each of them.
SetFilter(u) ==
  /\ OnRegistry /\ view.filter # u
  /\ view' = [view EXCEPT !.filter = u]
  /\ UNCHANGED <<calls, server>>

GetFilteredAssets ==
  {a \in Assets : /\ view.branch \in Units => UnitOf[a] = view.branch
                  /\ view.filter \in Units => UnitOf[a] = view.filter}

OpenRow(a) ==
  /\ OnRegistry /\ a \in GetFilteredAssets
  /\ Open(a)

ResetFilters ==
  /\ OnRegistry /\ (view.filter # None \/ view.branch # None)
  /\ view' = [view EXCEPT !.filter = None, !.branch = None]
  /\ UNCHANGED <<calls, server>>

-----------------------------------------------------------------------------
(* The QR scanner, drawn over the registry *)

HandleMobileQrTrigger ==
  /\ OnRegistry
  /\ view' = [view EXCEPT !.scanning = TRUE, !.step = "opening"]
  /\ Start([for |-> "camera", of |-> None])
  /\ UNCHANGED server

\* The timer of a scanner that was closed, or of a scan that was done, counts too.
CameraReady ==
  /\ Due([for |-> "camera", of |-> None])
  /\ view' = [view EXCEPT !.step = "scanning"]
  /\ UNCHANGED server

CloseScanner ==
  /\ view.address = None /\ view.scanning
  /\ view' = [view EXCEPT !.scanning = FALSE]
  /\ UNCHANGED <<calls, server>>

HandleQrSelectScanMock(a) ==
  /\ view.address = None /\ view.scanning /\ view.step # "success"
  /\ view' = [view EXCEPT !.step = "success"]
  /\ Start([for |-> "scan", of |-> a])
  /\ UNCHANGED server

\* The asset's page opens wherever the person is by now.
Scanned(a) ==
  /\ Due([for |-> "scan", of |-> a])
  /\ view' = [view EXCEPT !.scanning = FALSE, !.step = "idle", !.address = a]
  /\ UNCHANGED server

Next ==
  \/ \E a \in Assets \cup {None} : Open(a)
  \/ \E n \in TreeNodes : HandleTreeNodeClick(n)
  \/ \E u \in Units : NodeLoaded(u)
  \/ \E u \in Units \cup {None} : SetFilter(u)
  \/ \E a \in Assets : OpenLeaf(a) \/ OpenRow(a) \/ HandleQrSelectScanMock(a) \/ Scanned(a)
  \/ ResetFilters \/ HandleMobileQrTrigger \/ CameraReady \/ CloseScanner

Spec == Init /\ [][Next]_vars

-----------------------------------------------------------------------------
TypeOK ==
  /\ view.address \in Assets \cup {None} /\ view.expanded \cup view.loading \subseteq TreeNodes
  /\ view.branch \in TreeNodes \cup {None} /\ view.filter \in Units \cup {None}
  /\ view.step \in {"idle", "opening", "scanning", "success"}
  /\ calls \in [Timers -> 0..MaxTimers]

\* A branch shows its spinner only while a timer that opens it is under way, and whatever
\* is open was loaded, however often it was clicked before the first timer was due.
BranchesSettle ==
  /\ \A n \in view.loading : n \notin view.loaded => calls[[for |-> "node", of |-> n]] > 0
  /\ view.expanded \subseteq view.loaded
  /\ (\A t \in Timers : calls[t] = 0) => view.loading = {}
=============================================================================
