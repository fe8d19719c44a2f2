------------------------------ MODULE AssetPage ------------------------------
(***************************************************************************)
(* An asset's page in demo mode (Equipment360.tsx): its orders, issues and *)
(* recommendation.  All pages are one component, so the hooks of one       *)
(* asset's page are still there on the next one's; what is raised lives in *)
(* them and is not stored.                                                 *)
(***************************************************************************)
EXTENDS Integers

CONSTANTS
  Assets,
  MaxOrders,     \* bound: orders and issues raised for an asset
  None

PageAssumption ==
  MaxOrders \in Nat /\ None \notin Assets \cup {"accepted", "dismissed", "order", "issue"}

VARIABLES
  view,          \* the address and the state hooks
  calls,         \* none are made
  server

vars == <<view, calls, server>>

\* orders, recommended: the orders raised for an asset, and those of them that the
\* recommendation raised.
Init ==
  /\ view = [address |-> None, modal |-> None, titled |-> FALSE,
             orders |-> [a \in Assets |-> 0], recommended |-> [a \in Assets |-> 0],
             issues |-> [a \in Assets |-> 0], dispatched |-> [a \in Assets |-> None]]
  /\ calls = None
  /\ server = None

\* The address can name any asset at any time: a link, the palette, the back button.
Open(address) ==
  /\ address # view.address
  /\ view' = [view EXCEPT !.address = address]
  /\ UNCHANGED <<calls, server>>

OpenModal(modal) ==
  /\ view.address # None /\ view.modal = None
  /\ view' = [view EXCEPT !.modal = modal]
  /\ UNCHANGED <<calls, server>>

\* What is typed stays when the dialog is closed.
Type ==
  /\ view.address # None /\ view.modal # None /\ ~view.titled
  /\ view' = [view EXCEPT !.titled = TRUE]
  /\ UNCHANGED <<calls, server>>

CloseModal ==
  /\ view.address # None /\ view.modal # None
  /\ view' = [view EXCEPT !.modal = None]
  /\ UNCHANGED <<calls, server>>

\* The order is the one of the asset shown now, whichever it was when the dialog opened.
HandleCreateWoSubmit ==
  /\ view.address # None /\ view.modal = "order" /\ view.titled
  /\ view.orders[view.address] < MaxOrders
  /\ view' = [view EXCEPT !.orders[view.address] = @ + 1, !.titled = FALSE, !.modal = None]
  /\ UNCHANGED <<calls, server>>

HandleReportIssueSubmit ==
  /\ view.address # None /\ view.modal = "issue" /\ view.titled
  /\ view.issues[view.address] < MaxOrders
  /\ view' = [view EXCEPT !.issues[view.address] = @ + 1, !.titled = FALSE, !.modal = None]
  /\ UNCHANGED <<calls, server>>

\* The buttons give way to the decision.
CanDecide == view.address # None /\ view.modal = None /\ view.dispatched[view.address] = None

\* Mutant: the decision is not kept.
HandlePredictionAction_NotKept(action) ==
  /\ CanDecide
  /\ action = "accepted" => view.orders[view.address] < MaxOrders
  /\ view' = IF action = "accepted"
             THEN [view EXCEPT !.orders[view.address] = @ + 1, !.recommended[view.address] = @ + 1]
             ELSE view
  /\ UNCHANGED <<calls, server>>

HandlePredictionAction(action) ==
  /\ CanDecide
  /\ action = "accepted" => view.orders[view.address] < MaxOrders
  /\ view' = IF action = "accepted"
             THEN [view EXCEPT !.dispatched[view.address] = action, !.orders[view.address] = @ + 1,
                               !.recommended[view.address] = @ + 1]
             ELSE [view EXCEPT !.dispatched[view.address] = action]
  /\ UNCHANGED <<calls, server>>

Next ==
  \/ \E a \in Assets \cup {None} : Open(a)
  \/ \E modal \in {"order", "issue"} : OpenModal(modal)
  \/ Type \/ CloseModal \/ HandleCreateWoSubmit \/ HandleReportIssueSubmit
  \/ \E action \in {"accepted", "dismissed"} : HandlePredictionAction(action)

Spec == Init /\ [][Next]_vars

-----------------------------------------------------------------------------
TypeOK ==
  view \in [address : Assets \cup {None}, modal : {None, "order", "issue"}, titled : BOOLEAN,
            orders : [Assets -> 0 .. MaxOrders], recommended : [Assets -> Nat],
            issues : [Assets -> 0 .. MaxOrders],
            dispatched : [Assets -> {None, "accepted", "dismissed"}]]

\* A recommendation raises one order, for its asset and only when it was accepted, however
\* the person went from asset to asset in between.
OneOrderPerRecommendation ==
  \A a \in Assets : view.recommended[a] = (IF view.dispatched[a] = "accepted" THEN 1 ELSE 0)
=============================================================================
