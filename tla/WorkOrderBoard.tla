--------------------------- MODULE WorkOrderBoard ---------------------------
(***************************************************************************)
(* Work orders on the maintenance screens in demo mode: the list, its      *)
(* kanban board, swipe deck and bulk bar (WorkOrdersList.tsx), one order   *)
(* and its closure (WorkOrderDetail.tsx) and the hub that keeps them in    *)
(* localStorage (MaintenanceHub.tsx).  Every handler runs to its end       *)
(* before the next, so nothing is in flight.                               *)
(***************************************************************************)
EXTENDS Integers, Sequences, FiniteSets

CONSTANTS
  Items,         \* safety checks of an order
  Steps,         \* procedure steps of an order
  Filters,       \* statuses the list is filtered by
  MaxOrders,     \* bound: orders on the list
  None

Statuses == {"Open", "In Progress", "On Hold", "Review", "Closed"}
All == "All"

BoardAssumption == MaxOrders \in Nat \ {0} /\ None \notin 1 .. MaxOrders /\ Filters \subseteq Statuses

VARIABLES
  view,          \* the state hooks
  server         \* localStorage: indusmind_work_orders

vars == <<view, server>>

\* checks: the safety items ticked.  noted: closed with its closure details.
New(status) == [status |-> status, checks |-> {}, steps |-> {}, noted |-> FALSE]

\* Hooks of the list, which start again each time the list is shown.
List == [status |-> All, selected |-> {}]

\* Hooks of the detail: the order whose closure details are in the form.
Form == [draft |-> None]

Hub(orders) == [orders |-> orders, role |-> "Planner", active |-> None, list |-> List, form |-> Form]

\* The orders shipped with the code are in every status.
Init ==
  \E s \in {"Open", "Review"} : server = <<New(s)>> /\ view = Hub(server)

Ids == DOMAIN view.orders

\* hasPermission of the hub, whatever the permission.
Permitted == view.role = "Planner"

\* Mutant: the screen is updated and the store is not.
Save_ScreenOnly(v, orders) ==
  /\ view' = [v EXCEPT !.orders = orders]
  /\ UNCHANGED server

\* handleUpdateWorkOrders, with the other hooks as in v
Save(v, orders) ==
  /\ view' = [v EXCEPT !.orders = orders]
  /\ server' = orders

-----------------------------------------------------------------------------
(* The list *)

SelectRole(r) ==
  /\ view.active = None
  /\ view' = [view EXCEPT !.role = r]
  /\ UNCHANGED server

FilterStatus(s) ==
  /\ view.active = None
  /\ view' = [view EXCEPT !.list.status = s]
  /\ UNCHANGED server

\* filteredWOs
Shown == {o \in Ids : view.list.status \in {All, view.orders[o].status}}

SelectAll ==
  /\ view.active = None
  /\ view' = [view EXCEPT !.list.selected =
                IF Cardinality(@) = Cardinality(Shown) THEN {} ELSE Shown]
  /\ UNCHANGED server

SelectRow(o) ==
  /\ view.active = None
  /\ o \in Shown
  /\ view' = [view EXCEPT !.list.selected = IF o \in @ THEN @ \ {o} ELSE @ \cup {o}]
  /\ UNCHANGED server

\* The bar is drawn while anything is selected, shown or not.
BulkBar == view.active = None /\ view.list.selected # {}

ClearSelection ==
  /\ BulkBar
  /\ view' = [view EXCEPT !.list.selected = {}]
  /\ UNCHANGED server

\* The orders of a set get a status, whatever theirs was.
Moved(orders, status) ==
  [o \in Ids |-> IF o \in orders THEN [view.orders[o] EXCEPT !.status = status] ELSE view.orders[o]]

BulkClose ==
  /\ BulkBar
  /\ Permitted
  /\ Save([view EXCEPT !.list.selected = {}], Moved(view.list.selected, "Closed"))

\* Who is assigned is left out; the selection goes.
BulkAssign ==
  /\ BulkBar
  /\ Permitted
  /\ Save([view EXCEPT !.list.selected = {}], view.orders)

\* A card of the swipe deck.
SwipeAction(o) ==
  /\ view.active = None
  /\ o \in Shown
  /\ \/ view.orders[o].status = "Open" /\ Save(view, Moved({o}, "In Progress"))
     \/ view.orders[o].status = "In Progress" /\ Save(view, Moved({o}, "Review"))

\* Mutant: anyone may drag a card.
DragStarts_Anyone(o) == view.active = None /\ o \in Shown

\* handleDragStart
DragStarts(o) == view.active = None /\ o \in Shown /\ Permitted

\* A card is dragged to a column, in one gesture of the pointer: the drop itself asks
\* for no permission and allows any column.
DragAndDrop(o, status) ==
  /\ DragStarts(o)
  /\ Save(view, Moved({o}, status))

AddWorkOrder ==
  /\ view.active = None
  /\ Permitted
  /\ Len(view.orders) < MaxOrders
  /\ Save([view EXCEPT !.active = Len(view.orders) + 1, !.list = List], Append(view.orders, New("Open")))

-----------------------------------------------------------------------------
(* One order.  Another address shows another order and keeps the form. *)

\* parseHashRoute; the list is not drawn while an order is, and the other way round.
Open(o) ==
  /\ o # view.active
  /\ view' = [view EXCEPT !.active = o, !.list = List]
  /\ UNCHANGED server

BackToList ==
  /\ view.active # None
  /\ view' = [view EXCEPT !.active = None, !.form = Form]
  /\ UNCHANGED server

Current == view.orders[view.active]

Edit(order) == Save(view, [view.orders EXCEPT ![view.active] = order])

ToggleSafety(i) ==
  /\ view.active # None
  /\ Current.status = "Open"
  /\ Edit([Current EXCEPT !.checks = IF i \in @ THEN @ \ {i} ELSE @ \cup {i}])

StartWorkOrder ==
  /\ view.active # None
  /\ Current.status = "Open"
  /\ Current.checks = Items
  /\ Edit([Current EXCEPT !.status = "In Progress"])

ToggleProcedureStep(s) ==
  /\ view.active # None
  /\ Current.status = "In Progress"
  /\ Edit([Current EXCEPT !.steps = IF s \in @ THEN @ \ {s} ELSE @ \cup {s}])

\* No step need be ticked.
CompleteWork ==
  /\ view.active # None
  /\ Current.status = "In Progress"
  /\ Edit([Current EXCEPT !.status = "Review"])

\* The failure code, root cause and notes of the form.
FillClosure ==
  /\ view.active # None
  /\ Current.status = "Review"
  /\ view' = [view EXCEPT !.form.draft = view.active]
  /\ UNCHANGED server

CloseWorkOrder ==
  /\ view.active # None
  /\ Current.status = "Review"
  /\ Permitted
  /\ view.form.draft # None
  /\ Edit([Current EXCEPT !.status = "Closed", !.noted = TRUE])

\* The page is loaded again from what is stored.
Reload ==
  /\ view' = Hub(server)
  /\ UNCHANGED server

Next ==
  \/ \E r \in {"Planner", "Technician"} : SelectRole(r)
  \/ \E s \in Filters \cup {All} : FilterStatus(s)
  \/ \E o \in Ids : SelectRow(o) \/ SwipeAction(o) \/ Open(o)
  \/ \E o \in Ids, s \in Statuses : DragAndDrop(o, s)
  \/ SelectAll \/ ClearSelection \/ BulkClose \/ BulkAssign
  \/ AddWorkOrder \/ BackToList
  \/ \E i \in Items : ToggleSafety(i)
  \/ \E s \in Steps : ToggleProcedureStep(s)
  \/ StartWorkOrder \/ CompleteWork \/ FillClosure \/ CloseWorkOrder \/ Reload

Spec == Init /\ [][Next]_vars

-----------------------------------------------------------------------------
TypeOK ==
  /\ DOMAIN server \subseteq 1 .. MaxOrders
  /\ \A o \in DOMAIN server :
       server[o] \in [status : Statuses, checks : SUBSET Items, steps : SUBSET Steps, noted : BOOLEAN]
  /\ view.role \in {"Planner", "Technician"}
  /\ view.active \in Ids \cup {None} /\ view.form.draft \in Ids \cup {None}
  /\ view.list \in [status : Statuses \cup {All}, selected : SUBSET Ids]

\* What is shown is what is stored: a reload takes nothing back.
BoardIsStored == view.orders = server

\* However an order comes to be closed, by its form, the bulk bar or the board, it
\* is a planner who closes it.
PlannerCloses ==
  \A o \in DOMAIN server :
    server[o].status # "Closed" /\ server'[o].status = "Closed" => view.role = "Planner"
=============================================================================
