----------------------------- MODULE WorkOrders -----------------------------
(***************************************************************************)
(* Work orders and the spare-parts stock they consume                      *)
(* (app/modules/maintenance, app/modules/parts).                           *)
(*                                                                         *)
(* Every request runs in a session of its own, one Postgres transaction at *)
(* READ COMMITTED: a SELECT sees the latest committed rows, an UPDATE takes *)
(* the row lock and keeps it until the transaction ends, and nothing a     *)
(* session wrote is visible before it commits.  The variables below hold   *)
(* the COMMITTED rows; tx[s] holds what session s has read, locked and     *)
(* written so far.  No lock guards the read that a status change rests on. *)
(*                                                                         *)
(* Stock is counted in the units the columns store (Numeric(14,3)); only a *)
(* stock adjustment can carry finer values (a float), so changes are       *)
(* counted in quarter units, and rounded where the columns round them.     *)
(***************************************************************************)
EXTENDS Integers, Sequences, SequencesExt

CONSTANTS
  Sessions,      \* concurrent requests
  WorkOrders,    \* work-order rows that may be created
  Parts,         \* catalogue items
  Quantities,    \* planned, used and opening quantities, in units
  Minimums,      \* minimum stock levels, in units
  Deltas,        \* changes an adjustment may ask for, in quarter units
  Backlog,       \* parts lists the work orders may start with
  MaxRequests,   \* bound: requests served in a behaviour
  NULL           \* SQL NULL

VARIABLES
  wo,        \* work_orders: status ("none" before the INSERT), version, deleted_at set, failure records
  plan,      \* work_order_parts of each work order, by created_at
  onHand,    \* parts.on_hand, the cached balance; NULL before the part exists
  minStock,  \* parts.min_stock
  ledger,    \* SUM(part_movements.delta) of each part
  consumed,  \* -SUM(part_movements.delta) of the wo_consume rows, by ref_id and part
  tx,        \* the open transaction of each session
  served     \* requests started so far (bound)

vars == <<wo, plan, onHand, minStock, ledger, consumed, tx, served>>
stock == <<onHand, minStock, ledger, consumed>>

Live == {"open", "in_progress", "on_hold", "review"}
Terminal == {"closed", "cancelled"}
Statuses == Live \cup Terminal

Transitions ==
  [ open        |-> {"in_progress", "on_hold", "cancelled"},
    in_progress |-> {"on_hold", "review", "closed", "cancelled"},
    on_hold     |-> {"in_progress", "review", "cancelled"},
    review      |-> {"in_progress", "closed", "cancelled"},
    closed      |-> {},
    cancelled   |-> {} ]

\* Mutants: a closed work order may be reopened, or closed again.
CanTransition_Reopen(current, target) ==
  target \in Transitions[current] \/ (current = "closed" /\ target = "in_progress")
CanTransition_CloseAgain(current, target) ==
  target \in Transitions[current] \/ (current = "closed" /\ target = "closed")
CanTransition(current, target) == target \in Transitions[current]

Row == [id : Int, part : Parts, planned : Quantities, used : Quantities \cup {NULL}]

ASSUME QuantitiesAssumption == Quantities \subseteq Nat
ASSUME MinimumsAssumption == Minimums \subseteq Nat
ASSUME DeltasAssumption == Deltas \subseteq Int
ASSUME NullAssumption == NULL \notin Int
\* A list names a part once, and rows added later are numbered from 0.
ASSUME BacklogAssumption ==
  /\ Backlog \subseteq Seq(Row)
  /\ \A list \in Backlog : \A i, j \in DOMAIN list :
       /\ list[i].id < 0
       /\ i # j => list[i].id # list[j].id /\ list[i].part # list[j].part

Ops == {"none", "transition", "close", "edit", "delete", "adjust"}
Stages == {"idle", "flush", "list", "consume", "publish", "commit"}

NoPart == [p \in Parts |-> 0]

Idle ==
  [ pc |-> "idle", op |-> "none", wo |-> NULL,
    status |-> NULL,     \* the status to write, NULL when the column is untouched
    version |-> NULL,    \* the version to write, computed from the one that was read
    failure |-> FALSE,   \* a failure_record is inserted with the close
    todo |-> <<>>,       \* planned parts still to consume
    use |-> {},          \* rows whose qty_used this session sets to qty_planned
    held |-> {},         \* parts locked FOR UPDATE
    bal |-> NoPart,      \* the new on_hand of a held part
    delta |-> NoPart,    \* its movement
    low |-> {},          \* held parts this session took to or below the minimum
    alerted |-> {},      \* parts for which part.low_stock has been published
    cut |-> FALSE ]      \* consumption stopped at a part with too little stock

-----------------------------------------------------------------------------
(* Rows, locks and rounding *)

NewWorkOrder(status) ==
  [status |-> status, version |-> IF status = "none" THEN 0 ELSE 1, deleted |-> FALSE, failures |-> 0]

Exists(w) == wo[w].status # "none" /\ ~wo[w].deleted
HasStock(p) == onHand[p] # NULL

WoLocked(w) == \E s \in Sessions : tx[s].wo = w /\ tx[s].pc \notin {"idle", "flush"}
PartLockedBy(s, p) == p \in tx[s].held
PartFree(s, p) == \A t \in Sessions \ {s} : ~PartLockedBy(t, p)
RowLocked(r) == \E s \in Sessions : \E u \in tx[s].use : u.id = r.id
RowPresent(w, r) == \E i \in DOMAIN plan[w] : plan[w][i].id = r.id

\* Numeric(14,3) rounds half away from zero: from quarter units to units.
Stored(h) == IF h >= 0 THEN (h + 2) \div 4 ELSE -((2 - h) \div 4)

More == served < MaxRequests /\ served' = served + 1

-----------------------------------------------------------------------------
(* Requests that are one statement on one row *)

CreateWorkOrder(w) ==
  /\ More
  /\ wo[w].status = "none"
  /\ wo' = [wo EXCEPT ![w] = NewWorkOrder("open")]
  /\ UNCHANGED <<plan, stock, tx>>

\* The opening balance is written with a receipt movement of its own.
CreatePart(p, q, min) ==
  /\ More
  /\ ~HasStock(p)
  /\ onHand' = [onHand EXCEPT ![p] = q]
  /\ minStock' = [minStock EXCEPT ![p] = min]
  /\ ledger' = [ledger EXCEPT ![p] = q]
  /\ UNCHANGED <<wo, plan, consumed, tx>>

UpdatePart(p, min) ==
  /\ More
  /\ HasStock(p) /\ (\A s \in Sessions : ~PartLockedBy(s, p))
  /\ minStock' = [minStock EXCEPT ![p] = min]
  /\ UNCHANGED <<wo, plan, onHand, ledger, consumed, tx>>

\* None of the three looks at the work order's status.
AddWoPart(w, p, q) ==
  /\ More
  /\ wo[w].status # "none" /\ HasStock(p) /\ q > 0
  /\ \A i \in DOMAIN plan[w] : plan[w][i].part # p
  /\ plan' = [plan EXCEPT ![w] =
               Append(@, [id |-> served, part |-> p, planned |-> q, used |-> NULL])]
  /\ UNCHANGED <<wo, stock, tx>>

UpdateWoPart(w, i, q) ==
  /\ More
  /\ i \in DOMAIN plan[w] /\ ~RowLocked(plan[w][i])
  /\ \/ q > 0 /\ plan' = [plan EXCEPT ![w][i].planned = q]
     \/ \E used \in {q, NULL} : plan' = [plan EXCEPT ![w][i].used = used]
  /\ UNCHANGED <<wo, stock, tx>>

DeleteWoPart(w, i) ==
  /\ More
  /\ i \in DOMAIN plan[w] /\ ~RowLocked(plan[w][i])
  /\ plan' = [plan EXCEPT ![w] = RemoveAt(@, i)]
  /\ UNCHANGED <<wo, stock, tx>>

-----------------------------------------------------------------------------
(* A request on a work order: read and validate, then take the row lock *)

Allowed(w, op, target) ==
  CASE op = "transition" -> target # "closed" /\ CanTransition(wo[w].status, target)
    [] op = "close"      -> target = "closed" /\ CanTransition(wo[w].status, target)
    [] op = "edit"       -> target = NULL /\ wo[w].status \notin Terminal
    [] OTHER             -> target = NULL

\* The version check compares with the row just read, so a request that passes
\* it has seen this version; one that fails it changes nothing.
Begin(s, w, op, target, failure) ==
  /\ More
  /\ tx[s].pc = "idle"
  /\ Exists(w) /\ Allowed(w, op, target)
  /\ failure => op = "close"
  /\ tx' = [tx EXCEPT ![s] =
             [Idle EXCEPT !.pc = "flush", !.op = op, !.wo = w, !.status = target,
                          !.failure = failure,
                          !.version = IF op = "delete" THEN NULL ELSE wo[w].version + 1]]
  /\ UNCHANGED <<wo, plan, stock>>

\* The UPDATE by primary key: it waits for the row lock, then writes whatever
\* the row now holds.
Flush(s) ==
  /\ tx[s].pc = "flush"
  /\ ~WoLocked(tx[s].wo)
  /\ tx' = [tx EXCEPT ![s].pc = IF tx[s].op = "close" THEN "list" ELSE "commit"]
  /\ UNCHANGED <<wo, plan, stock, served>>

-----------------------------------------------------------------------------
(* Stock movements *)

ListParts(s) ==
  /\ tx[s].pc = "list"
  /\ tx' = [tx EXCEPT ![s].todo = plan[tx[s].wo], ![s].pc = "consume"]
  /\ UNCHANGED <<wo, plan, stock, served>>

\* Mutant: the row is read without FOR UPDATE.
LockPart_NoLock(s, p) == HasStock(p)
LockPart(s, p) == HasStock(p) /\ PartFree(s, p)

\* Mutant: the balance is not checked.
Insufficient_Unchecked(p, h) == FALSE
Insufficient(p, h) == 4 * onHand[p] + h < 0

\* Mutant: reaching the minimum exactly is not a crossing.
ApplyMovement_Strict(t, p, h) ==
  [t EXCEPT !.held = @ \cup {p}, !.bal[p] = Stored(4 * onHand[p] + h), !.delta[p] = Stored(h),
            !.low = IF onHand[p] > minStock[p] /\ 4 * onHand[p] + h < 4 * minStock[p] THEN @ \cup {p} ELSE @]

\* _apply_movement on a part this session has locked: the balance read under
\* the lock, the new balance and the movement as they will be stored, and the
\* low-stock edge, which is taken from the balance before it is stored.
ApplyMovement(t, p, h) ==
  [t EXCEPT !.held = @ \cup {p}, !.bal[p] = Stored(4 * onHand[p] + h), !.delta[p] = Stored(h),
            !.low = IF onHand[p] > minStock[p] /\ 4 * onHand[p] + h <= 4 * minStock[p] THEN @ \cup {p} ELSE @]

\* Mutant: a single unit is not worth a movement.
NothingUsed_Few(qty) == qty <= 1
NothingUsed(qty) == qty <= 0

\* One planned part of a closing work order.
Consume(s) ==
  /\ tx[s].pc = "consume" /\ tx[s].todo # <<>>
  /\ LET row == Head(tx[s].todo)
         qty == IF row.used # NULL THEN row.used ELSE row.planned
         t   == [tx[s] EXCEPT !.todo = Tail(@),
                              !.use = IF row.used = NULL THEN @ \cup {row} ELSE @]
     IN \/ /\ NothingUsed(qty)
           /\ tx' = [tx EXCEPT ![s] = t]
        \/ /\ ~NothingUsed(qty) /\ LockPart(s, row.part) /\ ~Insufficient(row.part, -4 * qty)
           /\ row.used = NULL => RowPresent(tx[s].wo, row)
           /\ tx' = [tx EXCEPT ![s] = ApplyMovement(t, row.part, -4 * qty)]
        \/ \* insufficient stock: close() swallows the exception and goes on
           /\ ~NothingUsed(qty) /\ LockPart(s, row.part) /\ Insufficient(row.part, -4 * qty)
           /\ tx' = [tx EXCEPT ![s] = [t EXCEPT !.todo = <<>>, !.low = {}, !.cut = TRUE]]
  /\ UNCHANGED <<wo, plan, stock, served>>

\* The UPDATE of a planned row that was deleted meanwhile matches no row: the
\* flush fails and takes the transaction with it.
StaleRow(s) ==
  /\ \/ /\ tx[s].pc = "consume" /\ tx[s].todo # <<>>
        /\ LET row == Head(tx[s].todo) IN
             /\ row.used = NULL /\ ~RowPresent(tx[s].wo, row)
             /\ LockPart(s, row.part) /\ ~Insufficient(row.part, -4 * row.planned)
     \/ tx[s].pc = "commit" /\ \E r \in tx[s].use : ~RowPresent(tx[s].wo, r)
  /\ tx' = [tx EXCEPT ![s] = Idle]
  /\ UNCHANGED <<wo, plan, stock, served>>

\* Mutant: the swallowed exception leaves close() half done, its locks held.
ConsumeDone_Stuck(s) ==
  /\ tx[s].pc = "consume" /\ tx[s].todo = <<>> /\ ~tx[s].cut
  /\ tx' = [tx EXCEPT ![s].pc = "publish"]
  /\ UNCHANGED <<wo, plan, stock, served>>

ConsumeDone(s) ==
  /\ tx[s].pc = "consume" /\ tx[s].todo = <<>>
  /\ tx' = [tx EXCEPT ![s].pc = "publish"]
  /\ UNCHANGED <<wo, plan, stock, served>>

\* adjust: SELECT ... FOR UPDATE, then the movement.  A change that would take
\* the balance below zero is refused.
Adjust(s, p, d) ==
  /\ More
  /\ tx[s].pc = "idle"
  /\ LockPart(s, p)
  /\ ~Insufficient(p, d)
  /\ tx' = [tx EXCEPT ![s] =
             ApplyMovement([Idle EXCEPT !.pc = "publish", !.op = "adjust"], p, d)]
  /\ UNCHANGED <<wo, plan, stock>>

-----------------------------------------------------------------------------
(* The end of a transaction *)

\* part.low_stock goes out before the COMMIT.
Publish(s) ==
  /\ tx[s].pc = "publish"
  /\ tx' = [tx EXCEPT ![s].alerted = tx[s].low, ![s].pc = "commit"]
  /\ UNCHANGED <<wo, plan, stock, served>>

SetUsed(rows, use) ==
  [i \in DOMAIN rows |->
     IF \E u \in use : u.id = rows[i].id
       THEN [rows[i] EXCEPT !.used = (CHOOSE u \in use : u.id = rows[i].id).planned]
       ELSE rows[i]]

\* Mutant: a write that leaves the version alone clears it.
Written_NoVersion(row, t) ==
  [ status   |-> IF t.status = NULL THEN row.status ELSE t.status,
    version  |-> t.version,
    deleted  |-> row.deleted \/ t.op = "delete",
    failures |-> IF t.failure THEN row.failures + 1 ELSE row.failures ]

Written(row, t) ==
  [ status   |-> IF t.status = NULL THEN row.status ELSE t.status,
    version  |-> IF t.version = NULL THEN row.version ELSE t.version,
    deleted  |-> row.deleted \/ t.op = "delete",
    failures |-> IF t.failure THEN row.failures + 1 ELSE row.failures ]

CommitStock(s) ==
  /\ onHand' = [p \in Parts |-> IF p \in tx[s].held THEN tx[s].bal[p] ELSE onHand[p]]
  /\ ledger' = [p \in Parts |-> IF p \in tx[s].held THEN ledger[p] + tx[s].delta[p] ELSE ledger[p]]

CommitWorkOrder(s) ==
  LET w == tx[s].wo IN
  IF w = NULL THEN UNCHANGED <<wo, plan, consumed>> ELSE
  /\ wo' = [wo EXCEPT ![w] = Written(@, tx[s])]
  /\ plan' = [plan EXCEPT ![w] = SetUsed(@, tx[s].use)]
  /\ consumed' = [consumed EXCEPT ![w] =
                   [p \in Parts |-> IF p \in tx[s].held THEN @[p] - tx[s].delta[p] ELSE @[p]]]

Commit(s) ==
  /\ tx[s].pc = "commit"
  /\ \A r \in tx[s].use : RowPresent(tx[s].wo, r)
  /\ CommitStock(s) /\ CommitWorkOrder(s)
  /\ tx' = [tx EXCEPT ![s] = Idle]
  /\ UNCHANGED <<minStock, served>>

\* An exception, a lost connection or a dead worker: everything is rolled back.
Rollback(s) ==
  /\ tx[s].pc # "idle"
  /\ tx' = [tx EXCEPT ![s] = Idle]
  /\ UNCHANGED <<wo, plan, stock, served>>

\* Two closes may lock their parts in opposite orders; Postgres then aborts a
\* transaction of the cycle.
WaitsFor(s, t) ==
  /\ s # t
  /\ tx[s].pc = "consume" /\ tx[s].todo # <<>>
  /\ PartLockedBy(t, tx[s].todo[1].part)

InCycle(s) ==
  \E C \in SUBSET Sessions :
    s \in C /\ \A x \in C : (\E y \in C : WaitsFor(x, y)) /\ (\E y \in C : WaitsFor(y, x))

DeadlockVictim(s) ==
  /\ InCycle(s)
  /\ tx' = [tx EXCEPT ![s] = Idle]
  /\ UNCHANGED <<wo, plan, stock, served>>

-----------------------------------------------------------------------------
\* A database ordinary requests lead to: work orders in progress with their
\* parts lists, and parts whose opening balance is their only movement.
Init ==
  /\ \E status \in [WorkOrders -> {"none", "in_progress", "on_hold"}] :
       wo = [w \in WorkOrders |-> NewWorkOrder(status[w])]
  /\ plan \in [WorkOrders -> Backlog]
  /\ \A w \in WorkOrders : wo[w].status = "none" => plan[w] = <<>>
  /\ onHand \in [Parts -> Quantities \cup {NULL}]
  /\ minStock \in [Parts -> Minimums]
  /\ \A w \in WorkOrders : \A i \in DOMAIN plan[w] : HasStock(plan[w][i].part)
  /\ ledger = [p \in Parts |-> IF HasStock(p) THEN onHand[p] ELSE 0]
  /\ consumed = [w \in WorkOrders |-> NoPart]
  /\ tx = [s \in Sessions |-> Idle]
  /\ served = 0

Request(s) ==
  \/ \E w \in WorkOrders, failure \in BOOLEAN :
       \/ \E target \in Statuses : Begin(s, w, "transition", target, failure)
       \/ Begin(s, w, "close", "closed", failure)
       \/ Begin(s, w, "edit", NULL, failure)
       \/ Begin(s, w, "delete", NULL, failure)
  \/ \E p \in Parts, d \in Deltas : Adjust(s, p, d)

Progress(s) ==
  \/ Flush(s) \/ ListParts(s) \/ Consume(s) \/ StaleRow(s) \/ ConsumeDone(s)
  \/ Publish(s) \/ Commit(s) \/ DeadlockVictim(s)

OneStatement ==
  \/ \E w \in WorkOrders : CreateWorkOrder(w)
  \/ \E p \in Parts, min \in Minimums :
       UpdatePart(p, min) \/ \E q \in Quantities : CreatePart(p, q, min)
  \/ \E w \in WorkOrders, q \in Quantities :
       \/ \E p \in Parts : AddWoPart(w, p, q)
       \/ \E i \in DOMAIN plan[w] : UpdateWoPart(w, i, q)
  \/ \E w \in WorkOrders : \E i \in DOMAIN plan[w] : DeleteWoPart(w, i)

Next ==
  \/ OneStatement
  \/ \E s \in Sessions : Request(s) \/ Progress(s) \/ Rollback(s)

Spec == Init /\ [][Next]_vars
FairSpec == Spec /\ \A s \in Sessions : WF_vars(Progress(s))

-----------------------------------------------------------------------------
(* Properties *)

TxType ==
  [ pc : Stages, op : Ops, wo : WorkOrders \cup {NULL}, status : Statuses \cup {NULL},
    version : Nat \cup {NULL}, failure : BOOLEAN, todo : Seq(Row), use : SUBSET Row,
    held : SUBSET Parts, bal : [Parts -> Int], delta : [Parts -> Int],
    low : SUBSET Parts, alerted : SUBSET Parts, cut : BOOLEAN ]

\* Every variable has its type.
TypeOK ==
  /\ wo \in [WorkOrders -> [status : Statuses \cup {"none"}, version : Nat,
                            deleted : BOOLEAN, failures : Nat]]
  /\ plan \in [WorkOrders -> Seq(Row)]
  /\ onHand \in [Parts -> Int \cup {NULL}]
  /\ minStock \in [Parts -> Nat]
  /\ ledger \in [Parts -> Int]
  /\ consumed \in [WorkOrders -> [Parts -> Int]]
  /\ tx \in [Sessions -> TxType]
  /\ \A s \in Sessions : tx[s].pc \in {"flush", "list", "consume"} => tx[s].wo \in WorkOrders
  /\ served \in Nat

\* The cached balance of a part is the sum of its movements, whatever closes
\* and adjustments run at the same time (parts/service.py: "the ledger and the
\* balance can never drift").
LedgerMatches == \A p \in Parts : HasStock(p) => onHand[p] = ledger[p]

\* Concurrent consumers never take a balance below zero
\* (the check in _apply_movement is made on a balance read under the lock).
StockNonNegative == \A p \in Parts : HasStock(p) => onHand[p] >= 0

Commits(s) == tx[s].pc = "commit" /\ tx'[s].pc = "idle" /\ <<wo, plan, onHand, ledger>>' # <<wo, plan, onHand, ledger>>

Crosses(p) == onHand[p] > minStock[p] /\ onHand'[p] <= minStock[p]

\* Stock that a commit takes from above its minimum to or below it has been
\* announced by that transaction, whatever minimums, plans and adjustments are
\* written meanwhile.  It needs adjustments no finer than the columns (a crossing
\* that only the rounding makes is not announced), and a consumption that was
\* not cut short: one that was loses the events service.py:256 promises.
CrossingAnnounced ==
  [][\A s \in Sessions, p \in Parts :
       Commits(s) /\ ~tx[s].cut /\ p \in tx[s].held /\ Crosses(p) => p \in tx[s].alerted]_vars

\* A close that was not cut short consumes exactly the default quantity of
\* every planned part whose qty_used it fills in.
DefaultUseConsumed ==
  [][\A s \in Sessions : Commits(s) /\ tx[s].op = "close" /\ ~tx[s].cut =>
       LET w == tx[s].wo IN
       \A i \in DOMAIN plan[w] :
         plan[w][i].used = NULL /\ plan'[w][i].used # NULL =>
           consumed'[w][plan[w][i].part] - consumed[w][plan[w][i].part] = plan'[w][i].used]_vars

\* Every request ends: no two closes wait for each other's parts for ever.
EveryRequestEnds == \A s \in Sessions : tx[s].pc # "idle" ~> tx[s].pc = "idle"

\* state_machine.py: "Terminal states (closed, cancelled) accept no further
\* transitions."
TerminalIsFinal ==
  [][\A w \in WorkOrders : wo[w].status \in Terminal => wo'[w].status = wo[w].status]_vars

\* The same of its effects: a closed work order takes no more stock and records
\* no second failure.
ClosedTakesNothing ==
  [][\A w \in WorkOrders : wo[w].status \in Terminal =>
       consumed'[w] = consumed[w] /\ wo'[w].failures = wo[w].failures]_vars

\* state_machine.py, of the effects: "Terminal states (closed, cancelled) accept no
\* further transitions."  Only the transition to closed draws the planned parts, so
\* what a work order has drawn of a part stays as it is.
ConsumedOnce ==
  [][\A w \in WorkOrders, p \in Parts : consumed[w][p] # 0 => consumed'[w][p] = consumed[w][p]]_vars

=============================================================================
