-------------------------- MODULE WorkOrdersProofs --------------------------
(* Proofs about WorkOrders, for every set of sessions, work orders and parts. *)
EXTENDS WorkOrders, SequenceTheorems, TLAPS

\* Adjustments no finer than the columns store.
WholeUnits == \A d \in Deltas : \E k \in Int : d = 4 * k

-----------------------------------------------------------------------------
(* Typing *)

LEMMA QuantityType == \A q \in Quantities : q \in Nat /\ q \in Int
<1> TAKE q \in Quantities
<1>1. q \in Nat
  BY QuantitiesAssumption
<1> QED BY <1>1

LEMMA IdleType == Idle \in TxType
  BY NullAssumption DEF Idle, TxType, Stages, Ops, NoPart, Statuses

LEMMA StoredType == ASSUME NEW h \in Int PROVE Stored(h) \in Int
  BY DEF Stored

LEMMA StoredWhole == ASSUME NEW n \in Int PROVE Stored(4 * n) = n
  BY DEF Stored

LEMMA StoredNonNegative == ASSUME NEW h \in Int, h >= 0 PROVE Stored(h) >= 0
  BY DEF Stored

LEMMA MovementType ==
  ASSUME NEW t \in TxType, NEW p \in Parts, onHand[p] \in Int, NEW h \in Int
  PROVE  /\ ApplyMovement(t, p, h) \in TxType
         /\ ApplyMovement(t, p, h).pc = t.pc
         /\ ApplyMovement(t, p, h).wo = t.wo
<1>1. Stored(4 * onHand[p] + h) \in Int /\ Stored(h) \in Int
  BY StoredType
<1>2. ApplyMovement(t, p, h) \in TxType
  BY <1>1 DEF ApplyMovement, TxType
<1> QED BY <1>2 DEF ApplyMovement, TxType

LEMMA MovementFields ==
  ASSUME NEW t \in TxType, NEW p \in Parts, NEW h
  PROVE  /\ ApplyMovement(t, p, h).held = t.held \cup {p}
         /\ ApplyMovement(t, p, h).bal = [t.bal EXCEPT ![p] = Stored(4 * onHand[p] + h)]
         /\ ApplyMovement(t, p, h).delta = [t.delta EXCEPT ![p] = Stored(h)]
  BY DEF ApplyMovement, TxType

LEMMA SetUsedType ==
  ASSUME NEW rows \in Seq(Row), NEW use \in SUBSET Row
  PROVE  SetUsed(rows, use) \in Seq(Row)
<1>1. ASSUME NEW i \in DOMAIN rows PROVE SetUsed(rows, use)[i] \in Row
  <2>1. rows[i] \in Row
    OBVIOUS
  <2>2. CASE \E u \in use : u.id = rows[i].id
    <3> DEFINE v == CHOOSE u \in use : u.id = rows[i].id
    <3>1. v \in Row
      BY <2>2
    <3>2. SetUsed(rows, use)[i] = [rows[i] EXCEPT !.used = v.planned]
      BY <2>2 DEF SetUsed
    <3> HIDE DEF v
    <3> QED BY <2>1, <3>1, <3>2 DEF Row
  <2> QED BY <2>1, <2>2 DEF SetUsed
<1>2. DOMAIN SetUsed(rows, use) = 1 .. Len(rows)
  BY DEF SetUsed
<1>3. SetUsed(rows, use) = [i \in 1 .. Len(rows) |-> SetUsed(rows, use)[i]]
  BY DEF SetUsed
<1>4. Len(rows) \in Nat /\ DOMAIN rows = 1 .. Len(rows)
  OBVIOUS
<1>5. SetUsed(rows, use) \in [1 .. Len(rows) -> Row]
  BY <1>1, <1>3, <1>4
<1> QED BY <1>4, <1>5

\* Every variable keeps its type.
THEOREM Typing == Spec => []TypeOK
<1>1. Init => TypeOK
  <2> SUFFICES ASSUME Init PROVE TypeOK OBVIOUS
  <2>1. wo \in [WorkOrders -> [status : Statuses \cup {"none"}, version : Nat,
                               deleted : BOOLEAN, failures : Nat]]
    BY DEF Init, NewWorkOrder, Statuses, Live, Terminal
  <2>2. plan \in [WorkOrders -> Seq(Row)]
    BY BacklogAssumption DEF Init
  <2>3. onHand \in [Parts -> Int \cup {NULL}] /\ minStock \in [Parts -> Nat]
    <3>1. onHand \in [Parts -> Quantities \cup {NULL}] /\ minStock \in [Parts -> Minimums]
      BY Zenon DEF Init
    <3>2. \A p \in Parts : onHand[p] \in Int \cup {NULL} /\ minStock[p] \in Nat
      BY <3>1, QuantityType, MinimumsAssumption
    <3> QED BY <3>1, <3>2
  <2>4. ledger \in [Parts -> Int]
    <3>1. ledger = [p \in Parts |-> IF HasStock(p) THEN onHand[p] ELSE 0]
      BY Zenon DEF Init
    <3> QED BY <2>3, <3>1 DEF HasStock
  <2>5. consumed \in [WorkOrders -> [Parts -> Int]] /\ served \in Nat
    <3>1. consumed = [w \in WorkOrders |-> NoPart] /\ served = 0
      BY Zenon DEF Init
    <3> QED BY <3>1 DEF NoPart
  <2>6. /\ tx \in [Sessions -> TxType]
        /\ \A s \in Sessions : tx[s].pc \in {"flush", "list", "consume"} => tx[s].wo \in WorkOrders
    <3>1. tx = [s \in Sessions |-> Idle]
      BY Zenon DEF Init
    <3>2. Idle.pc = "idle"
      BY DEF Idle
    <3> QED BY <3>1, <3>2, IdleType
  <2> QED BY <2>1, <2>2, <2>3, <2>4, <2>5, <2>6 DEF TypeOK
<1>2. TypeOK /\ [Next]_vars => TypeOK'
  <2> SUFFICES ASSUME TypeOK, [Next]_vars PROVE TypeOK' OBVIOUS
  <2>1. CASE UNCHANGED vars
    BY <2>1 DEF TypeOK, vars
  <2>2. ASSUME NEW w \in WorkOrders, CreateWorkOrder(w) PROVE TypeOK'
    BY <2>2 DEF CreateWorkOrder, TypeOK, More, stock, NewWorkOrder, Statuses, Live
  <2>3. ASSUME NEW p \in Parts, NEW q \in Quantities, NEW min \in Minimums, CreatePart(p, q, min) PROVE TypeOK'
    BY <2>3, QuantitiesAssumption, MinimumsAssumption DEF CreatePart, TypeOK, More
  <2>4. ASSUME NEW p \in Parts, NEW min \in Minimums, UpdatePart(p, min) PROVE TypeOK'
    BY <2>4, MinimumsAssumption DEF UpdatePart, TypeOK, More
  <2>5. ASSUME NEW w \in WorkOrders, NEW p \in Parts, NEW q \in Quantities, AddWoPart(w, p, q) PROVE TypeOK'
    <3>1. [id |-> served, part |-> p, planned |-> q, used |-> NULL] \in Row
      BY <2>5 DEF TypeOK, Row
    <3> QED BY <2>5, <3>1 DEF AddWoPart, TypeOK, More, stock
  <2>6. ASSUME NEW w \in WorkOrders, NEW q \in Quantities, NEW i \in DOMAIN plan[w], UpdateWoPart(w, i, q) PROVE TypeOK'
    <3>1. plan[w] \in Seq(Row) /\ plan[w][i] \in Row
      BY DEF TypeOK
    <3>2. q > 0 => [plan[w][i] EXCEPT !.planned = q] \in Row
      BY <3>1 DEF Row
    <3>3. \A used \in {q, NULL} : [plan[w][i] EXCEPT !.used = used] \in Row
      BY <3>1 DEF Row
    <3>4. \A r \in Row : [plan[w] EXCEPT ![i] = r] \in Seq(Row)
      BY <3>1
    <3>5. \E r \in Row : plan' = [plan EXCEPT ![w][i] = r]
      BY <2>6, <3>2, <3>3 DEF UpdateWoPart
    <3>6. plan' \in [WorkOrders -> Seq(Row)]
      BY <3>4, <3>5 DEF TypeOK
    <3> QED BY <2>6, <3>6 DEF UpdateWoPart, TypeOK, More, stock
  <2>7. ASSUME NEW w \in WorkOrders, NEW i \in DOMAIN plan[w], DeleteWoPart(w, i) PROVE TypeOK'
    <3>1. RemoveAt(plan[w], i) \in Seq(Row)
      BY DEF TypeOK, RemoveAt
    <3> QED BY <2>7, <3>1 DEF DeleteWoPart, TypeOK, More, stock
  <2>8. ASSUME NEW s \in Sessions, NEW w \in WorkOrders, NEW op \in Ops,
               NEW target \in Statuses \cup {NULL}, NEW failure \in BOOLEAN,
               Begin(s, w, op, target, failure)
        PROVE  TypeOK'
    <3>1. wo[w].version \in Nat
      BY DEF TypeOK
    <3>2. [Idle EXCEPT !.pc = "flush", !.op = op, !.wo = w, !.status = target, !.failure = failure,
                       !.version = IF op = "delete" THEN NULL ELSE wo[w].version + 1] \in TxType
      <4>1. (IF op = "delete" THEN NULL ELSE wo[w].version + 1) \in Nat \cup {NULL}
        BY <3>1
      <4>2. {} \in SUBSET Row /\ << >> \in Seq(Row) /\ NoPart \in [Parts -> Int]
        BY DEF NoPart
      <4> QED BY <4>1, <4>2 DEF Idle, TxType, Stages
    <3>3. [Idle EXCEPT !.pc = "flush", !.op = op, !.wo = w, !.status = target, !.failure = failure,
                       !.version = IF op = "delete" THEN NULL ELSE wo[w].version + 1].wo = w
      BY DEF Idle
    <3> QED BY <3>3, <2>8, <3>2 DEF Begin, TypeOK, More, stock
  <2>9. ASSUME NEW s \in Sessions, NEW p \in Parts, NEW d \in Deltas, Adjust(s, p, d) PROVE TypeOK'
    <3>1. [Idle EXCEPT !.pc = "publish", !.op = "adjust"] \in TxType
      BY IdleType DEF TxType, Stages, Ops
    <3>2. onHand[p] \in Int /\ d \in Int
      BY <2>9, DeltasAssumption DEF Adjust, LockPart, HasStock, TypeOK
    <3>4. tx'[s] \in TxType /\ tx'[s].pc = "publish"
      <4> DEFINE t == [Idle EXCEPT !.pc = "publish", !.op = "adjust"]
      <4>1. tx'[s] = ApplyMovement(t, p, d)
        BY <2>9 DEF Adjust, TypeOK
      <4>2. t.pc = "publish" /\ t \in TxType
        BY <3>1 DEF Idle
      <4> HIDE DEF t
      <4> QED BY <3>2, <4>1, <4>2, MovementType
    <3>5. tx' \in [Sessions -> TxType] /\ \A t \in Sessions : t # s => tx'[t] = tx[t]
      BY <2>9, <3>4 DEF Adjust, TypeOK
    <3> QED BY <2>9, <3>4, <3>5 DEF Adjust, TypeOK, More, stock
  <2>10. ASSUME NEW s \in Sessions, Flush(s) \/ ListParts(s) \/ ConsumeDone(s) \/ Publish(s) PROVE TypeOK'
    <3>1. tx[s] \in TxType
      BY DEF TypeOK
    <3>2. CASE Flush(s)
      BY <3>1, <3>2 DEF Flush, TypeOK, stock, TxType, Stages
    <3>3. CASE ListParts(s)
      <4>1. tx[s].wo \in WorkOrders => plan[tx[s].wo] \in Seq(Row)
        BY DEF TypeOK
      <4> QED BY <3>1, <3>3, <4>1 DEF ListParts, TypeOK, stock, TxType, Stages
    <3>4. CASE ConsumeDone(s)
      BY <3>1, <3>4 DEF ConsumeDone, TypeOK, stock, TxType, Stages
    <3>5. CASE Publish(s)
      BY <3>1, <3>5 DEF Publish, TypeOK, stock, TxType, Stages
    <3> QED BY <2>10, <3>2, <3>3, <3>4, <3>5
  <2>11. ASSUME NEW s \in Sessions, Consume(s) PROVE TypeOK'
    <3> DEFINE row == Head(tx[s].todo)
               qty == IF row.used # NULL THEN row.used ELSE row.planned
               t == [tx[s] EXCEPT !.todo = Tail(@),
                                  !.use = IF row.used = NULL THEN @ \cup {row} ELSE @]
    <3>1. tx[s] \in TxType /\ tx[s].todo \in Seq(Row) /\ tx[s].todo # <<>>
      BY <2>11 DEF TypeOK, TxType, Consume
    <3>2. row \in Row /\ Tail(tx[s].todo) \in Seq(Row)
      BY <3>1
    <3>3. t \in TxType /\ t.wo = tx[s].wo /\ tx[s].wo \in WorkOrders
      BY <2>11, <3>1, <3>2 DEF TxType, TypeOK, Consume
    <3>4. qty \in Int /\ -4 * qty \in Int
      <4>1. row.used \in Quantities \cup {NULL} /\ row.planned \in Quantities
        BY <3>2 DEF Row
      <4>2. qty \in Quantities
        BY <4>1
      <4> HIDE DEF qty
      <4>3. qty \in Int
        BY <4>2, QuantityType
      <4> QED BY <4>3
    <3>5. row.part \in Parts
      BY <3>2 DEF Row
    <3>6. tx'[s] \in TxType /\ tx'[s].wo \in WorkOrders
      <4> HIDE DEF row, qty, t
      <4>1. \/ tx'[s] = t
            \/ /\ LockPart(s, row.part)
               /\ tx'[s] = ApplyMovement(t, row.part, -4 * qty)
            \/ tx'[s] = [t EXCEPT !.todo = <<>>, !.low = {}, !.cut = TRUE]
        BY <2>11 DEF Consume, row, qty, t, TypeOK
      <4>2. CASE tx'[s] = t
        BY <3>3, <4>2
      <4>3. CASE LockPart(s, row.part) /\ tx'[s] = ApplyMovement(t, row.part, -4 * qty)
        <5>1. onHand[row.part] \in Int
          BY <3>5, <4>3 DEF LockPart, HasStock, TypeOK
        <5>3. /\ ApplyMovement(t, row.part, -4 * qty) \in TxType
              /\ ApplyMovement(t, row.part, -4 * qty).wo = t.wo
          BY <3>3, <3>4, <3>5, <5>1, MovementType
        <5> QED BY <3>3, <4>3, <5>3
      <4>4. CASE tx'[s] = [t EXCEPT !.todo = <<>>, !.low = {}, !.cut = TRUE]
        <5>1. << >> \in Seq(Row)
          OBVIOUS
        <5>2. [t EXCEPT !.todo = <<>>, !.low = {}, !.cut = TRUE] \in TxType
          BY <3>3, <5>1 DEF TxType
        <5>3. [t EXCEPT !.todo = <<>>, !.low = {}, !.cut = TRUE].wo = t.wo
          BY <3>3 DEF TxType
        <5> QED BY <3>3, <4>4, <5>2, <5>3
      <4> QED BY <4>1, <4>2, <4>3, <4>4
    <3>7. tx' \in [Sessions -> TxType] /\ \A r \in Sessions : r # s => tx'[r] = tx[r]
      BY <2>11, <3>6 DEF Consume, TypeOK
    <3> QED BY <2>11, <3>6, <3>7 DEF Consume, TypeOK, stock
  <2>12. ASSUME NEW s \in Sessions, StaleRow(s) \/ Rollback(s) \/ DeadlockVictim(s) PROVE TypeOK'
    <3>1. tx' = [tx EXCEPT ![s] = Idle] /\ UNCHANGED <<wo, plan, stock, served>>
      BY <2>12 DEF StaleRow, Rollback, DeadlockVictim
    <3>2. Idle.pc = "idle"
      BY DEF Idle
    <3> QED BY <3>1, <3>2, IdleType DEF TypeOK, stock
  <2>13. ASSUME NEW s \in Sessions, Commit(s) PROVE TypeOK'
    <3>1. tx[s] \in TxType
      BY DEF TypeOK
    <3>2. onHand' \in [Parts -> Int \cup {NULL}] /\ ledger' \in [Parts -> Int]
      BY <2>13, <3>1 DEF Commit, CommitStock, TypeOK, TxType
    <3>3. /\ wo' \in [WorkOrders -> [status : Statuses \cup {"none"}, version : Nat,
                                     deleted : BOOLEAN, failures : Nat]]
          /\ plan' \in [WorkOrders -> Seq(Row)]
          /\ consumed' \in [WorkOrders -> [Parts -> Int]]
      <4>1. CASE tx[s].wo = NULL
        BY <2>13, <4>1 DEF Commit, CommitWorkOrder, TypeOK
      <4>2. CASE tx[s].wo # NULL
        <5> DEFINE w == tx[s].wo
        <5>1. w \in WorkOrders /\ tx[s].use \in SUBSET Row /\ tx[s].delta \in [Parts -> Int]
          BY <3>1, <4>2 DEF TxType
        <5>2. Written(wo[w], tx[s]) \in [status : Statuses \cup {"none"}, version : Nat,
                                          deleted : BOOLEAN, failures : Nat]
          BY <3>1, <5>1 DEF Written, TxType, TypeOK
        <5>3. SetUsed(plan[w], tx[s].use) \in Seq(Row)
          BY <5>1, SetUsedType DEF TypeOK
        <5>4. [p \in Parts |-> IF p \in tx[s].held THEN consumed[w][p] - tx[s].delta[p] ELSE consumed[w][p]]
                \in [Parts -> Int]
          BY <5>1 DEF TypeOK
        <5>5. /\ wo' = [wo EXCEPT ![w] = Written(wo[w], tx[s])]
              /\ plan' = [plan EXCEPT ![w] = SetUsed(plan[w], tx[s].use)]
              /\ consumed' = [consumed EXCEPT ![w] =
                   [p \in Parts |-> IF p \in tx[s].held THEN consumed[w][p] - tx[s].delta[p] ELSE consumed[w][p]]]
          BY <2>13, <4>2, <5>1 DEF Commit, CommitWorkOrder, TypeOK
        <5> HIDE DEF w
        <5> QED BY <5>1, <5>2, <5>3, <5>4, <5>5 DEF TypeOK
      <4> QED BY <4>1, <4>2
    <3>4. /\ tx' \in [Sessions -> TxType]
          /\ \A r \in Sessions : tx'[r].pc \in {"flush", "list", "consume"} => tx'[r].wo \in WorkOrders
      <4>1. tx' = [tx EXCEPT ![s] = Idle] /\ Idle.pc = "idle"
        BY <2>13 DEF Commit, Idle
      <4> QED BY <4>1, IdleType DEF TypeOK
    <3> QED BY <2>13, <3>2, <3>3, <3>4 DEF Commit, TypeOK
  <2>14. NULL \in Statuses \cup {NULL} /\ "closed" \in Statuses /\ {"transition", "close", "edit", "delete"} \subseteq Ops
    BY DEF Statuses, Terminal, Ops
  <2>15. ASSUME NEW s \in Sessions, Request(s) PROVE TypeOK'
    BY <2>8, <2>9, <2>14, <2>15 DEF Request
  <2>16. ASSUME NEW s \in Sessions, Progress(s) \/ Rollback(s) PROVE TypeOK'
    BY <2>10, <2>11, <2>12, <2>13, <2>16 DEF Progress
  <2>17. ASSUME OneStatement PROVE TypeOK'
    BY <2>2, <2>3, <2>4, <2>5, <2>6, <2>7, <2>17 DEF OneStatement
  <2> QED BY <2>1, <2>15, <2>16, <2>17 DEF Next
<1> QED BY <1>1, <1>2, PTL DEF Spec

-----------------------------------------------------------------------------
(* The stock invariant *)

\* FOR UPDATE: a part is held by one session at a time.
Exclusive == \A s, t \in Sessions : s # t => tx[s].held \cap tx[t].held = {}

\* What a session is going to write was computed from the committed balance,
\* which nobody else has changed since, and the check let it through.
Buffered ==
  \A s \in Sessions : \A p \in tx[s].held :
    /\ HasStock(p) /\ tx[s].bal[p] >= 0
    /\ WholeUnits => tx[s].bal[p] = onHand[p] + tx[s].delta[p]

StockInv == Exclusive /\ Buffered /\ StockNonNegative /\ (WholeUnits => LedgerMatches)

\* A step of one session that takes no new lock.
LEMMA QuietStep ==
  ASSUME StockInv, UNCHANGED <<onHand, ledger>>, NEW s \in Sessions,
         \A t \in Sessions \ {s} : tx'[t] = tx[t],
         \/ tx'[s].held = {}
         \/ tx'[s].held = tx[s].held /\ tx'[s].bal = tx[s].bal /\ tx'[s].delta = tx[s].delta
  PROVE  StockInv'
<1>1. Exclusive'
  BY DEF StockInv, Exclusive
<1>2. Buffered'
  BY DEF StockInv, Buffered, HasStock, WholeUnits
<1> QED BY <1>1, <1>2 DEF StockInv, StockNonNegative, LedgerMatches, HasStock, WholeUnits

\* A step that locks one part and buffers one movement of it.
LEMMA MovementStep ==
  ASSUME StockInv, TypeOK, UNCHANGED <<onHand, ledger>>, NEW s \in Sessions,
         \A t \in Sessions \ {s} : tx'[t] = tx[t],
         NEW p \in Parts, LockPart(s, p), NEW h \in Int, ~Insufficient(p, h),
         WholeUnits => \E k \in Int : h = 4 * k,
         NEW t \in TxType,
         t.held = {} \/ (t.held = tx[s].held /\ t.bal = tx[s].bal /\ t.delta = tx[s].delta),
         tx'[s] = ApplyMovement(t, p, h)
  PROVE  StockInv'
<1> DEFINE bal == Stored(4 * onHand[p] + h)
           delta == Stored(h)
<1>0. bal \in Int /\ delta \in Int /\ bal >= 0 /\ (WholeUnits => bal = onHand[p] + delta)
  <2>1. onHand[p] \in Int /\ 4 * onHand[p] + h >= 0
    BY DEF LockPart, HasStock, Insufficient, TypeOK
  <2>2. bal \in Int /\ delta \in Int /\ bal >= 0
    BY <2>1, StoredType, StoredNonNegative
  <2>3. ASSUME WholeUnits PROVE bal = onHand[p] + delta
    <3>1. PICK k \in Int : h = 4 * k
      BY <2>3
    <3>2. 4 * onHand[p] + h = 4 * (onHand[p] + k) /\ onHand[p] + k \in Int
      BY <2>1, <3>1
    <3> QED BY <3>1, <3>2, StoredWhole
  <2> QED BY <2>2, <2>3
<1>1. /\ tx'[s].held = t.held \cup {p}
      /\ tx'[s].bal = [t.bal EXCEPT ![p] = bal] /\ tx'[s].delta = [t.delta EXCEPT ![p] = delta]
  <2> DEFINE u == ApplyMovement(t, p, h)
  <2>1. u.held = t.held \cup {p} /\ u.bal = [t.bal EXCEPT ![p] = bal] /\ u.delta = [t.delta EXCEPT ![p] = delta]
    BY MovementFields
  <2>2. tx'[s] = u
    OBVIOUS
  <2> HIDE DEF u
  <2> QED BY <2>1, <2>2
<1>2. t.bal \in [Parts -> Int] /\ t.delta \in [Parts -> Int] /\ t.held \subseteq Parts
  BY DEF TxType
<1> HIDE DEF bal, delta
<1>3. Exclusive'
  <2>1. \A r \in Sessions \ {s} : p \notin tx[r].held
    BY DEF LockPart, PartFree, PartLockedBy
  <2> QED BY <1>1, <2>1 DEF StockInv, Exclusive
<1>4. Buffered'
  <2> SUFFICES ASSUME NEW r \in Sessions, NEW q \in tx'[r].held
               PROVE  /\ HasStock(q)' /\ tx'[r].bal[q] >= 0
                      /\ WholeUnits => tx'[r].bal[q] = onHand[q] + tx'[r].delta[q]
    BY DEF Buffered, WholeUnits
  <2>1. CASE r # s
    BY <2>1 DEF StockInv, Buffered, HasStock
  <2>2. CASE r = s /\ q = p
    BY <1>0, <1>1, <1>2, <2>2 DEF LockPart, HasStock
  <2>3. CASE r = s /\ q # p
    <3>1. q \in tx[s].held /\ t.bal[q] = tx[s].bal[q] /\ t.delta[q] = tx[s].delta[q]
      BY <1>1, <2>3
    <3>2. tx'[s].bal[q] = tx[s].bal[q] /\ tx'[s].delta[q] = tx[s].delta[q]
      BY <1>1, <1>2, <2>3, <3>1
    <3> QED BY <2>3, <3>1, <3>2 DEF StockInv, Buffered, HasStock
  <2> QED BY <2>1, <2>2, <2>3
<1> QED BY <1>3, <1>4 DEF StockInv, StockNonNegative, LedgerMatches, HasStock, WholeUnits

LEMMA CommitKeepsStock ==
  ASSUME StockInv, TypeOK, NEW s \in Sessions, Commit(s)
  PROVE  StockInv'
<1>1. /\ \A p \in Parts : onHand'[p] = IF p \in tx[s].held THEN tx[s].bal[p] ELSE onHand[p]
      /\ \A p \in Parts : ledger'[p] = IF p \in tx[s].held THEN ledger[p] + tx[s].delta[p] ELSE ledger[p]
  BY DEF Commit, CommitStock
<1>2. tx'[s].held = {} /\ \A t \in Sessions \ {s} : tx'[t] = tx[t]
  BY DEF Commit, Idle, TypeOK
<1>3. \A t \in Sessions : tx[t] \in TxType /\ tx[t].held \subseteq Parts /\ tx[t].bal \in [Parts -> Int]
  BY DEF TypeOK, TxType
<1>4. \A p \in tx[s].held : HasStock(p) /\ tx[s].bal[p] >= 0 /\ tx[s].bal[p] # NULL
  BY <1>3, NullAssumption DEF StockInv, Buffered
<1>5. Exclusive'
  BY <1>2 DEF StockInv, Exclusive
<1>6. Buffered'
  <2> SUFFICES ASSUME NEW t \in Sessions, NEW p \in tx'[t].held
               PROVE  /\ HasStock(p)' /\ tx'[t].bal[p] >= 0
                      /\ WholeUnits => tx'[t].bal[p] = onHand'[p] + tx'[t].delta[p]
    BY DEF Buffered, WholeUnits
  <2>1. t # s /\ tx'[t] = tx[t] /\ p \in Parts
    BY <1>2, <1>3
  <2>2. p \notin tx[s].held
    BY <2>1 DEF StockInv, Exclusive
  <2>3. onHand'[p] = onHand[p]
    BY <1>1, <2>1, <2>2
  <2> QED BY <2>1, <2>3 DEF StockInv, Buffered, HasStock
<1>7. StockNonNegative'
  BY <1>1, <1>4 DEF StockInv, StockNonNegative, HasStock
<1>8. WholeUnits => LedgerMatches'
  <2> SUFFICES ASSUME WholeUnits, NEW p \in Parts, HasStock(p)' PROVE onHand'[p] = ledger'[p]
    BY DEF LedgerMatches
  <2>1. CASE p \in tx[s].held
    <3>1. HasStock(p) /\ tx[s].bal[p] = onHand[p] + tx[s].delta[p]
      BY <2>1 DEF StockInv, Buffered
    <3> QED BY <1>1, <2>1, <3>1 DEF StockInv, LedgerMatches
  <2>2. CASE p \notin tx[s].held
    BY <1>1, <2>2 DEF StockInv, LedgerMatches, HasStock
  <2> QED BY <2>1, <2>2
<1> QED BY <1>5, <1>6, <1>7, <1>8 DEF StockInv, WholeUnits

LEMMA StockStep == StockInv /\ TypeOK /\ TypeOK' /\ [Next]_vars => StockInv'
<1> SUFFICES ASSUME StockInv, TypeOK, TypeOK', [Next]_vars PROVE StockInv'
  OBVIOUS
<1>1. ASSUME UNCHANGED <<onHand, ledger, tx>> PROVE StockInv'
  BY <1>1 DEF StockInv, Exclusive, Buffered, StockNonNegative, LedgerMatches, HasStock, WholeUnits
<1>2. ASSUME NEW p \in Parts, NEW q \in Quantities, NEW min \in Minimums, CreatePart(p, q, min)
      PROVE  StockInv'
  <2>1. q \in Int /\ q >= 0
    BY QuantityType
  <2>2. \A s \in Sessions : p \notin tx[s].held
    BY <1>2 DEF CreatePart, StockInv, Buffered
  <2>3. tx' = tx /\ (\A r \in Parts \ {p} : onHand'[r] = onHand[r] /\ ledger'[r] = ledger[r])
    BY <1>2 DEF CreatePart, TypeOK
  <2>4. onHand'[p] = q /\ ledger'[p] = q
    BY <1>2 DEF CreatePart, TypeOK
  <2>5. \A s \in Sessions : tx[s].held \subseteq Parts
    BY DEF TypeOK, TxType
  <2>6. Exclusive' /\ Buffered'
    BY <2>2, <2>3, <2>5 DEF StockInv, Exclusive, Buffered, HasStock, WholeUnits
  <2>7. StockNonNegative' /\ (WholeUnits => LedgerMatches')
    BY <2>1, <2>3, <2>4 DEF StockInv, StockNonNegative, LedgerMatches, HasStock
  <2> QED BY <2>6, <2>7 DEF StockInv, WholeUnits
<1>3. ASSUME OneStatement PROVE StockInv'
  <2>1. \/ UNCHANGED <<onHand, ledger, tx>>
        \/ \E p \in Parts, q \in Quantities, min \in Minimums : CreatePart(p, q, min)
    BY <1>3 DEF OneStatement, CreateWorkOrder, UpdatePart, AddWoPart, UpdateWoPart, DeleteWoPart, stock
  <2> QED BY <1>1, <1>2, <2>1
<1>4. ASSUME NEW s \in Sessions, tx' = [tx EXCEPT ![s] = Idle], UNCHANGED <<onHand, ledger>>
      PROVE  StockInv'
  <2>1. tx'[s].held = {} /\ \A t \in Sessions \ {s} : tx'[t] = tx[t]
    BY <1>4 DEF Idle, TypeOK
  <2> QED BY <1>4, <2>1, QuietStep
<1>5. ASSUME NEW s \in Sessions, NEW w \in WorkOrders, NEW op, NEW target, NEW failure,
             Begin(s, w, op, target, failure)
      PROVE  StockInv'
  <2>1. tx'[s].held = {} /\ \A t \in Sessions \ {s} : tx'[t] = tx[t]
    BY <1>5 DEF Begin, Idle, TypeOK
  <2> QED BY <1>5, <2>1, QuietStep DEF Begin, stock
<1>6. ASSUME NEW s \in Sessions, Flush(s) \/ ListParts(s) \/ ConsumeDone(s) \/ Publish(s)
      PROVE  StockInv'
  <2>1. tx[s] \in TxType
    BY DEF TypeOK
  <2>2. tx'[s].held = tx[s].held /\ tx'[s].bal = tx[s].bal /\ tx'[s].delta = tx[s].delta
    <3>1. CASE Flush(s)
      BY <2>1, <3>1 DEF Flush, TypeOK, TxType
    <3>2. CASE ListParts(s)
      BY <2>1, <3>2 DEF ListParts, TypeOK, TxType
    <3>3. CASE ConsumeDone(s)
      BY <2>1, <3>3 DEF ConsumeDone, TypeOK, TxType
    <3>4. CASE Publish(s)
      BY <2>1, <3>4 DEF Publish, TypeOK, TxType
    <3> QED BY <1>6, <3>1, <3>2, <3>3, <3>4
  <2>3. UNCHANGED <<onHand, ledger>> /\ \A t \in Sessions \ {s} : tx'[t] = tx[t]
    BY <1>6 DEF Flush, ListParts, ConsumeDone, Publish, TypeOK, stock
  <2> QED BY <2>2, <2>3, QuietStep
<1>7. ASSUME NEW s \in Sessions, NEW p \in Parts, NEW d \in Deltas, Adjust(s, p, d)
      PROVE  StockInv'
  <2> DEFINE t == [Idle EXCEPT !.pc = "publish", !.op = "adjust"]
  <2>1. d \in Int /\ ~Insufficient(p, d)
    BY <1>7, DeltasAssumption DEF Adjust
  <2>2. WholeUnits => \E k \in Int : d = 4 * k
    BY DEF WholeUnits
  <2>4. t \in TxType /\ t.held = {}
    BY IdleType DEF TxType, Stages, Ops, Idle
  <2>5. tx'[s] = ApplyMovement(t, p, d)
    BY <1>7 DEF Adjust, TypeOK
  <2>6. /\ LockPart(s, p) /\ UNCHANGED <<onHand, ledger>>
        /\ \A r \in Sessions \ {s} : tx'[r] = tx[r]
    BY <1>7 DEF Adjust, TypeOK, stock
  <2> HIDE DEF t
  <2> QED BY <2>1, <2>2, <2>4, <2>5, <2>6, MovementStep
<1>8. ASSUME NEW s \in Sessions, Consume(s) PROVE StockInv'
  <2> DEFINE row == Head(tx[s].todo)
             qty == IF row.used # NULL THEN row.used ELSE row.planned
             t == [tx[s] EXCEPT !.todo = Tail(@),
                                !.use = IF row.used = NULL THEN @ \cup {row} ELSE @]
  <2>1. tx[s] \in TxType /\ tx[s].todo \in Seq(Row) /\ tx[s].todo # <<>>
    BY <1>8 DEF TypeOK, TxType, Consume
  <2>2. row \in Row /\ Tail(tx[s].todo) \in Seq(Row)
    BY <2>1
  <2>3. t \in TxType /\ t.held = tx[s].held /\ t.bal = tx[s].bal /\ t.delta = tx[s].delta
    BY <2>1, <2>2 DEF TxType
  <2>4. qty \in Int /\ -qty \in Int /\ -4 * qty \in Int /\ row.part \in Parts
    <3>1. qty \in Int /\ row.part \in Parts
      BY <2>2, QuantityType DEF Row
    <3> HIDE DEF qty
    <3>2. QED BY <3>1
  <2>5. UNCHANGED <<onHand, ledger>> /\ \A r \in Sessions \ {s} : tx'[r] = tx[r]
    BY <1>8 DEF Consume, TypeOK, stock
  <2>6. \/ tx'[s] = t
        \/ /\ LockPart(s, row.part) /\ ~Insufficient(row.part, -4 * qty)
           /\ tx'[s] = ApplyMovement(t, row.part, -4 * qty)
        \/ tx'[s] = [t EXCEPT !.todo = <<>>, !.low = {}, !.cut = TRUE]
    BY <1>8 DEF Consume, TypeOK
  <2> HIDE DEF row, qty, t
  <2>7. CASE tx'[s] = t
    BY <2>3, <2>5, <2>7, QuietStep
  <2>8. CASE /\ LockPart(s, row.part) /\ ~Insufficient(row.part, -4 * qty)
             /\ tx'[s] = ApplyMovement(t, row.part, -4 * qty)
    <3>1. \E k \in Int : -4 * qty = 4 * k
      <4>1. -4 * qty = 4 * (-qty)
        BY <2>4
      <4> QED BY <2>4, <4>1
    <3> QED BY <2>3, <2>4, <2>5, <2>8, <3>1, MovementStep
  <2>9. CASE tx'[s] = [t EXCEPT !.todo = <<>>, !.low = {}, !.cut = TRUE]
    <3>1. tx'[s].held = t.held /\ tx'[s].bal = t.bal /\ tx'[s].delta = t.delta
      BY <2>3, <2>9 DEF TxType
    <3> QED BY <2>3, <2>5, <3>1, QuietStep
  <2> QED BY <2>6, <2>7, <2>8, <2>9
<1>9. ASSUME NEW s \in Sessions, StaleRow(s) \/ Rollback(s) \/ DeadlockVictim(s) PROVE StockInv'
  BY <1>4, <1>9 DEF StaleRow, Rollback, DeadlockVictim, stock
<1>10. ASSUME NEW s \in Sessions, Request(s) PROVE StockInv'
  BY <1>5, <1>7, <1>10 DEF Request
<1>11. ASSUME NEW s \in Sessions, Progress(s) \/ Rollback(s) PROVE StockInv'
  BY <1>6, <1>8, <1>9, <1>11, CommitKeepsStock DEF Progress
<1>12. CASE UNCHANGED vars
  BY <1>1, <1>12 DEF vars
<1> QED BY <1>3, <1>10, <1>11, <1>12 DEF Next

LEMMA StockInit == Init => StockInv
<1> SUFFICES ASSUME Init PROVE StockInv
  OBVIOUS
<1>1. /\ onHand \in [Parts -> Quantities \cup {NULL}]
      /\ ledger = [p \in Parts |-> IF HasStock(p) THEN onHand[p] ELSE 0]
      /\ tx = [s \in Sessions |-> Idle]
  BY Zenon DEF Init
<1>2. \A s \in Sessions : tx[s].held = {}
  BY <1>1 DEF Idle
<1>3. \A p \in Parts : HasStock(p) => onHand[p] >= 0
  BY <1>1, QuantityType DEF HasStock
<1> QED BY <1>1, <1>2, <1>3 DEF StockInv, Exclusive, Buffered, StockNonNegative, LedgerMatches

\* The inductive invariant the two results below rest on.
THEOREM StockInvariant == Spec => [](TypeOK /\ StockInv)
<1>1. TypeOK /\ StockInv /\ [Next]_vars /\ TypeOK' => StockInv'
  BY StockStep
<1> QED BY <1>1, Typing, StockInit, PTL DEF Spec

\* However many closes and adjustments run at once, and whichever of them are
\* rolled back or chosen as deadlock victims, no committed balance is negative.
THEOREM NeverNegative == Spec => []StockNonNegative
<1>1. TypeOK /\ StockInv => StockNonNegative
  BY DEF StockInv
<1> QED BY <1>1, StockInvariant, PTL

\* As long as adjustments are no finer than the columns store, the cached
\* balance is the sum of the movements.
THEOREM BalanceIsLedger == ASSUME WholeUnits PROVE Spec => []LedgerMatches
<1>1. TypeOK /\ StockInv => LedgerMatches
  BY DEF StockInv
<1> QED BY <1>1, StockInvariant, PTL

-----------------------------------------------------------------------------
(* Low stock is announced *)

\* What one planned part does to a closing transaction.
Consumes(b, n, row, qty) ==
  /\ b.pc = "consume" /\ b.todo # <<>> /\ row = Head(b.todo)
  /\ qty = IF row.used # NULL THEN row.used ELSE row.planned
  /\ n.pc = b.pc /\ n.op = b.op /\ n.wo = b.wo /\ n.status = b.status /\ n.failure = b.failure
  /\ n.use = IF row.used = NULL THEN b.use \cup {row} ELSE b.use
  /\ \/ /\ qty = 0 /\ n.todo = Tail(b.todo)
        /\ n.held = b.held /\ n.bal = b.bal /\ n.delta = b.delta /\ n.low = b.low /\ n.cut = b.cut
     \/ /\ qty > 0 /\ n.todo = Tail(b.todo) /\ n.held = b.held \cup {row.part}
        /\ n.bal = [b.bal EXCEPT ![row.part] = onHand[row.part] - qty]
        /\ n.delta = [b.delta EXCEPT ![row.part] = -qty]
        /\ n.low = IF onHand[row.part] > minStock[row.part]
                      /\ onHand[row.part] - qty <= minStock[row.part]
                   THEN b.low \cup {row.part} ELSE b.low
        /\ n.cut = b.cut
     \/ n.todo = <<>> /\ n.cut /\ n.held = b.held /\ n.bal = b.bal /\ n.delta = b.delta

LEMMA ConsumeFields ==
  ASSUME TypeOK, NEW s \in Sessions, Consume(s)
  PROVE  /\ tx[s] \in TxType /\ UNCHANGED <<wo, plan, stock, served>>
         /\ \A r \in Sessions \ {s} : tx'[r] = tx[r]
         /\ \E row \in Row, qty \in Nat : Consumes(tx[s], tx'[s], row, qty)
<1> DEFINE b == tx[s]
           n == tx'[s]
           row == Head(b.todo)
           qty == IF row.used # NULL THEN row.used ELSE row.planned
           t == [b EXCEPT !.todo = Tail(@),
                          !.use = IF row.used = NULL THEN @ \cup {row} ELSE @]
<1>1. b \in TxType /\ b.todo \in Seq(Row) /\ b.todo # <<>> /\ b.pc = "consume"
  BY DEF TypeOK, TxType, Consume
<1>2. row \in Row
  BY <1>1
<1>3. row.planned \in Nat /\ (row.used = NULL \/ row.used \in Nat)
  BY <1>2, QuantityType DEF Row
<1>4. qty \in Nat
  BY <1>3
<1>5. UNCHANGED <<wo, plan, stock, served>> /\ \A r \in Sessions \ {s} : tx'[r] = tx[r]
  BY DEF Consume, TypeOK
<1>6. \/ qty = 0 /\ n = t
      \/ qty > 0 /\ HasStock(row.part) /\ n = ApplyMovement(t, row.part, -4 * qty)
      \/ n = [t EXCEPT !.todo = <<>>, !.low = {}, !.cut = TRUE]
  <2>1. qty <= 0 <=> qty = 0
    BY <1>4
  <2>2. qty > 0 <=> ~NothingUsed(qty)
    BY <1>4 DEF NothingUsed
  <2>3. \/ NothingUsed(qty) /\ tx' = [tx EXCEPT ![s] = t]
        \/ /\ ~NothingUsed(qty) /\ HasStock(row.part)
           /\ tx' = [tx EXCEPT ![s] = ApplyMovement(t, row.part, -4 * qty)]
        \/ tx' = [tx EXCEPT ![s] = [t EXCEPT !.todo = <<>>, !.low = {}, !.cut = TRUE]]
    BY DEF Consume, LockPart
  <2> HIDE DEF t
  <2>4. QED BY <2>1, <2>2, <2>3 DEF TypeOK, NothingUsed
<1>7. /\ t.pc = b.pc /\ t.op = b.op /\ t.wo = b.wo /\ t.status = b.status /\ t.failure = b.failure
      /\ t.use = (IF row.used = NULL THEN b.use \cup {row} ELSE b.use)
      /\ t.todo = Tail(b.todo) /\ t.held = b.held /\ t.bal = b.bal /\ t.delta = b.delta
      /\ t.low = b.low /\ t.cut = b.cut /\ t \in TxType
  <2>1. Tail(b.todo) \in Seq(Row)
    BY <1>1
  <2>2. QED BY <1>1, <1>2, <2>1 DEF TxType
<1>8. row = Head(b.todo) /\ qty = IF row.used # NULL THEN row.used ELSE row.planned
  OBVIOUS
<1> HIDE DEF t, row, qty, b, n
<1>9. ASSUME qty = 0, n = t PROVE Consumes(b, n, row, qty)
  BY <1>1, <1>7, <1>8, <1>9 DEF Consumes
<1>10. ASSUME qty > 0, HasStock(row.part), n = ApplyMovement(t, row.part, -4 * qty)
       PROVE  Consumes(b, n, row, qty)
  <2> DEFINE bal == onHand[row.part] - qty
             low == IF onHand[row.part] > minStock[row.part] /\ bal <= minStock[row.part]
                    THEN t.low \cup {row.part} ELSE t.low
  <2>0. onHand[row.part] \in Int /\ minStock[row.part] \in Int
    <3>1. row.part \in Parts
      BY <1>2 DEF Row
    <3>2. HasStock(row.part)
      BY <1>10
    <3>3. QED BY <3>1, <3>2 DEF TypeOK, HasStock
  <2>4. /\ Stored(4 * onHand[row.part] + -4 * qty) = bal /\ Stored(-4 * qty) = -qty
        /\ 4 * onHand[row.part] + -4 * qty <= 4 * minStock[row.part] <=> bal <= minStock[row.part]
    <3>1. 4 * onHand[row.part] + -4 * qty = 4 * bal /\ -4 * qty = 4 * (-qty) /\ bal \in Int /\ -qty \in Int
      BY <1>4, <2>0
    <3>2. QED BY <2>0, <3>1, StoredWhole
  <2>1. n = [t EXCEPT !.held = @ \cup {row.part}, !.bal[row.part] = bal, !.delta[row.part] = -qty,
                      !.low = low]
    BY <1>10, <2>4 DEF ApplyMovement
  <2> HIDE DEF bal, low
  <2>2. /\ n.pc = t.pc /\ n.op = t.op /\ n.wo = t.wo /\ n.status = t.status /\ n.failure = t.failure
        /\ n.use = t.use /\ n.todo = t.todo /\ n.cut = t.cut /\ n.held = t.held \cup {row.part}
        /\ n.bal = [t.bal EXCEPT ![row.part] = bal] /\ n.delta = [t.delta EXCEPT ![row.part] = -qty]
        /\ n.low = low
    BY <1>7, <2>1 DEF TxType
  <2>3. QED BY <1>1, <1>7, <1>8, <1>10, <2>2 DEF bal, low, Consumes
<1>11. ASSUME n = [t EXCEPT !.todo = <<>>, !.low = {}, !.cut = TRUE]
       PROVE  Consumes(b, n, row, qty)
  <2>1. /\ n.pc = t.pc /\ n.op = t.op /\ n.wo = t.wo /\ n.status = t.status /\ n.failure = t.failure
        /\ n.use = t.use /\ n.todo = <<>> /\ n.cut /\ n.held = t.held /\ n.bal = t.bal /\ n.delta = t.delta
    BY <1>7, <1>11 DEF TxType
  <2>2. QED BY <1>1, <1>7, <1>8, <2>1 DEF Consumes
<1>12. QED BY <1>1, <1>2, <1>4, <1>5, <1>6, <1>9, <1>10, <1>11 DEF b, n

\* A transaction knows of every held part it takes to the minimum, and has
\* published what it knows by the time it can commit.
Announces(t) ==
  /\ t.pc \in {"idle", "flush", "list"} => t.held = {} /\ t.low = {}
  /\ t.pc = "commit" => t.low \subseteq t.alerted
  /\ WholeUnits => \A p \in t.held :
       ~t.cut /\ onHand[p] > minStock[p] /\ t.bal[p] <= minStock[p] => p \in t.low

AlertInv == \A s \in Sessions : Announces(tx[s])

\* A step of one session leaves what the others know true.
LEMMA AlertOne ==
  ASSUME AlertInv, NEW s \in Sessions, UNCHANGED <<onHand, minStock>>,
         \A t \in Sessions \ {s} : tx'[t] = tx[t], Announces(tx'[s])
  PROVE  AlertInv'
<1>1. \A t \in Sessions : Announces(tx'[t])
  BY DEF AlertInv
<1>2. QED BY <1>1 DEF AlertInv, Announces

LEMMA AlertStep == TypeOK /\ StockInv /\ AlertInv /\ [Next]_vars => AlertInv'
<1> SUFFICES ASSUME TypeOK, StockInv, AlertInv, [Next]_vars PROVE AlertInv'
  OBVIOUS
<1>1. \A s \in Sessions : tx[s] \in TxType /\ tx[s].held \subseteq Parts /\ Announces(tx[s])
  BY DEF TypeOK, TxType, AlertInv
<1>2. ASSUME UNCHANGED <<onHand, minStock, tx>> PROVE AlertInv'
  BY <1>2 DEF AlertInv, Announces
<1>3. ASSUME OneStatement PROVE AlertInv'
  <2>1. ASSUME NEW p \in Parts, UNCHANGED tx, \A s \in Sessions : p \notin tx[s].held,
               \A q \in Parts \ {p} : onHand'[q] = onHand[q] /\ minStock'[q] = minStock[q]
        PROVE  AlertInv'
    BY <1>1, <2>1 DEF AlertInv, Announces
  <2>2. ASSUME NEW p \in Parts, NEW min, UpdatePart(p, min) PROVE AlertInv'
    <3>1. \A s \in Sessions : p \notin tx[s].held
      BY <2>2 DEF UpdatePart, PartLockedBy
    <3>2. UNCHANGED tx /\ \A q \in Parts \ {p} : onHand'[q] = onHand[q] /\ minStock'[q] = minStock[q]
      BY <2>2 DEF UpdatePart, TypeOK
    <3>3. QED BY <2>1, <3>1, <3>2
  <2>3. ASSUME NEW p \in Parts, NEW q, NEW min, CreatePart(p, q, min) PROVE AlertInv'
    <3>1. \A s \in Sessions : p \notin tx[s].held
      BY <2>3 DEF CreatePart, StockInv, Buffered
    <3>2. UNCHANGED tx /\ \A r \in Parts \ {p} : onHand'[r] = onHand[r] /\ minStock'[r] = minStock[r]
      BY <2>3 DEF CreatePart, TypeOK
    <3>3. QED BY <2>1, <3>1, <3>2
  <2>4. \/ UNCHANGED <<onHand, minStock, tx>>
        \/ \E p \in Parts, min \in Minimums :
             UpdatePart(p, min) \/ \E q \in Quantities : CreatePart(p, q, min)
    <3>2. ASSUME NEW w \in WorkOrders, CreateWorkOrder(w) PROVE UNCHANGED <<onHand, minStock, tx>>
      BY <3>2 DEF CreateWorkOrder, stock
    <3>3. ASSUME NEW w \in WorkOrders, NEW p \in Parts, NEW q \in Quantities, AddWoPart(w, p, q)
          PROVE  UNCHANGED <<onHand, minStock, tx>>
      BY <3>3 DEF AddWoPart, stock
    <3>4. ASSUME NEW w \in WorkOrders, NEW i \in DOMAIN plan[w], NEW q \in Quantities,
                 UpdateWoPart(w, i, q) \/ DeleteWoPart(w, i)
          PROVE  UNCHANGED <<onHand, minStock, tx>>
      BY <3>4 DEF UpdateWoPart, DeleteWoPart, stock
    <3>5. ASSUME NEW w \in WorkOrders, NEW i \in DOMAIN plan[w], DeleteWoPart(w, i)
          PROVE  UNCHANGED <<onHand, minStock, tx>>
      BY <3>5 DEF DeleteWoPart, stock
    <3>7. QED BY <1>3, <3>2, <3>3, <3>4, <3>5 DEF OneStatement
  <2>5. QED BY <1>2, <2>2, <2>3, <2>4
<1>4. ASSUME NEW s \in Sessions, tx' = [tx EXCEPT ![s] = Idle], UNCHANGED <<onHand, minStock>>
      PROVE  AlertInv'
  <2>1. Announces(tx'[s]) /\ \A t \in Sessions \ {s} : tx'[t] = tx[t]
    BY <1>4 DEF Idle, TypeOK, Announces
  <2>2. QED BY <1>4, <2>1, AlertOne
<1>5. ASSUME NEW s \in Sessions, NEW w \in WorkOrders, NEW op, NEW target, NEW failure,
             Begin(s, w, op, target, failure)
      PROVE  AlertInv'
  <2>1. /\ tx'[s].held = {} /\ tx'[s].low = {} /\ tx'[s].pc = "flush"
        /\ \A t \in Sessions \ {s} : tx'[t] = tx[t]
    BY <1>5 DEF Begin, Idle, TypeOK
  <2>2. Announces(tx'[s])
    BY <2>1 DEF Announces
  <2>3. QED BY <1>5, <2>1, <2>2, AlertOne DEF Begin, stock
<1>6. ASSUME NEW s \in Sessions, Flush(s) \/ ListParts(s) \/ ConsumeDone(s) \/ Publish(s)
      PROVE  AlertInv'
  <2>1. UNCHANGED <<onHand, minStock>> /\ \A t \in Sessions \ {s} : tx'[t] = tx[t]
    BY <1>6 DEF Flush, ListParts, ConsumeDone, Publish, TypeOK, stock
  <2>2. Announces(tx'[s])
    <3>1. CASE Flush(s)
      BY <1>1, <3>1 DEF Flush, TypeOK, TxType, Announces
    <3>2. CASE ListParts(s)
      BY <1>1, <3>2 DEF ListParts, TypeOK, TxType, Announces
    <3>3. CASE ConsumeDone(s)
      BY <1>1, <3>3 DEF ConsumeDone, TypeOK, TxType, Announces
    <3>4. CASE Publish(s)
      BY <1>1, <3>4 DEF Publish, TypeOK, TxType, Announces
    <3>5. QED BY <1>6, <3>1, <3>2, <3>3, <3>4
  <2>3. QED BY <2>1, <2>2, AlertOne
<1>7. ASSUME NEW s \in Sessions, NEW p \in Parts, NEW d \in Deltas, Adjust(s, p, d)
      PROVE  AlertInv'
  <2> DEFINE t == [Idle EXCEPT !.pc = "publish", !.op = "adjust"]
             bal == Stored(4 * onHand[p] + d)
             n == tx'[s]
  <2>1. /\ n = ApplyMovement(t, p, d)
        /\ UNCHANGED <<onHand, minStock>> /\ \A r \in Sessions \ {s} : tx'[r] = tx[r]
    BY <1>7 DEF Adjust, TypeOK, stock
  <2>2. t \in TxType /\ t.held = {} /\ t.low = {} /\ t.pc = "publish"
    BY IdleType DEF TxType, Stages, Ops, Idle
  <2> HIDE DEF t, bal
  <2>3. /\ n.held = {p} /\ n.bal[p] = bal /\ n.pc = "publish"
        /\ n.low = IF onHand[p] > minStock[p] /\ 4 * onHand[p] + d <= 4 * minStock[p] THEN {p} ELSE {}
    BY <2>1, <2>2 DEF ApplyMovement, TxType, bal
  <2>4. Announces(n)
    <3>1. ASSUME WholeUnits, bal <= minStock[p] PROVE 4 * onHand[p] + d <= 4 * minStock[p]
      <4>1. PICK k \in Int : d = 4 * k
        BY <3>1 DEF WholeUnits
      <4>2. onHand[p] \in Int /\ minStock[p] \in Int
        BY <1>7 DEF Adjust, LockPart, HasStock, TypeOK
      <4>3. 4 * onHand[p] + d = 4 * (onHand[p] + k) /\ onHand[p] + k \in Int
        BY <4>1, <4>2
      <4>4. bal = onHand[p] + k
        BY <4>3, StoredWhole DEF bal
      <4>5. QED BY <3>1, <4>2, <4>3, <4>4
    <3> HIDE DEF n
    <3>2. QED BY <2>3, <3>1 DEF Announces
  <2>5. QED BY <2>1, <2>4, AlertOne
<1>8. ASSUME NEW s \in Sessions, Consume(s) PROVE AlertInv'
  <2> DEFINE b == tx[s]
             n == tx'[s]
  <2>0. /\ b \in TxType /\ UNCHANGED <<onHand, minStock>>
        /\ \A r \in Sessions \ {s} : tx'[r] = tx[r]
    BY <1>8, ConsumeFields DEF stock
  <2>1. PICK row \in Row, qty \in Nat : Consumes(b, n, row, qty)
    BY <1>8, ConsumeFields
  <2> HIDE DEF n
  <2>2. row.part \in Parts /\ b.bal \in [Parts -> Int] /\ b.held \subseteq Parts /\ Announces(b)
    BY <1>1, <2>0 DEF Row, TxType
  <2> HIDE DEF b
  <2>3. ASSUME WholeUnits, NEW p \in n.held, ~n.cut, onHand[p] > minStock[p], n.bal[p] <= minStock[p]
        PROVE  p \in n.low
    <3>1. CASE n.held = b.held /\ n.bal = b.bal /\ n.low = b.low /\ n.cut = b.cut
      BY <2>2, <2>3, <3>1 DEF Announces
    <3>2. CASE /\ n.held = b.held \cup {row.part}
               /\ n.bal = [b.bal EXCEPT ![row.part] = onHand[row.part] - qty]
               /\ n.low = IF onHand[row.part] > minStock[row.part]
                             /\ onHand[row.part] - qty <= minStock[row.part]
                          THEN b.low \cup {row.part} ELSE b.low
               /\ n.cut = b.cut
      <4>1. CASE p = row.part
        <5>1. n.bal[p] = onHand[p] - qty
          BY <2>2, <3>2, <4>1
        <5>2. n.low = b.low \cup {p}
          BY <2>3, <3>2, <4>1, <5>1
        <5>3. QED BY <5>2
      <4>2. CASE p # row.part
        <5>1. p \in b.held /\ n.bal[p] = b.bal[p]
          BY <2>2, <3>2, <4>2
        <5>2. p \in b.low
          BY <2>2, <2>3, <3>2, <5>1 DEF Announces
        <5>3. QED BY <3>2, <5>2
      <4>3. QED BY <4>1, <4>2
    <3>3. QED BY <2>1, <2>3, <3>1, <3>2 DEF Consumes
  <2>4. Announces(n)
    BY <2>1, <2>3 DEF Announces, Consumes
  <2>5. QED BY <2>0, <2>4, AlertOne DEF n
<1>9. ASSUME NEW s \in Sessions, Commit(s) PROVE AlertInv'
  <2>1. /\ \A p \in Parts : onHand'[p] = IF p \in tx[s].held THEN tx[s].bal[p] ELSE onHand[p]
        /\ UNCHANGED minStock /\ tx' = [tx EXCEPT ![s] = Idle]
    BY <1>9 DEF Commit, CommitStock
  <2>2. ASSUME NEW t \in Sessions \ {s} PROVE Announces(tx[t])'
    <3>1. \A p \in tx[t].held : onHand'[p] = onHand[p]
      BY <1>1, <2>1 DEF StockInv, Exclusive
    <3>2. tx'[t] = tx[t]
      BY <2>1 DEF TypeOK
    <3>3. QED BY <1>1, <2>1, <3>1, <3>2 DEF Announces
  <2>3. Announces(tx[s])'
    BY <2>1 DEF Idle, TypeOK, Announces
  <2>4. QED BY <2>2, <2>3 DEF AlertInv
<1>10. ASSUME NEW s \in Sessions, StaleRow(s) \/ Rollback(s) \/ DeadlockVictim(s) PROVE AlertInv'
  BY <1>4, <1>10 DEF StaleRow, Rollback, DeadlockVictim, stock
<1>11. ASSUME NEW s \in Sessions, Request(s) PROVE AlertInv'
  BY <1>5, <1>7, <1>11 DEF Request
<1>12. ASSUME NEW s \in Sessions, Progress(s) \/ Rollback(s) PROVE AlertInv'
  BY <1>6, <1>8, <1>9, <1>10, <1>12 DEF Progress
<1>13. CASE UNCHANGED vars
  BY <1>2, <1>13 DEF vars, stock
<1>14. QED BY <1>3, <1>11, <1>12, <1>13 DEF Next

\* The step that ends a transaction and leaves something behind is its commit.
LEMMA CommitsIsCommit ==
  ASSUME TypeOK, [Next]_vars, NEW s \in Sessions, Commits(s)
  PROVE  Commit(s)
<1>1. tx[s].pc = "commit" /\ tx'[s].pc = "idle" /\ <<wo, plan, onHand, ledger>>' # <<wo, plan, onHand, ledger>>
  BY DEF Commits
<1>2. tx'[s] # tx[s]
  BY <1>1
<1>3. ~OneStatement /\ ~UNCHANGED vars
  <2>1. ASSUME OneStatement PROVE UNCHANGED tx
    BY <2>1 DEF OneStatement, CreateWorkOrder, CreatePart, UpdatePart, AddWoPart, UpdateWoPart, DeleteWoPart
  <2>2. QED BY <1>2, <2>1 DEF vars
<1>4. PICK t \in Sessions : Request(t) \/ Progress(t) \/ Rollback(t)
  BY <1>3 DEF Next
<1>5. CASE Request(t)
  <2>1. UNCHANGED <<wo, plan, onHand, ledger>>
    BY <1>5 DEF Request, Begin, Adjust, stock
  <2>2. QED BY <1>1, <2>1
<1>6. CASE Progress(t) /\ ~Commit(t)
  <2>1. UNCHANGED <<wo, plan, onHand, ledger>>
    BY <1>6 DEF Progress, Flush, ListParts, Consume, StaleRow, ConsumeDone, Publish, DeadlockVictim, stock
  <2>2. QED BY <1>1, <2>1
<1>7. CASE Rollback(t)
  BY <1>1, <1>7 DEF Rollback, stock
<1>8. CASE Commit(t)
  <2>1. \A r \in Sessions \ {t} : tx'[r] = tx[r]
    BY <1>8 DEF Commit, TypeOK
  <2>2. QED BY <1>2, <1>8, <2>1
<1>9. QED BY <1>4, <1>5, <1>6, <1>7, <1>8

\* As long as adjustments are no finer than the columns store, whenever a commit
\* takes a part from above its minimum to or below it, the low-stock event has
\* been published by that transaction, however closes, adjustments and changes of
\* the minimum are interleaved.  A consumption that was cut short is the
\* exception: what it collected is dropped with the exception.
THEOREM CrossingsAnnounced == ASSUME WholeUnits PROVE Spec => CrossingAnnounced
<1>1. Init => AlertInv
  <2>1. Announces(Idle)
    BY DEF Announces, Idle
  <2>2. Init => tx = [s \in Sessions |-> Idle]
    BY Zenon DEF Init
  <2>3. QED BY <2>1, <2>2 DEF AlertInv
<1>2. TypeOK /\ StockInv /\ AlertInv /\ [Next]_vars =>
        [\A s \in Sessions, p \in Parts :
           Commits(s) /\ ~tx[s].cut /\ p \in tx[s].held /\ Crosses(p) => p \in tx[s].alerted]_vars
  <2> SUFFICES ASSUME TypeOK, StockInv, AlertInv, [Next]_vars,
                      NEW s \in Sessions, NEW p \in Parts, Commits(s), ~tx[s].cut, p \in tx[s].held,
                      Crosses(p)
               PROVE  p \in tx[s].alerted
    OBVIOUS
  <2>1. Commit(s)
    BY CommitsIsCommit
  <2>2. onHand'[p] = tx[s].bal[p] /\ tx[s].pc = "commit"
    BY <2>1 DEF Commit, CommitStock
  <2>3. QED BY <2>2 DEF AlertInv, Announces, Crosses
<1>3. QED BY <1>1, <1>2, AlertStep, StockInvariant, PTL DEF Spec, CrossingAnnounced

-----------------------------------------------------------------------------
(* Closed work orders *)

\* Requests on the same work order do not overlap.
Serialized == \A s, t \in Sessions : s # t /\ tx[s].wo # NULL => tx[t].wo # tx[s].wo

\* What a transaction is going to do to its work order is still allowed.
StillAllowed(t) ==
  /\ t.wo # NULL => wo[t.wo].status \in Statuses
  /\ t.wo # NULL /\ (t.status # NULL \/ t.op = "close") => CanTransition(wo[t.wo].status, t.status)
  /\ t.failure \/ (t.held # {} /\ t.wo # NULL) => t.op = "close"
  /\ t.op = "close" => t.status = "closed"
  /\ t.pc \in {"list", "consume"} => t.op = "close"

AllowedInv == \A s \in Sessions : StillAllowed(tx[s])

LEMMA AllowedOne ==
  ASSUME AllowedInv, NEW s \in Sessions, UNCHANGED wo,
         \A t \in Sessions \ {s} : tx'[t] = tx[t], StillAllowed(tx'[s])
  PROVE  AllowedInv'
<1>1. \A t \in Sessions : StillAllowed(tx'[t])
  BY DEF AllowedInv
<1>2. QED BY <1>1 DEF AllowedInv, StillAllowed

LEMMA IdleAllowed == StillAllowed(Idle)
  BY DEF StillAllowed, Idle

LEMMA AllowedStep == TypeOK /\ Serialized /\ AllowedInv /\ [Next]_vars => AllowedInv'
<1> SUFFICES ASSUME TypeOK, Serialized, AllowedInv, [Next]_vars PROVE AllowedInv'
  OBVIOUS
<1>1. \A s \in Sessions : tx[s] \in TxType /\ StillAllowed(tx[s])
  BY DEF TypeOK, AllowedInv
<1>2. ASSUME UNCHANGED <<wo, tx>> PROVE AllowedInv'
  BY <1>2 DEF AllowedInv, StillAllowed
<1>3. ASSUME NEW w \in WorkOrders, CreateWorkOrder(w) PROVE AllowedInv'
  <2>1. "none" \notin Statuses
    BY DEF Statuses, Live, Terminal
  <2>2. \A s \in Sessions : tx[s].wo # NULL => tx[s].wo # w
    BY <1>1, <1>3, <2>1, NullAssumption DEF CreateWorkOrder, StillAllowed, TxType
  <2>3. UNCHANGED tx /\ \A v \in WorkOrders \ {w} : wo'[v] = wo[v]
    BY <1>3 DEF CreateWorkOrder, TypeOK
  <2>4. \A s \in Sessions : tx[s].wo \in WorkOrders \cup {NULL}
    BY <1>1 DEF TxType
  <2>5. QED BY <1>1, <2>2, <2>3, <2>4 DEF AllowedInv, StillAllowed
<1>4. ASSUME OneStatement PROVE AllowedInv'
  <2>1. UNCHANGED <<wo, tx>> \/ \E w \in WorkOrders : CreateWorkOrder(w)
    BY <1>4 DEF OneStatement, CreatePart, UpdatePart, AddWoPart, UpdateWoPart, DeleteWoPart
  <2>2. QED BY <1>2, <1>3, <2>1
<1>5. ASSUME NEW s \in Sessions, tx' = [tx EXCEPT ![s] = Idle], UNCHANGED wo
      PROVE  AllowedInv'
  <2>1. tx'[s] = Idle /\ \A t \in Sessions \ {s} : tx'[t] = tx[t]
    BY <1>5 DEF TypeOK
  <2>2. QED BY <1>5, <2>1, IdleAllowed, AllowedOne
<1>6. ASSUME NEW s \in Sessions, NEW w \in WorkOrders, NEW failure \in BOOLEAN,
             NEW op \in {"transition", "close", "edit", "delete"}, NEW target \in Statuses \cup {NULL},
             Begin(s, w, op, target, failure)
      PROVE  AllowedInv'
  <2> DEFINE n == tx'[s]
  <2>1. /\ n.wo = w /\ n.status = target /\ n.failure = failure /\ n.held = {} /\ n.op = op
        /\ n.pc = "flush" /\ UNCHANGED wo /\ \A t \in Sessions \ {s} : tx'[t] = tx[t]
    BY <1>6 DEF Begin, Idle, TypeOK
  <2>2. wo[w].status \in Statuses
    BY <1>6 DEF Begin, Exists, TypeOK
  <2>3. /\ target # NULL \/ op = "close" => CanTransition(wo[w].status, target)
        /\ op = "close" => target = "closed"
        /\ failure => op = "close"
    BY <1>6 DEF Begin, Allowed
  <2> HIDE DEF n
  <2>4. StillAllowed(n)
    BY <2>1, <2>2, <2>3 DEF StillAllowed
  <2>5. QED BY <2>1, <2>4, AllowedOne DEF n
<1>7. ASSUME NEW s \in Sessions, Flush(s) \/ ListParts(s) \/ ConsumeDone(s) \/ Publish(s)
      PROVE  AllowedInv'
  <2>1. UNCHANGED wo /\ \A t \in Sessions \ {s} : tx'[t] = tx[t]
    BY <1>7 DEF Flush, ListParts, ConsumeDone, Publish, TypeOK
  <2>2. StillAllowed(tx'[s])
    <3>1. CASE Flush(s)
      BY <1>1, <3>1 DEF Flush, TypeOK, TxType, StillAllowed
    <3>2. CASE ListParts(s)
      BY <1>1, <3>2 DEF ListParts, TypeOK, TxType, StillAllowed
    <3>3. CASE ConsumeDone(s)
      BY <1>1, <3>3 DEF ConsumeDone, TypeOK, TxType, StillAllowed
    <3>4. CASE Publish(s)
      BY <1>1, <3>4 DEF Publish, TypeOK, TxType, StillAllowed
    <3>5. QED BY <1>7, <3>1, <3>2, <3>3, <3>4
  <2>3. QED BY <2>1, <2>2, AllowedOne
<1>8. ASSUME NEW s \in Sessions, NEW p \in Parts, NEW d \in Deltas, Adjust(s, p, d)
      PROVE  AllowedInv'
  <2> DEFINE t == [Idle EXCEPT !.pc = "publish", !.op = "adjust"]
             n == tx'[s]
  <2>1. /\ n = ApplyMovement(t, p, d)
        /\ UNCHANGED wo /\ \A r \in Sessions \ {s} : tx'[r] = tx[r]
    BY <1>8 DEF Adjust, TypeOK
  <2>2. /\ t \in TxType /\ t.wo = NULL /\ t.failure = FALSE /\ t.op = "adjust" /\ t.pc = "publish"
    BY IdleType DEF TxType, Stages, Ops, Idle
  <2> HIDE DEF t
  <2>3. n.wo = NULL /\ n.failure = FALSE /\ n.op = "adjust" /\ n.pc = "publish"
    BY <2>1, <2>2 DEF ApplyMovement, TxType
  <2> HIDE DEF n
  <2>4. StillAllowed(n)
    BY <2>3 DEF StillAllowed
  <2>5. QED BY <2>1, <2>4, AllowedOne DEF n
<1>9. ASSUME NEW s \in Sessions, Consume(s) PROVE AllowedInv'
  <2> DEFINE b == tx[s]
             n == tx'[s]
  <2>1. UNCHANGED wo /\ \A r \in Sessions \ {s} : tx'[r] = tx[r]
    BY <1>9, ConsumeFields
  <2>2. PICK row \in Row, qty \in Nat : Consumes(b, n, row, qty)
    BY <1>9, ConsumeFields
  <2>3. StillAllowed(b)
    BY <1>1
  <2> HIDE DEF b, n
  <2>4. StillAllowed(n)
    BY <2>2, <2>3 DEF StillAllowed, Consumes
  <2>5. QED BY <2>1, <2>4, AllowedOne DEF n
<1>10. ASSUME NEW s \in Sessions, Commit(s) PROVE AllowedInv'
  <2> DEFINE w == tx[s].wo
  <2>1. tx'[s] = Idle /\ \A t \in Sessions \ {s} : tx'[t] = tx[t]
    BY <1>10 DEF Commit, TypeOK
  <2>2. \A v \in WorkOrders : v # w => wo'[v] = wo[v]
    BY <1>10 DEF Commit, CommitWorkOrder, TypeOK
  <2>3. ASSUME NEW t \in Sessions \ {s} PROVE StillAllowed(tx[t])'
    <3>1. tx'[t] = tx[t] /\ tx[t].wo \in WorkOrders \cup {NULL}
      BY <1>1, <2>1 DEF TxType
    <3>2. tx[t].wo # NULL => wo'[tx[t].wo] = wo[tx[t].wo]
      BY <2>2, <3>1 DEF Serialized
    <3>3. QED BY <1>1, <3>1, <3>2 DEF StillAllowed
  <2>4. StillAllowed(tx[s])'
    BY <2>1 DEF StillAllowed, Idle
  <2>5. QED BY <2>3, <2>4 DEF AllowedInv
<1>11. ASSUME NEW s \in Sessions, StaleRow(s) \/ Rollback(s) \/ DeadlockVictim(s) PROVE AllowedInv'
  BY <1>5, <1>11 DEF StaleRow, Rollback, DeadlockVictim
<1>12. ASSUME NEW s \in Sessions, Request(s) PROVE AllowedInv'
  <2>1. NULL \in Statuses \cup {NULL} /\ "closed" \in Statuses
    BY DEF Statuses, Terminal
  <2>2. QED BY <1>6, <1>8, <1>12, <2>1 DEF Request
<1>13. ASSUME NEW s \in Sessions, Progress(s) \/ Rollback(s) PROVE AllowedInv'
  BY <1>7, <1>9, <1>10, <1>11, <1>13 DEF Progress
<1>14. CASE UNCHANGED vars
  BY <1>2, <1>14 DEF vars
<1>15. QED BY <1>4, <1>12, <1>13, <1>14 DEF Next

LEMMA AllowedInit == Init => AllowedInv
<1>1. Init => tx = [s \in Sessions |-> Idle]
  BY Zenon DEF Init
<1>2. QED BY <1>1, IdleAllowed DEF AllowedInv

\* A transaction that commits to a terminal work order writes no status, takes no
\* stock and records no failure.
LEMMA NothingAllowed ==
  ASSUME NEW t \in TxType, StillAllowed(t), t.wo # NULL, wo[t.wo].status \in Terminal
  PROVE  t.status = NULL /\ t.held = {} /\ ~t.failure
<1>1. wo[t.wo].status \in {"closed", "cancelled"}
  BY DEF Terminal
<1>2. t.status = NULL
  BY <1>1 DEF StillAllowed, CanTransition, Transitions
<1>3. t.op # "close"
  <2>1. ~CanTransition(wo[t.wo].status, "closed")
    BY <1>1 DEF CanTransition, Transitions
  <2>2. QED BY <2>1 DEF StillAllowed
<1>4. QED BY <1>2, <1>3 DEF StillAllowed, TxType

\* What a step may do to a terminal work order.
LEMMA TerminalKept ==
  ASSUME TypeOK, AllowedInv, [Next]_vars, NEW w \in WorkOrders, wo[w].status \in Terminal
  PROVE  wo'[w].status = wo[w].status /\ consumed'[w] = consumed[w] /\ wo'[w].failures = wo[w].failures
<1>1. CASE UNCHANGED <<wo, consumed>>
  BY <1>1
<1>2. ASSUME NEW s \in Sessions, Commit(s)
      PROVE  wo'[w].status = wo[w].status /\ consumed'[w] = consumed[w] /\ wo'[w].failures = wo[w].failures
  <2>1. CASE tx[s].wo # w
    BY <1>2, <2>1 DEF Commit, CommitWorkOrder, TypeOK
  <2>2. CASE tx[s].wo = w /\ w = NULL
    BY <1>2, <2>2 DEF Commit, CommitWorkOrder
  <2>3. CASE tx[s].wo = w /\ w # NULL
    <3>1. tx[s].status = NULL /\ tx[s].held = {} /\ ~tx[s].failure
      BY <2>3, NothingAllowed DEF TypeOK, AllowedInv
    <3>2. /\ wo' = [wo EXCEPT ![w] = Written(wo[w], tx[s])]
          /\ consumed' = [consumed EXCEPT ![w] =
               [p \in Parts |-> IF p \in tx[s].held THEN consumed[w][p] - tx[s].delta[p] ELSE consumed[w][p]]]
      BY <1>2, <2>3 DEF Commit, CommitWorkOrder
    <3>3. wo'[w].status = wo[w].status /\ wo'[w].failures = wo[w].failures
      BY <3>1, <3>2 DEF Written, TypeOK
    <3>4. consumed[w] = [p \in Parts |-> consumed[w][p]]
      BY DEF TypeOK
    <3>5. consumed'[w] = consumed[w]
      BY <3>1, <3>2, <3>4 DEF TypeOK
    <3>6. QED BY <3>3, <3>5
  <2>4. QED BY <2>1, <2>2, <2>3
<1>3. ASSUME NEW v \in WorkOrders, CreateWorkOrder(v)
      PROVE  wo'[w].status = wo[w].status /\ consumed'[w] = consumed[w] /\ wo'[w].failures = wo[w].failures
  <2>1. v # w
    BY <1>3 DEF CreateWorkOrder, Terminal
  <2>2. QED BY <1>3, <2>1 DEF CreateWorkOrder, TypeOK, stock
<1>4. ASSUME OneStatement PROVE UNCHANGED <<wo, consumed>> \/ \E v \in WorkOrders : CreateWorkOrder(v)
  BY <1>4 DEF OneStatement, CreatePart, UpdatePart, AddWoPart, UpdateWoPart, DeleteWoPart, stock
<1>5. ASSUME NEW s \in Sessions, Request(s) PROVE UNCHANGED <<wo, consumed>>
  BY <1>5 DEF Request, Begin, Adjust, stock
<1>6. ASSUME NEW s \in Sessions, Progress(s) \/ Rollback(s), ~Commit(s) PROVE UNCHANGED <<wo, consumed>>
  BY <1>6 DEF Progress, Flush, ListParts, Consume, StaleRow, ConsumeDone, Publish, Rollback,
              DeadlockVictim, stock
<1>7. CASE UNCHANGED vars
  BY <1>7 DEF vars, stock
<1>8. QED BY <1>1, <1>2, <1>3, <1>4, <1>5, <1>6, <1>7 DEF Next

\* As long as requests on the same work order do not overlap, closed and cancelled
\* are final.  (When two of them do overlap they are not: the status a request has
\* checked is not looked at again when its UPDATE gets the row.)
THEOREM TerminalFinal == Spec /\ []Serialized => TerminalIsFinal
<1>1. TypeOK /\ AllowedInv /\ [Next]_vars =>
        [\A w \in WorkOrders : wo[w].status \in Terminal => wo'[w].status = wo[w].status]_vars
  BY TerminalKept
<1>2. QED BY <1>1, AllowedInit, AllowedStep, Typing, PTL DEF Spec, TerminalIsFinal

\* The same of the effects: a terminal work order then takes no more stock and
\* records no second failure, whatever the other requests do meanwhile.
THEOREM ClosedIsSpent == Spec /\ []Serialized => ClosedTakesNothing
<1>1. TypeOK /\ AllowedInv /\ [Next]_vars =>
        [\A w \in WorkOrders : wo[w].status \in Terminal =>
           consumed'[w] = consumed[w] /\ wo'[w].failures = wo[w].failures]_vars
  BY TerminalKept
<1>2. QED BY <1>1, AllowedInit, AllowedStep, Typing, PTL DEF Spec, ClosedTakesNothing

-----------------------------------------------------------------------------
(* The default use is consumed *)

\* A parts list names a part once, under ids handed out before.
Sound(list) ==
  \A i, j \in DOMAIN list :
    /\ list[i].id < served
    /\ i # j => list[i].id # list[j].id /\ list[i].part # list[j].part

PlansInv == \A w \in WorkOrders : Sound(plan[w])

\* Every row of the second list was in the first, perhaps with other
\* quantities, or has been numbered since.
Follows(list, new) ==
  \A i \in DOMAIN new :
    \/ \E j \in DOMAIN list : new[i].id = list[j].id /\ new[i].part = list[j].part
    \/ new[i].id = served

SameRows(list, new) ==
  /\ DOMAIN new = DOMAIN list
  /\ \A i \in DOMAIN new : new[i].id = list[i].id /\ new[i].part = list[i].part

LEMMA RemoveAtFields ==
  ASSUME NEW list \in Seq(Row), NEW i \in DOMAIN list
  PROVE  /\ DOMAIN RemoveAt(list, i) = 1 .. Len(list) - 1
         /\ \A k \in 1 .. Len(list) - 1 :
              RemoveAt(list, i)[k] = list[IF k < i THEN k ELSE k + 1]
<1> DEFINE left == SubSeq(list, 1, i - 1)
           right == SubSeq(list, i + 1, Len(list))
<1>1. i \in 1 .. Len(list) /\ Len(list) \in Nat
  OBVIOUS
<1>2. left \in Seq(Row) /\ Len(left) = i - 1 /\ \A k \in 1 .. i - 1 : left[k] = list[k]
  BY <1>1
<1>3. right \in Seq(Row) /\ Len(right) = Len(list) - i /\ \A k \in 1 .. Len(list) - i : right[k] = list[k + i]
  BY <1>1
<1>4. RemoveAt(list, i) = left \o right
  BY DEF RemoveAt
<1> HIDE DEF left, right
<1>5. /\ Len(left \o right) = Len(list) - 1 /\ left \o right \in Seq(Row)
      /\ \A k \in 1 .. i - 1 : (left \o right)[k] = left[k]
      /\ \A k \in i .. Len(list) - 1 : (left \o right)[k] = right[k - (i - 1)]
  <2>1. Len(left \o right) = Len(left) + Len(right) /\ left \o right \in Seq(Row)
    BY <1>2, <1>3
  <2>2. \A k \in 1 .. Len(left) : (left \o right)[k] = left[k]
    BY <1>1, <1>2, <1>3
  <2>3. \A k \in Len(left) + 1 .. Len(left) + Len(right) : (left \o right)[k] = right[k - Len(left)]
    <3>1. Len(left) \in Nat /\ Len(right) \in Nat
      BY <1>2, <1>3
    <3>2. \A k \in 1 .. Len(left) + Len(right) :
            (left \o right)[k] = IF k <= Len(left) THEN left[k] ELSE right[k - Len(left)]
      BY <1>2, <1>3, ConcatProperties
    <3>3. \A k \in Len(left) + 1 .. Len(left) + Len(right) :
            k \in 1 .. Len(left) + Len(right) /\ ~(k <= Len(left))
      BY <3>1
    <3>4. QED BY <3>2, <3>3
  <2>4. Len(left) + 1 = i /\ Len(left) + Len(right) = Len(list) - 1
    BY <1>1, <1>2, <1>3
  <2>5. QED BY <1>2, <2>1, <2>2, <2>3, <2>4
<1>6. ASSUME NEW k \in 1 .. Len(list) - 1
      PROVE  RemoveAt(list, i)[k] = list[IF k < i THEN k ELSE k + 1]
  <2>1. CASE k < i
    BY <1>1, <1>2, <1>4, <1>5, <2>1
  <2>2. CASE k >= i
    <3>1. k - (i - 1) \in 1 .. Len(list) - i /\ k \in i .. Len(list) - 1
      BY <1>1, <2>2
    <3>2. right[k - (i - 1)] = list[(k - (i - 1)) + i] /\ (k - (i - 1)) + i = k + 1
      BY <1>1, <1>3, <3>1
    <3>3. QED BY <1>1, <1>4, <1>5, <2>2, <3>1, <3>2
  <2>3. QED BY <1>1, <2>1, <2>2
<1>7. DOMAIN RemoveAt(list, i) = 1 .. Len(list) - 1
  BY <1>4, <1>5
<1>8. QED BY <1>6, <1>7

\* What every step does to the parts lists.
PlansKept ==
  PlansInv' /\ served' >= served /\ \A w \in WorkOrders : Follows(plan[w], plan'[w])

LEMMA PlanStep == TypeOK /\ PlansInv /\ [Next]_vars => PlansKept
<1> SUFFICES ASSUME TypeOK, PlansInv, [Next]_vars PROVE PlansKept
  OBVIOUS
<1>1. served \in Nat /\ (\A w \in WorkOrders : plan[w] \in Seq(Row))
  BY DEF TypeOK
<1>2. \A w \in WorkOrders : \A i \in DOMAIN plan[w] : plan[w][i] \in Row /\ plan[w][i].id \in Int
  <2>1. \A w \in WorkOrders : \A i \in DOMAIN plan[w] : plan[w][i] \in Row
    BY <1>1
  <2>2. \A row \in Row : row.id \in Int
    BY DEF Row
  <2>3. QED BY <2>1, <2>2
<1>3. ASSUME UNCHANGED plan, served' = served \/ More PROVE PlansKept
  <2>1. served' >= served /\ served' \in Nat
    BY <1>1, <1>3 DEF More
  <2>2. PlansInv'
    BY <1>1, <1>2, <1>3, <2>1 DEF PlansInv, Sound
  <2>3. QED BY <1>3, <2>1, <2>2 DEF PlansKept, Follows
<1>4. ASSUME NEW w \in WorkOrders, NEW new, plan' = [plan EXCEPT ![w] = new],
             served' = served \/ More, Follows(plan[w], new),
             \A i, j \in DOMAIN new :
               /\ new[i].id < served'
               /\ i # j => new[i].id # new[j].id /\ new[i].part # new[j].part
      PROVE  PlansKept
  <2>1. served' >= served /\ served' \in Nat
    BY <1>1, <1>4 DEF More
  <2>2. plan'[w] = new /\ \A v \in WorkOrders \ {w} : plan'[v] = plan[v]
    BY <1>4 DEF TypeOK
  <2>3. \A v \in WorkOrders \ {w} : Sound(plan[v])' /\ Follows(plan[v], plan'[v])
    BY <1>1, <1>2, <2>1, <2>2 DEF PlansInv, Sound, Follows
  <2>4. Sound(plan[w])' /\ Follows(plan[w], plan'[w])
    BY <1>4, <2>2 DEF Sound
  <2>5. QED BY <2>1, <2>3, <2>4 DEF PlansKept, PlansInv
<1>5. ASSUME NEW w \in WorkOrders, NEW p \in Parts, NEW q \in Quantities, AddWoPart(w, p, q)
      PROVE  PlansKept
  <2> DEFINE old == plan[w]
             row == [id |-> served, part |-> p, planned |-> q, used |-> NULL]
             new == Append(old, row)
  <2>1. old \in Seq(Row) /\ Len(old) \in Nat /\ DOMAIN old = 1 .. Len(old) /\ row \in Row
    <3>1. served \in Int /\ NULL \in Quantities \cup {NULL}
      BY <1>1
    <3>2. row \in Row
      BY <3>1 DEF Row
    <3>3. QED BY <1>1, <3>2
  <2>2. row.id = served /\ row.part = p
    OBVIOUS
  <2>3. plan' = [plan EXCEPT ![w] = new] /\ More /\ \A i \in DOMAIN old : old[i].part # p
    BY <1>5 DEF AddWoPart
  <2>4. \A i \in DOMAIN old : old[i].id \in Int /\ old[i].id < served
    BY <1>2 DEF PlansInv, Sound
  <2>5. \A i, j \in DOMAIN old : i # j => old[i].id # old[j].id /\ old[i].part # old[j].part
    BY DEF PlansInv, Sound
  <2> HIDE DEF row, old
  <2>6. DOMAIN new = 1 .. Len(old) + 1 /\ new[Len(old) + 1] = row /\ \A i \in DOMAIN old : new[i] = old[i]
    BY <2>1
  <2> HIDE DEF new
  <2>7. \A i \in DOMAIN new : i = Len(old) + 1 \/ i \in DOMAIN old
    BY <2>1, <2>6
  <2>8. Follows(old, new)
    BY <2>2, <2>6, <2>7 DEF Follows
  <2>9. served' = served + 1
    BY <2>3 DEF More
  <2>10. \A i, j \in DOMAIN new :
           /\ new[i].id < served'
           /\ i # j => new[i].id # new[j].id /\ new[i].part # new[j].part
    BY <1>1, <2>2, <2>3, <2>4, <2>5, <2>6, <2>7, <2>9
  <2>11. QED BY <1>4, <2>3, <2>8, <2>10 DEF old
<1>6. ASSUME NEW w \in WorkOrders, NEW new, plan' = [plan EXCEPT ![w] = new],
             served' = served \/ More, SameRows(plan[w], new)
      PROVE  PlansKept
  <2>1. served' >= served /\ served' \in Nat
    BY <1>1, <1>6 DEF More
  <2>2. \A i, j \in DOMAIN new :
          /\ new[i].id < served'
          /\ i # j => new[i].id # new[j].id /\ new[i].part # new[j].part
    BY <1>1, <1>2, <1>6, <2>1 DEF PlansInv, Sound, SameRows
  <2>3. Follows(plan[w], new)
    BY <1>6 DEF Follows, SameRows
  <2>4. QED BY <1>4, <1>6, <2>2, <2>3
<1>7. ASSUME NEW w \in WorkOrders, NEW q \in Quantities, NEW i \in DOMAIN plan[w], UpdateWoPart(w, i, q)
      PROVE  PlansKept
  <2>1. PICK row : /\ plan' = [plan EXCEPT ![w][i] = row]
                   /\ row.id = plan[w][i].id /\ row.part = plan[w][i].part
    <3>1. \A v : LET r == [plan[w][i] EXCEPT !.planned = v] IN r.id = plan[w][i].id /\ r.part = plan[w][i].part
      BY <1>2 DEF Row
    <3>2. \A v : LET r == [plan[w][i] EXCEPT !.used = v] IN r.id = plan[w][i].id /\ r.part = plan[w][i].part
      BY <1>2 DEF Row
    <3>3. CASE plan' = [plan EXCEPT ![w][i].planned = q]
      <4> DEFINE r == [plan[w][i] EXCEPT !.planned = q]
      <4>1. plan' = [plan EXCEPT ![w][i] = r] /\ r.id = plan[w][i].id /\ r.part = plan[w][i].part
        BY <3>1, <3>3
      <4> HIDE DEF r
      <4>2. QED BY <4>1
    <3>4. ASSUME NEW v \in {q, NULL}, plan' = [plan EXCEPT ![w][i].used = v]
          PROVE  \E row : /\ plan' = [plan EXCEPT ![w][i] = row]
                          /\ row.id = plan[w][i].id /\ row.part = plan[w][i].part
      <4> DEFINE r == [plan[w][i] EXCEPT !.used = v]
      <4>1. plan' = [plan EXCEPT ![w][i] = r] /\ r.id = plan[w][i].id /\ r.part = plan[w][i].part
        BY <3>2, <3>4
      <4> HIDE DEF r
      <4>2. QED BY <4>1
    <3>5. QED BY <1>7, <3>3, <3>4 DEF UpdateWoPart
  <2> DEFINE new == [plan[w] EXCEPT ![i] = row]
  <2>2. plan' = [plan EXCEPT ![w] = new]
    BY <2>1
  <2>3. DOMAIN new = DOMAIN plan[w] /\ \A k \in DOMAIN new : new[k] = IF k = i THEN row ELSE plan[w][k]
    BY <1>1
  <2>4. SameRows(plan[w], new)
    BY <2>1, <2>3 DEF SameRows
  <2>5. More
    BY <1>7 DEF UpdateWoPart
  <2> HIDE DEF new
  <2>6. QED BY <1>6, <2>2, <2>3, <2>4, <2>5
<1>8. ASSUME NEW w \in WorkOrders, NEW i \in DOMAIN plan[w], DeleteWoPart(w, i) PROVE PlansKept
  <2> DEFINE old == plan[w]
             new == RemoveAt(old, i)
  <2>1. plan' = [plan EXCEPT ![w] = new] /\ More
    BY <1>8 DEF DeleteWoPart
  <2>2. /\ old \in Seq(Row) /\ Len(old) \in Nat /\ DOMAIN old = 1 .. Len(old) /\ i \in 1 .. Len(old)
        /\ DOMAIN new = 1 .. Len(old) - 1
        /\ \A k \in 1 .. Len(old) - 1 : new[k] = old[IF k < i THEN k ELSE k + 1]
    BY <1>1, RemoveAtFields
  <2>3. Sound(old) /\ \A k \in DOMAIN old : old[k].id \in Int
    BY <1>2 DEF PlansInv
  <2> HIDE DEF old, new
  <2>4. \A k \in DOMAIN new : (IF k < i THEN k ELSE k + 1) \in DOMAIN old
    BY <2>2
  <2>5. Follows(old, new)
    BY <2>2, <2>4 DEF Follows
  <2>6. \A j, k \in DOMAIN new : j # k => (IF j < i THEN j ELSE j + 1) # (IF k < i THEN k ELSE k + 1)
    BY <2>2
  <2>7. \A j, k \in DOMAIN new :
          /\ new[j].id < served
          /\ j # k => new[j].id # new[k].id /\ new[j].part # new[k].part
    BY <2>2, <2>3, <2>4, <2>6 DEF Sound
  <2>8. \A j \in DOMAIN new : new[j].id \in Int
    BY <2>2, <2>3, <2>4
  <2>9. \A j \in DOMAIN new : new[j].id < served'
    BY <1>1, <2>1, <2>7, <2>8 DEF More
  <2>10. QED BY <1>4, <2>1, <2>5, <2>7, <2>9 DEF old
<1>9. ASSUME NEW s \in Sessions, Commit(s) PROVE PlansKept
  <2>1. CASE tx[s].wo = NULL
    BY <1>3, <1>9, <2>1 DEF Commit, CommitWorkOrder
  <2>2. CASE tx[s].wo # NULL
    <3> DEFINE w == tx[s].wo
               new == SetUsed(plan[w], tx[s].use)
    <3>1. w \in WorkOrders
      BY <2>2 DEF TypeOK, TxType
    <3>2. plan' = [plan EXCEPT ![w] = new] /\ served' = served
      BY <1>9, <2>2 DEF Commit, CommitWorkOrder
    <3>3. SameRows(plan[w], new)
      BY <1>2, <3>1 DEF SetUsed, Row, SameRows
    <3> HIDE DEF w, new
    <3>4. QED BY <1>6, <3>1, <3>2, <3>3
  <2>3. QED BY <2>1, <2>2
<1>10. ASSUME OneStatement PROVE PlansKept
  <2>1. CASE UNCHANGED plan /\ More
    BY <1>3, <2>1
  <2>2. CASE ~(UNCHANGED plan /\ More)
    BY <1>5, <1>7, <1>8, <1>10, <2>2 DEF OneStatement, CreateWorkOrder, CreatePart, UpdatePart
  <2>3. QED BY <2>1, <2>2
<1>11. ASSUME NEW s \in Sessions, Request(s) PROVE PlansKept
  <2>1. UNCHANGED plan /\ More
    BY <1>11 DEF Request, Begin, Adjust
  <2>2. QED BY <1>3, <2>1
<1>12. ASSUME NEW s \in Sessions, Progress(s) \/ Rollback(s), ~Commit(s) PROVE PlansKept
  <2>1. UNCHANGED <<plan, served>>
    BY <1>12 DEF Progress, Flush, ListParts, Consume, StaleRow, ConsumeDone, Publish, Rollback, DeadlockVictim
  <2>2. QED BY <1>3, <2>1
<1>13. CASE UNCHANGED vars
  BY <1>3, <1>13 DEF vars
<1>14. QED BY <1>9, <1>10, <1>11, <1>12, <1>13 DEF Next

LEMMA PlanInit == Init => PlansInv
<1> SUFFICES ASSUME Init PROVE PlansInv
  OBVIOUS
<1>1. plan \in [WorkOrders -> Backlog] /\ served = 0
  BY DEF Init
<1>2. QED BY <1>1, BacklogAssumption DEF PlansInv, Sound

\* The row is an old one, and still names the same part if the list has it.
SamePart(row, list, n) ==
  /\ row.id < n
  /\ \A i \in DOMAIN list : list[i].id = row.id => list[i].part = row.part

\* How far a close has come with its parts list: every row it has filled in is
\* matched by one movement of the planned quantity, and no part comes up twice.
Tallied(t, list, n) ==
  /\ \A k \in DOMAIN t.todo : SamePart(t.todo[k], list, n) /\ t.todo[k].part \notin t.held
  /\ \A j, k \in DOMAIN t.todo : j # k => t.todo[j].part # t.todo[k].part
  /\ \A u \in t.use : SamePart(u, list, n) /\ \A k \in DOMAIN t.todo : t.todo[k].part # u.part
  /\ ~t.cut => \A u \in t.use : IF u.planned > 0
                                 THEN u.part \in t.held /\ t.delta[u.part] = -u.planned
                                 ELSE u.part \notin t.held
  /\ t.pc \in {"flush", "list"} => t.held = {} /\ t.use = {} /\ t.todo = <<>>

Closing(s) ==
  tx[s].op = "close" => tx[s].wo \in WorkOrders /\ Tallied(tx[s], plan[tx[s].wo], served)

TallyInv == \A s \in Sessions : Closing(s)

LEMMA TalliedKept ==
  ASSUME NEW t \in TxType, NEW list, NEW new, NEW m \in Nat, served \in Nat, m >= served,
         Follows(list, new), Tallied(t, list, served)
  PROVE  Tallied(t, new, m)
<1>1. ASSUME NEW row \in Row, SamePart(row, list, served) PROVE SamePart(row, new, m)
  <2>1. row.id \in Int
    BY DEF Row
  <2>2. row.id < m /\ row.id # served
    BY <1>1, <2>1 DEF SamePart
  <2>3. QED BY <1>1, <2>2 DEF SamePart, Follows
<1>2. t.use \subseteq Row /\ t.todo \in Seq(Row)
  BY DEF TxType
<1>3. \A k \in DOMAIN t.todo : t.todo[k] \in Row
  BY <1>2
<1>4. QED BY <1>1, <1>2, <1>3 DEF Tallied

\* One planned part taken off the list.
LEMMA TalliedConsume ==
  ASSUME NEW b \in TxType, NEW n \in TxType, NEW row \in Row, NEW qty \in Nat, NEW list, NEW m,
         Tallied(b, list, m), Consumes(b, n, row, qty)
  PROVE  Tallied(n, list, m)
<1>1. /\ b.todo \in Seq(Row) /\ b.todo # <<>> /\ row = b.todo[1]
      /\ Tail(b.todo) \in Seq(Row) /\ Len(b.todo) \in Nat
      /\ DOMAIN b.todo = 1 .. Len(b.todo) /\ 1 \in DOMAIN b.todo
  BY DEF Consumes, TxType
<1>2. /\ DOMAIN Tail(b.todo) = 1 .. Len(b.todo) - 1
      /\ \A k \in DOMAIN Tail(b.todo) : Tail(b.todo)[k] = b.todo[k + 1] /\ k + 1 \in DOMAIN b.todo /\ k + 1 # 1
  BY <1>1
<1>3. row.planned \in Nat /\ row.part \in Parts
  BY QuantityType DEF Row
<1>4. b.delta \in [Parts -> Int] /\ b.held \subseteq Parts /\ b.use \subseteq Row
  BY DEF TxType
<1>5. n.pc = "consume" /\ n.use \subseteq b.use \cup {row}
  BY DEF Consumes
<1>6. SamePart(row, list, m) /\ row.part \notin b.held /\ \A u \in b.use : u.part # row.part
  BY <1>1 DEF Tallied
<1>7. \A u \in n.use : SamePart(u, list, m)
  BY <1>5, <1>6 DEF Tallied
<1>8. CASE n.todo = <<>> /\ n.cut
  BY <1>5, <1>7, <1>8 DEF Tallied
<1>9. CASE n.todo = Tail(b.todo) /\ (n.held = b.held \/ n.held = b.held \cup {row.part})
  <2>1. \A k \in DOMAIN n.todo :
          /\ SamePart(n.todo[k], list, m) /\ n.todo[k].part \notin b.held
          /\ n.todo[k].part # row.part /\ \A u \in b.use : n.todo[k].part # u.part
    BY <1>1, <1>2, <1>9 DEF Tallied
  <2>2. \A j, k \in DOMAIN n.todo : j # k => n.todo[j].part # n.todo[k].part
    <3>1. \A j, k \in DOMAIN n.todo : j # k => j + 1 # k + 1
      BY <1>2, <1>9
    <3>2. QED BY <1>2, <1>9, <3>1 DEF Tallied
  <2>3. ASSUME ~n.cut, NEW u \in n.use
        PROVE  IF u.planned > 0 THEN u.part \in n.held /\ n.delta[u.part] = -u.planned
                                ELSE u.part \notin n.held
    <3>1. ~b.cut /\ \/ qty = 0 /\ n.held = b.held /\ n.delta = b.delta
                    \/ qty > 0 /\ n.held = b.held \cup {row.part} /\ n.delta = [b.delta EXCEPT ![row.part] = -qty]
      BY <2>3 DEF Consumes
    <3>2. CASE u \in b.use
      <4>1. u.part # row.part /\ u.part \in Parts
        BY <1>4, <1>6, <3>2 DEF Row
      <4>2. IF u.planned > 0 THEN u.part \in b.held /\ b.delta[u.part] = -u.planned ELSE u.part \notin b.held
        BY <3>1, <3>2 DEF Tallied
      <4>3. (u.part \in n.held <=> u.part \in b.held) /\ n.delta[u.part] = b.delta[u.part]
        BY <1>4, <3>1, <4>1
      <4>4. QED BY <4>2, <4>3
    <3>3. CASE u \notin b.use
      <4>1. u = row /\ row.used = NULL
        BY <1>5, <3>3 DEF Consumes
      <4>2. qty = row.planned
        BY <4>1 DEF Consumes
      <4>3. CASE qty = 0
        BY <1>6, <3>1, <4>1, <4>2, <4>3
      <4>4. CASE qty > 0
        <5>1. n.delta[row.part] = -qty /\ row.part \in n.held
          BY <1>3, <1>4, <3>1, <4>4
        <5>2. QED BY <4>1, <4>2, <4>4, <5>1
      <4>5. QED BY <4>3, <4>4
    <3>4. QED BY <3>2, <3>3
  <2>4. \A k \in DOMAIN n.todo : n.todo[k].part \notin n.held /\ \A u \in n.use : n.todo[k].part # u.part
    BY <1>5, <1>9, <2>1
  <2>5. QED BY <1>5, <1>7, <2>1, <2>2, <2>3, <2>4 DEF Tallied
<1>10. QED BY <1>8, <1>9 DEF Consumes

LEMMA TallyStep == TypeOK /\ TypeOK' /\ PlansInv /\ TallyInv /\ [Next]_vars => TallyInv'
<1> SUFFICES ASSUME TypeOK, TypeOK', PlansInv, TallyInv, [Next]_vars PROVE TallyInv'
  OBVIOUS
<1>1. PlansKept /\ served \in Nat /\ served' \in Nat
  BY PlanStep DEF TypeOK
<1>2. \A s \in Sessions : tx[s] \in TxType /\ tx'[s] \in TxType /\ Closing(s)
  BY DEF TypeOK, TallyInv
<1>3. ASSUME NEW s \in Sessions, tx'[s] = tx[s] PROVE Closing(s)'
  <2>1. CASE tx[s].op = "close"
    <3> DEFINE t == tx[s]
               old == plan[t.wo]
               new == plan'[t.wo]
    <3>1. t.wo \in WorkOrders /\ Tallied(t, old, served) /\ t \in TxType
      BY <1>2, <2>1 DEF Closing
    <3>2. Follows(old, new) /\ served' >= served
      BY <1>1, <3>1 DEF PlansKept
    <3> HIDE DEF t, old, new
    <3>3. Tallied(t, new, served')
      BY <1>1, <3>1, <3>2, TalliedKept
    <3>4. QED BY <1>3, <3>1, <3>3 DEF t, new, Closing
  <2>2. CASE tx[s].op # "close"
    BY <1>3, <2>2 DEF Closing
  <2>3. QED BY <2>1, <2>2
<1>4. ASSUME NEW s \in Sessions, \A t \in Sessions \ {s} : tx'[t] = tx[t], Closing(s)' PROVE TallyInv'
  BY <1>3, <1>4 DEF TallyInv
<1>5. ASSUME NEW s \in Sessions, \A t \in Sessions \ {s} : tx'[t] = tx[t], tx'[s].op # "close"
      PROVE  TallyInv'
  BY <1>4, <1>5 DEF Closing
<1>6. ASSUME NEW s \in Sessions, \A t \in Sessions \ {s} : tx'[t] = tx[t], UNCHANGED <<plan, served>>,
             tx'[s].wo = tx[s].wo, tx'[s].op = tx[s].op,
             tx[s].op = "close" /\ tx[s].wo \in WorkOrders /\ Tallied(tx[s], plan[tx[s].wo], served)
               => Tallied(tx'[s], plan[tx[s].wo], served)
      PROVE  TallyInv'
  <2>1. Closing(s)'
    BY <1>2, <1>6 DEF Closing
  <2>2. QED BY <1>4, <1>6, <2>1
<1>7. ASSUME NEW s \in Sessions, tx' = [tx EXCEPT ![s] = Idle] PROVE TallyInv'
  <2>1. tx'[s] = Idle /\ \A t \in Sessions \ {s} : tx'[t] = tx[t]
    BY <1>7 DEF TypeOK
  <2>2. QED BY <1>5, <2>1 DEF Idle
<1>8. ASSUME NEW s \in Sessions, Flush(s) \/ ConsumeDone(s) \/ Publish(s) PROVE TallyInv'
  <2> DEFINE b == tx[s]
             n == tx'[s]
  <2>1. UNCHANGED <<plan, served>> /\ \A t \in Sessions \ {s} : tx'[t] = tx[t]
    BY <1>8 DEF Flush, ConsumeDone, Publish, TypeOK
  <2>2. /\ n.wo = b.wo /\ n.op = b.op /\ n.todo = b.todo /\ n.use = b.use /\ n.held = b.held
        /\ n.delta = b.delta /\ n.cut = b.cut /\ (n.pc \in {"flush", "list"} => b.pc = "flush")
    <3>1. CASE Flush(s)
      BY <1>2, <3>1 DEF Flush, TypeOK, TxType
    <3>2. CASE ConsumeDone(s)
      BY <1>2, <3>2 DEF ConsumeDone, TypeOK, TxType
    <3>3. CASE Publish(s)
      BY <1>2, <3>3 DEF Publish, TypeOK, TxType
    <3>4. QED BY <1>8, <3>1, <3>2, <3>3
  <2> HIDE DEF b, n
  <2>3. \A list, m : Tallied(b, list, m) => Tallied(n, list, m)
    BY <2>2 DEF Tallied
  <2>4. QED BY <1>6, <2>1, <2>2, <2>3 DEF b, n
<1>9. ASSUME NEW s \in Sessions, ListParts(s) PROVE TallyInv'
  <2> DEFINE b == tx[s]
             n == tx'[s]
             list == plan[b.wo]
  <2>1. UNCHANGED <<plan, served>> /\ \A t \in Sessions \ {s} : tx'[t] = tx[t]
    BY <1>9 DEF ListParts, TypeOK
  <2>2. /\ n.wo = b.wo /\ n.op = b.op /\ n.todo = list /\ n.use = b.use /\ n.held = b.held
        /\ n.pc = "consume" /\ b.pc = "list"
    BY <1>2, <1>9 DEF ListParts, TypeOK, TxType
  <2>3. b.wo \in WorkOrders => Sound(list)
    BY DEF PlansInv
  <2> HIDE DEF b, n, list
  <2>4. ASSUME Tallied(b, list, served), Sound(list) PROVE Tallied(n, list, served)
    <3>1. n.held = {} /\ n.use = {}
      BY <2>2, <2>4 DEF Tallied
    <3>2. \A k \in DOMAIN list : SamePart(list[k], list, served)
      BY <2>4 DEF Sound, SamePart
    <3>3. \A j, k \in DOMAIN list : j # k => list[j].part # list[k].part
      BY <2>4 DEF Sound
    <3>4. QED BY <2>2, <3>1, <3>2, <3>3 DEF Tallied
  <2>5. QED BY <1>6, <2>1, <2>2, <2>3, <2>4 DEF b, n, list
<1>10. ASSUME NEW s \in Sessions, Consume(s) PROVE TallyInv'
  <2> DEFINE b == tx[s]
             n == tx'[s]
  <2>1. UNCHANGED <<plan, served>> /\ (\A t \in Sessions \ {s} : tx'[t] = tx[t]) /\ b \in TxType /\ n \in TxType
    BY <1>2, <1>10, ConsumeFields
  <2>2. PICK row \in Row, qty \in Nat : Consumes(b, n, row, qty)
    BY <1>10, ConsumeFields
  <2> HIDE DEF b, n
  <2>3. n.wo = b.wo /\ n.op = b.op
    BY <2>2 DEF Consumes
  <2>4. \A list, m : Tallied(b, list, m) => Tallied(n, list, m)
    BY <2>1, <2>2, TalliedConsume
  <2>5. QED BY <1>6, <2>1, <2>3, <2>4 DEF b, n
<1>11. ASSUME NEW s \in Sessions, NEW w \in WorkOrders, NEW op, NEW target, NEW failure,
              Begin(s, w, op, target, failure)
       PROVE  TallyInv'
  <2> DEFINE n == tx'[s]
  <2>1. /\ n.wo = w /\ n.held = {} /\ n.use = {} /\ n.todo = <<>>
        /\ \A t \in Sessions \ {s} : tx'[t] = tx[t]
    BY <1>11 DEF Begin, Idle, TypeOK
  <2> HIDE DEF n
  <2>2. \A list, m : Tallied(n, list, m)
    BY <2>1 DEF Tallied
  <2>3. Closing(s)'
    BY <2>1, <2>2 DEF n, Closing
  <2>4. QED BY <1>4, <2>1, <2>3
<1>12. ASSUME NEW s \in Sessions, NEW p \in Parts, NEW d \in Deltas, Adjust(s, p, d) PROVE TallyInv'
  <2> DEFINE t == [Idle EXCEPT !.pc = "publish", !.op = "adjust"]
  <2>1. /\ tx'[s] = ApplyMovement(t, p, d)
        /\ \A r \in Sessions \ {s} : tx'[r] = tx[r]
    BY <1>12 DEF Adjust, TypeOK
  <2>2. t \in TxType /\ t.op = "adjust"
    BY IdleType DEF TxType, Stages, Ops, Idle
  <2> HIDE DEF t
  <2>3. tx'[s].op = "adjust"
    BY <2>1, <2>2 DEF ApplyMovement, TxType
  <2>4. QED BY <1>5, <2>1, <2>3
<1>13. ASSUME UNCHANGED tx PROVE TallyInv'
  BY <1>3, <1>13 DEF TallyInv
<1>14. ASSUME NEW s \in Sessions, Commit(s) \/ StaleRow(s) \/ Rollback(s) \/ DeadlockVictim(s)
       PROVE  TallyInv'
  BY <1>7, <1>14 DEF Commit, StaleRow, Rollback, DeadlockVictim
<1>15. ASSUME NEW s \in Sessions, Request(s) PROVE TallyInv'
  BY <1>11, <1>12, <1>15 DEF Request
<1>16. ASSUME NEW s \in Sessions, Progress(s) \/ Rollback(s) PROVE TallyInv'
  BY <1>8, <1>9, <1>10, <1>14, <1>16 DEF Progress
<1>17. ASSUME OneStatement PROVE UNCHANGED tx
  BY <1>17 DEF OneStatement, CreateWorkOrder, CreatePart, UpdatePart, AddWoPart, UpdateWoPart, DeleteWoPart
<1>18. CASE UNCHANGED vars
  BY <1>13, <1>18 DEF vars
<1>19. QED BY <1>13, <1>15, <1>16, <1>17, <1>18 DEF Next

LEMMA TallyInit == Init => TallyInv
<1>1. Init => tx = [s \in Sessions |-> Idle]
  BY Zenon DEF Init
<1>2. QED BY <1>1 DEF TallyInv, Closing, Idle

\* A close that was not cut short consumes exactly the planned quantity of every
\* row whose qty_used it fills in, whatever happens to the list and to the stock
\* between its reading the list and its commit.
THEOREM DefaultsConsumed == Spec => DefaultUseConsumed
<1>1. TypeOK /\ TallyInv /\ [Next]_vars =>
        [\A s \in Sessions : Commits(s) /\ tx[s].op = "close" /\ ~tx[s].cut =>
           LET w == tx[s].wo IN
           \A i \in DOMAIN plan[w] :
             plan[w][i].used = NULL /\ plan'[w][i].used # NULL =>
               consumed'[w][plan[w][i].part] - consumed[w][plan[w][i].part] = plan'[w][i].used]_vars
  <2> SUFFICES ASSUME TypeOK, TallyInv, [Next]_vars, NEW s \in Sessions, Commits(s),
                      tx[s].op = "close", ~tx[s].cut, NEW i \in DOMAIN plan[tx[s].wo],
                      plan[tx[s].wo][i].used = NULL, plan'[tx[s].wo][i].used # NULL
               PROVE  consumed'[tx[s].wo][plan[tx[s].wo][i].part] - consumed[tx[s].wo][plan[tx[s].wo][i].part]
                        = plan'[tx[s].wo][i].used
    OBVIOUS
  <2> DEFINE t == tx[s]
             w == t.wo
             list == plan[w]
             p == list[i].part
             u == CHOOSE v \in t.use : v.id = list[i].id
  <2>1. Commit(s) /\ t \in TxType
    BY CommitsIsCommit DEF TypeOK
  <2>2. w \in WorkOrders /\ Tallied(t, list, served)
    BY DEF TallyInv, Closing
  <2>3. list \in Seq(Row) /\ list[i] \in Row /\ p \in Parts
    <3>1. list \in Seq(Row)
      BY <2>2 DEF TypeOK
    <3>2. list[i] \in Row
      BY <3>1
    <3>3. QED BY <3>1, <3>2 DEF Row
  <2>4. w # NULL
    BY <2>1 DEF Commit, CommitWorkOrder
  <2>5. /\ plan'[w] = SetUsed(list, t.use)
        /\ consumed'[w] = [q \in Parts |-> IF q \in t.held THEN consumed[w][q] - t.delta[q] ELSE consumed[w][q]]
    BY <2>1, <2>2, <2>4 DEF Commit, CommitWorkOrder, TypeOK
  <2>6. \E v \in t.use : v.id = list[i].id
    BY <2>5 DEF SetUsed
  <2>7. u \in t.use /\ u.id = list[i].id
    BY <2>6
  <2>8. plan'[w][i].used = u.planned
    <3>1. plan'[w][i] = [list[i] EXCEPT !.used = u.planned]
      BY <2>5, <2>6 DEF SetUsed
    <3> HIDE DEF u, list
    <3>2. QED BY <2>3, <3>1 DEF Row
  <2>9. u \in Row /\ u.planned \in Nat
    BY <2>1, <2>7, QuantityType DEF TxType, Row
  <2>0. i \in DOMAIN list
    OBVIOUS
  <2> HIDE DEF u, list, t, w
  <2>10. u.part = p
    BY <2>0, <2>2, <2>7 DEF Tallied, SamePart
  <2>11. IF u.planned > 0 THEN p \in t.held /\ t.delta[p] = -u.planned ELSE p \notin t.held
    BY <2>2, <2>7, <2>10 DEF Tallied, t
  <2>12. consumed[w][p] \in Int
    BY <2>2, <2>3 DEF TypeOK
  <2> HIDE DEF p
  <2>13. consumed'[w][p] - consumed[w][p] = u.planned
    BY <2>3, <2>5, <2>9, <2>11, <2>12
  <2>14. QED BY <2>8, <2>13 DEF p, list, w, t
<1>2. PlansKept => PlansInv'
  BY DEF PlansKept
<1>3. QED BY <1>1, <1>2, Typing, PlanInit, PlanStep, TallyInit, TallyStep, PTL DEF Spec, DefaultUseConsumed
=============================================================================
