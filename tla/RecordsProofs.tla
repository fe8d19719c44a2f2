---------------------------- MODULE RecordsProofs ----------------------------
(***************************************************************************)
(* Screens that change what is stored.  Work orders against the backend:   *)
(* an edit sends every field of a row that may have been loaded long ago,  *)
(* and what other users stored since is safe because the row brings the    *)
(* version it was loaded with, until two requests overlap at the backend   *)
(* and write the same version.  The board of demo mode, where orders are   *)
(* closed in several ways.  Administration, where every change is told to  *)
(* the audit log, some of them later.  And what all screens that store     *)
(* have in common: with every call answered they show what is stored.      *)
(***************************************************************************)
EXTENDS ScreensProofs

LEMMA LiveMounted == Init /\ route = "maintenance" => Live!Init
  BY DEF Init, Mounted

LEMMA LiveStep == [Next]_vars /\ route = "maintenance" => [Live!Next]_<<view, calls, server>>
  BY DEF Next, vars

-----------------------------------------------------------------------------
Ids == Orders \cup {Draft}

Order == [mine : Nat, theirs : Nat, assigned : BOOLEAN, status : Live!Moves, version : Nat,
          checklist : BOOLEAN, overlapped : BOOLEAN]

\* What a version and the edits of others that came with it say of an order, as long as no
\* requests have overlapped on it: if it is the version that is stored, so are the edits.
Vouched(order, version, theirs) ==
  \/ order.overlapped
  \/ /\ version <= order.version
     /\ version = order.version => theirs = order.theirs

\* What is known of an order: an order the backend does not have is of no version.
Behind(stored, o, order) ==
  IF o \in DOMAIN stored THEN Vouched(stored[o], order.version, order.theirs)
  ELSE order.version = 0

Known(stored, rows) ==
  /\ DOMAIN rows \subseteq Ids
  /\ rows \in [DOMAIN rows -> Order]
  /\ \A o \in DOMAIN rows : Behind(stored, o, rows[o])

Sync ==
  [op : Live!Syncs, order : Ids, row : Order, version : Nat, moved : BOOLEAN, read : SUBSET Order]

\* The order a request has read is of the version its call brings.
CallOK(stored, c) ==
  /\ c.op \in Live!Syncs \cup {"detail", "create", "add", "other"}
  /\ c.op = "detail" => c.order \in DOMAIN stored
  /\ c.op \in Live!Syncs =>
       /\ c \in Sync
       /\ c.order \in DOMAIN stored
       /\ Vouched(stored[c.order], c.version, c.row.theirs)
       /\ \A read \in c.read : read.version = c.version
  /\ c.op = "other" => c.order \in DOMAIN stored /\ c.read \subseteq Order
  /\ c.op \in Live!Syncs \cup {"other"} =>
       \A read \in c.read : Vouched(stored[c.order], read.version, read.theirs)
  /\ c.op = "create" => Known(stored, c.rows)

StoredOK(stored) ==
  /\ Orders \subseteq DOMAIN stored /\ DOMAIN stored \subseteq Ids
  /\ stored \in [DOMAIN stored -> Order]
  /\ \A o \in DOMAIN stored : stored[o].version > 0

ViewOK ==
  /\ view = [loading |-> view.loading, rows |-> view.rows, detailed |-> view.detailed,
             edits |-> view.edits]
  /\ Known(server, view.rows)

LiveInv == StoredOK(server) /\ ViewOK /\ \A c \in calls : CallOK(server, c)

LEMMA LiveInit == Live!Init => LiveInv
<1> SUFFICES ASSUME Live!Init PROVE LiveInv
  OBVIOUS
<1>1. Live!Stored \in Order /\ Live!Stored.version = 1
  BY DEF Live!Stored, Order, Live!Moves
<1>2. StoredOK(server)
  BY <1>1 DEF Live!Init, StoredOK, Ids
<1>3. ViewOK
  BY DEF Live!Init, ViewOK, Known
<1>4. QED BY <1>2, <1>3 DEF Live!Init, LiveInv

\* What is known stays known while the stored orders only move on: an order that changes what
\* others stored gets a new version, unless requests overlap.
MovesOn(old, new) ==
  /\ DOMAIN old \subseteq DOMAIN new
  /\ \A o \in DOMAIN old :
       \/ new[o].overlapped
       \/ ~old[o].overlapped /\ Vouched(new[o], old[o].version, old[o].theirs)
  /\ \A o \in DOMAIN new \ DOMAIN old : new[o].version > 0

LEMMA KnownStays ==
  ASSUME NEW old, NEW new, StoredOK(old), StoredOK(new), MovesOn(old, new)
  PROVE  /\ \A rows : Known(old, rows) => Known(new, rows)
         /\ \A c : CallOK(old, c) => CallOK(new, c)
<1>0. ASSUME NEW o \in DOMAIN old, NEW version \in Nat, NEW theirs, Vouched(old[o], version, theirs)
      PROVE  Vouched(new[o], version, theirs)
  <2>1. old[o].version \in Nat /\ new[o].version \in Nat
    BY DEF StoredOK, MovesOn, Order
  <2>2. CASE new[o].overlapped
    BY <2>2 DEF Vouched
  <2>3. CASE ~new[o].overlapped
    <3>1. ~old[o].overlapped /\ Vouched(new[o], old[o].version, old[o].theirs)
      BY <2>3 DEF MovesOn
    <3>2. /\ version <= old[o].version /\ (version = old[o].version => theirs = old[o].theirs)
          /\ old[o].version <= new[o].version
          /\ old[o].version = new[o].version => old[o].theirs = new[o].theirs
      BY <1>0, <2>3, <3>1 DEF Vouched
    <3>3. version <= new[o].version /\ (version = new[o].version => theirs = new[o].theirs)
      BY <2>1, <3>2
    <3>4. QED BY <3>3 DEF Vouched
  <2>4. QED BY <2>2, <2>3
<1>1. ASSUME NEW o, NEW order, order.version \in Nat, Behind(old, o, order)
      PROVE  Behind(new, o, order)
  <2>1. CASE o \in DOMAIN old
    BY <1>0, <1>1, <2>1 DEF Behind, MovesOn
  <2>2. CASE o \in DOMAIN new \ DOMAIN old
    BY <1>1, <2>2 DEF Behind, Vouched, StoredOK, MovesOn, Order
  <2>3. CASE o \notin DOMAIN new
    BY <1>1, <2>3 DEF Behind, MovesOn
  <2>4. QED BY <2>1, <2>2, <2>3
<1>2. ASSUME NEW rows, Known(old, rows) PROVE Known(new, rows)
  BY <1>1, <1>2 DEF Known, Order
<1>3. ASSUME NEW c, CallOK(old, c) PROVE CallOK(new, c)
  <2>1. DOMAIN old \subseteq DOMAIN new
    BY DEF MovesOn
  <2>2. ASSUME c.op \in Live!Syncs PROVE Vouched(new[c.order], c.version, c.row.theirs)
    <3>1. c.order \in DOMAIN old /\ c.version \in Nat /\ Vouched(old[c.order], c.version, c.row.theirs)
      BY <1>3, <2>2 DEF CallOK, Sync
    <3>2. QED BY <3>1, <1>0
  <2>3. ASSUME c.op \in Live!Syncs \cup {"other"}, NEW read \in c.read
        PROVE  Vouched(new[c.order], read.version, read.theirs)
    <3>1. c.order \in DOMAIN old /\ read \in Order /\ Vouched(old[c.order], read.version, read.theirs)
      BY <1>3, <2>3 DEF CallOK, Sync
    <3>2. read.version \in Nat
      BY <3>1 DEF Order
    <3>3. QED BY <3>1, <3>2, <1>0
  <2>4. QED BY <1>2, <1>3, <2>1, <2>2, <2>3 DEF CallOK
<1>4. QED BY <1>2, <1>3

-----------------------------------------------------------------------------
\* Steps that leave the stored orders as they are.
LEMMA ViewSteps ==
  ASSUME LiveInv, UNCHANGED server, ViewOK', \A c \in calls' \ calls : CallOK(server', c)
  PROVE  LiveInv'
<1>1. StoredOK(server') /\ MovesOn(server, server')
  BY DEF LiveInv, StoredOK, MovesOn, Vouched, Order
<1>2. \A c \in calls : CallOK(server', c)
  BY <1>1, KnownStays DEF LiveInv
<1>3. QED BY <1>1, <1>2 DEF LiveInv

\* A row that is replaced by what is stored, by what is known, or edited.
LEMMA RowReplaced ==
  ASSUME LiveInv, NEW o \in Ids, NEW order \in Order, Behind(server, o, order), UNCHANGED server,
         view' = [view EXCEPT !.rows = view'.rows, !.detailed = view'.detailed, !.edits = view'.edits],
         view'.rows = [view.rows EXCEPT ![o] = order]
  PROVE  ViewOK'
<1>1. view' = [loading |-> view'.loading, rows |-> view'.rows, detailed |-> view'.detailed,
               edits |-> view'.edits]
  BY DEF LiveInv, ViewOK
<1>2. \A p \in DOMAIN view'.rows : view'.rows[p] \in Order /\ Behind(server, p, view'.rows[p])
  BY DEF LiveInv, ViewOK, Known
<1>3. Known(server', view'.rows)
  BY <1>2 DEF LiveInv, ViewOK, Known, Behind
<1>4. QED BY <1>1, <1>3 DEF ViewOK

LEMMA WithKnown ==
  ASSUME NEW stored, NEW order \in Order, NEW rows, Known(stored, rows),
         Behind(stored, Draft, order)
  PROVE  Known(stored, Live!With(order, rows))
<1> DEFINE new == Live!With(order, rows)
<1>1. DOMAIN new = DOMAIN rows \cup {Draft}
  BY DEF Live!With
<1>2. \A o \in DOMAIN new : new[o] = IF o = Draft THEN order ELSE rows[o]
  BY DEF Live!With
<1>3. new = [o \in DOMAIN new |-> new[o]]
  BY <1>1, <1>2 DEF Live!With
<1> HIDE DEF new
<1>4. \A o \in DOMAIN new : new[o] \in Order /\ Behind(stored, o, new[o])
  BY <1>1, <1>2 DEF Known
<1>5. new \in [DOMAIN new -> Order]
  BY <1>3, <1>4
<1>6. DOMAIN new \subseteq Ids
  BY <1>1 DEF Known, Ids
<1>7. Known(stored, new)
  BY <1>4, <1>5, <1>6 DEF Known
<1>8. QED BY <1>7 DEF new

-----------------------------------------------------------------------------
\* The steps of the screen.
LEMMA RowKnown ==
  ASSUME LiveInv, NEW o \in DOMAIN server, NEW detail \in BOOLEAN
  PROVE  Live!Row(server[o], detail) \in Order /\ Behind(server, o, Live!Row(server[o], detail))
<1>1. server[o] \in Order
  BY DEF LiveInv, StoredOK
<1> DEFINE row == Live!Row(server[o], detail)
<1>2. /\ row = [server[o] EXCEPT !.checklist = row.checklist, !.overlapped = FALSE]
      /\ row.checklist = (detail /\ server[o].checklist)
      /\ row.version = server[o].version /\ row.theirs = server[o].theirs
  BY <1>1 DEF Live!Row, Order
<1>3. row.checklist \in BOOLEAN
  BY <1>2, Zenon
<1> HIDE DEF row
<1>4. row \in Order
  BY <1>1, <1>2, <1>3 DEF Order
<1>5. Behind(server, o, row)
  BY <1>1, <1>2 DEF Order, Behind, Vouched
<1>6. QED BY <1>4, <1>5 DEF row

LEMMA LiveLoaded == ASSUME LiveInv, Live!Loaded PROVE LiveInv'
<1>1. PICK answered \in {Orders, {}} :
        view' = [view EXCEPT !.loading = FALSE,
                             !.rows = [o \in answered |-> Live!Row(server[o], FALSE)]]
  BY DEF Live!Loaded
<1> DEFINE rows == [o \in answered |-> Live!Row(server[o], FALSE)]
<1>2. answered \subseteq DOMAIN server /\ answered \subseteq Ids
  BY DEF LiveInv, StoredOK, Ids
<1>3. \A o \in answered : rows[o] \in Order /\ Behind(server, o, rows[o])
  BY <1>2, RowKnown
<1>4. Known(server, rows)
  BY <1>2, <1>3 DEF Known
<1>5. view' = [loading |-> FALSE, rows |-> rows, detailed |-> view.detailed, edits |-> view.edits]
  BY <1>1 DEF LiveInv, ViewOK
<1> HIDE DEF rows
<1>6. server' = server /\ calls' = calls
  BY DEF Live!Loaded
<1>7. ViewOK'
  BY <1>4, <1>5, <1>6 DEF ViewOK, Known, Behind
<1>8. QED BY <1>6, <1>7, ViewSteps

LEMMA LiveOpen == ASSUME LiveInv, NEW o, Live!Open(o) PROVE LiveInv'
<1>1. /\ view' = [view EXCEPT !.detailed = @ \cup {o}]
      /\ calls' = calls \cup {[op |-> "detail", order |-> o]}
      /\ server' = server
  BY DEF Live!Open, Live!Send
<1>2. o \in DOMAIN server
  BY DEF Live!Open, Live!Shown, LiveInv, ViewOK, Known, Behind
<1>3. ViewOK'
  BY <1>1 DEF LiveInv, ViewOK, Known, Behind
<1>4. \A c \in calls' \ calls : CallOK(server', c)
  BY <1>1, <1>2 DEF CallOK, Live!Syncs
<1>5. QED BY <1>1, <1>3, <1>4, ViewSteps

LEMMA LiveDetailAnswered ==
  ASSUME LiveInv, NEW c \in calls, Live!DetailAnswered(c) PROVE LiveInv'
<1>1. c.order \in DOMAIN server /\ server' = server /\ calls' = calls \ {c}
  BY DEF Live!DetailAnswered, LiveInv, CallOK
<1>2. ViewOK'
  <2>1. CASE view' = [view EXCEPT !.rows[c.order] = Live!Row(server[c.order], TRUE)]
    <3>1. view' = [view EXCEPT !.rows = view'.rows, !.detailed = view'.detailed,
                               !.edits = view'.edits]
      BY <2>1 DEF LiveInv, ViewOK
    <3>2. view'.rows = [view.rows EXCEPT ![c.order] = Live!Row(server[c.order], TRUE)]
      BY <2>1 DEF LiveInv, ViewOK
    <3>3. c.order \in Ids
      BY <1>1 DEF LiveInv, StoredOK
    <3>4. QED BY <1>1, <3>1, <3>2, <3>3, RowKnown, RowReplaced
  <2>2. CASE UNCHANGED view
    BY <1>1, <2>2 DEF LiveInv, ViewOK, Known, Behind
  <2>3. QED BY <2>1, <2>2 DEF Live!DetailAnswered
<1>3. QED BY <1>1, <1>2, ViewSteps

\* An edit that keeps the version and what others stored of the row.
LEMMA LiveEdit ==
  ASSUME LiveInv, NEW o \in Ids, NEW row \in Order, Behind(server, o, row), Live!Edit(o, row)
  PROVE  LiveInv'
<1>1. view' = [view EXCEPT !.rows[o] = row, !.edits = @ + 1] /\ server' = server
  BY DEF Live!Edit
<1>2. ViewOK'
  <2>1. view' = [view EXCEPT !.rows = view'.rows, !.detailed = view'.detailed, !.edits = view'.edits]
    BY <1>1 DEF LiveInv, ViewOK
  <2>2. view'.rows = [view.rows EXCEPT ![o] = row]
    BY <1>1 DEF LiveInv, ViewOK
  <2>3. QED BY <1>1, <2>1, <2>2, RowReplaced
<1>3. CASE row.version = 0
  BY <1>1, <1>2, <1>3, ViewSteps DEF Live!Edit
<1>4. CASE row.version # 0
  <2> DEFINE moved == row.status # view.rows[o].status
             op == IF row.assigned # view.rows[o].assigned THEN "assign" ELSE "patch"
             call == [op |-> op, order |-> o, row |-> row, version |-> row.version,
                      moved |-> moved, read |-> {}]
  <2>1. calls' = calls \cup {call}
    BY <1>4 DEF Live!Edit, Live!Send
  <2>2. o \in DOMAIN server /\ Vouched(server[o], row.version, row.theirs)
    BY <1>4 DEF Behind
  <2>3. op \in {"assign", "patch"} /\ moved \in BOOLEAN
    OBVIOUS
  <2> HIDE DEF op, moved
  <2>4. call \in Sync /\ call.op = op /\ call.order = o /\ call.row = row
        /\ call.version = row.version /\ call.read = {}
    BY <2>3 DEF Sync, Order, Live!Syncs
  <2> HIDE DEF call
  <2>5. ASSUME NEW c, c = call PROVE CallOK(server', c)
    BY <1>1, <2>2, <2>3, <2>4, <2>5 DEF CallOK, Live!Syncs
  <2>6. QED BY <1>1, <1>2, <2>1, <2>5, ViewSteps
<1>5. QED BY <1>3, <1>4

LEMMA LiveEdits ==
  ASSUME LiveInv, NEW o \in Ids, NEW s \in Live!Moves,
         Live!EditFields(o) \/ Live!Assign(o) \/ Live!Move(o, s)
  PROVE  LiveInv'
<1>1. o \in DOMAIN view.rows /\ view.rows[o] \in Order /\ Behind(server, o, view.rows[o])
  BY DEF Live!EditFields, Live!Assign, Live!Move, Live!Shown, LiveInv, ViewOK, Known
<1>2. CASE Live!EditFields(o)
  <2> DEFINE row == [view.rows[o] EXCEPT !.mine = @ + 1]
  <2>1. row \in Order /\ Behind(server, o, row)
    BY <1>1 DEF Order, Behind
  <2>2. Live!Edit(o, row)
    BY <1>2 DEF Live!EditFields
  <2>3. QED BY <2>1, <2>2, LiveEdit
<1>3. CASE Live!Move(o, s)
  <2> DEFINE row == [view.rows[o] EXCEPT !.status = s]
  <2>1. row \in Order /\ Behind(server, o, row)
    BY <1>1 DEF Order, Behind
  <2>2. Live!Edit(o, row)
    BY <1>3 DEF Live!Move
  <2>3. QED BY <2>1, <2>2, LiveEdit
<1>4. CASE Live!Assign(o)
  <2> DEFINE row == [view.rows[o] EXCEPT !.assigned = TRUE]
  <2>1. row \in Order /\ Behind(server, o, row)
    BY <1>1 DEF Order, Behind
  <2>2. Live!Edit(o, row)
    BY <1>4 DEF Live!Assign
  <2>3. QED BY <2>1, <2>2, LiveEdit
<1>5. QED BY <1>2, <1>3, <1>4

\* A request passes the version check: what it has read is of its call's version.
LEMMA LiveChecked ==
  ASSUME LiveInv, NEW c \in calls, Live!Checked(c)
  PROVE  LiveInv'
<1>1. c \in Sync /\ c.op \in Live!Syncs /\ CallOK(server, c)
  BY DEF Live!Checked, LiveInv, CallOK
<1> DEFINE o == c.order
           d == [c EXCEPT !.read = {server[o]}]
<1>2. c.version = server[o].version /\ UNCHANGED <<view, server>> /\ calls' = (calls \ {c}) \cup {d}
  BY DEF Live!Checked
<1>3. o \in DOMAIN server /\ server[o] \in Order /\ Vouched(server[o], c.version, c.row.theirs)
  BY <1>1 DEF CallOK, LiveInv, StoredOK
<1>4. /\ d.op = c.op /\ d.order = o /\ d.row = c.row /\ d.version = c.version /\ d.read = {server[o]}
      /\ d \in Sync
  BY <1>1, <1>3 DEF Sync
<1>5. Vouched(server[o], server[o].version, server[o].theirs)
  BY <1>3 DEF Vouched, Order
<1> HIDE DEF o, d
<1>6. CallOK(server, d)
  BY <1>1, <1>2, <1>3, <1>4, <1>5 DEF CallOK, Live!Syncs
<1>7. \A e \in calls' \ calls : CallOK(server', e)
  BY <1>2, <1>6
<1>8. QED BY <1>2, <1>7, ViewSteps DEF LiveInv, ViewOK

\* What is flushed: the next version of what was read, with the edits of others that were read
\* or made.  Where nobody wrote meanwhile, these are the edits that are stored.
LEMMA Flushed ==
  ASSUME LiveInv, NEW o \in DOMAIN server, NEW read \in Order, NEW new \in Order,
         Vouched(server[o], read.version, read.theirs), Live!Flush(o, read, new)
  PROVE  /\ StoredOK(server') /\ MovesOn(server, server')
         /\ server'[o] \in Order /\ DOMAIN server' = DOMAIN server
         /\ server'[o].version = read.version + 1
         /\ server'[o].overlapped \/ server[o].version = read.version
         /\ \/ server'[o].overlapped
            \/ server[o].theirs = read.theirs /\ server'[o].theirs = new.theirs
         /\ \A p \in DOMAIN server \ {o} : server'[p] = server[p]
<1>1. server \in [DOMAIN server -> Order] /\ server[o] \in Order
  BY DEF LiveInv, StoredOK
<1>2. PICK order : order = server'[o]
  OBVIOUS
<1>3. /\ server' = [server EXCEPT ![o] = order]
      /\ order = [mine |-> order.mine, theirs |-> order.theirs, assigned |-> order.assigned,
                  status |-> order.status, version |-> order.version,
                  checklist |-> order.checklist, overlapped |-> order.overlapped]
      /\ order.mine = IF new.mine = read.mine THEN server[o].mine ELSE new.mine
      /\ order.theirs = IF new.theirs = read.theirs THEN server[o].theirs ELSE new.theirs
      /\ order.assigned = IF new.assigned = read.assigned THEN server[o].assigned ELSE new.assigned
      /\ order.status = IF new.status = read.status THEN server[o].status ELSE new.status
      /\ order.checklist = IF new.checklist = read.checklist THEN server[o].checklist ELSE new.checklist
      /\ order.version = read.version + 1
      /\ order.overlapped = (server[o].overlapped \/ server[o].version # read.version)
  BY <1>1, <1>2 DEF Live!Flush
<1>4. order.mine \in Nat /\ order.theirs \in Nat /\ order.version \in Nat /\ order.status \in Live!Moves
  BY <1>1, <1>3 DEF Order
<1>5. order.version > 0 /\ order.overlapped \in BOOLEAN
  BY <1>3 DEF Order
<1>6. order.assigned \in BOOLEAN /\ order.checklist \in BOOLEAN
  <2>1. /\ new.assigned \in BOOLEAN /\ server[o].assigned \in BOOLEAN
        /\ new.checklist \in BOOLEAN /\ server[o].checklist \in BOOLEAN
    BY <1>1, Zenon DEF Order
  <2>2. QED BY <1>3, <2>1, Zenon
<1>7. order \in Order
  BY <1>3, <1>4, <1>5, <1>6 DEF Order
<1>8. ASSUME ~order.overlapped
      PROVE  /\ ~server[o].overlapped /\ order.version = server[o].version + 1
             /\ server[o].theirs = read.theirs /\ order.theirs = new.theirs
  <2>1. ~server[o].overlapped /\ server[o].version = read.version
    BY <1>3, <1>8
  <2>2. server[o].theirs = read.theirs
    BY <2>1 DEF Vouched
  <2>3. QED BY <1>3, <2>1, <2>2
<1>9. \A p \in DOMAIN server : server[p].version \in Nat /\ server[p].version > 0
  BY DEF LiveInv, StoredOK, Order
<1>10. StoredOK(server')
  BY <1>3, <1>5, <1>7, <1>9 DEF LiveInv, StoredOK
<1>11. MovesOn(server, server')
  <2>1. \A p \in DOMAIN server \ {o} : server'[p] = server[p]
    BY <1>3
  <2>2. \A p \in DOMAIN server : Vouched(server[p], server[p].version, server[p].theirs)
    BY <1>9 DEF Vouched
  <2>3. order.overlapped \/ (~server[o].overlapped /\ Vouched(order, server[o].version, server[o].theirs))
    BY <1>8, <1>9 DEF Vouched
  <2>4. DOMAIN server' = DOMAIN server
    BY <1>3
  <2>5. ASSUME NEW p \in DOMAIN server
        PROVE  \/ server'[p].overlapped
               \/ ~server[p].overlapped /\ Vouched(server'[p], server[p].version, server[p].theirs)
    BY <1>2, <2>1, <2>2, <2>3 DEF Vouched
  <2>6. QED BY <2>4, <2>5 DEF MovesOn
<1>12. server'[o] = order /\ DOMAIN server' = DOMAIN server
       /\ \A p \in DOMAIN server \ {o} : server'[p] = server[p]
  BY <1>1, <1>3
<1>13. QED BY <1>3, <1>7, <1>8, <1>10, <1>11, <1>12

LEMMA ServerSteps ==
  ASSUME LiveInv, StoredOK(server'), MovesOn(server, server'), UNCHANGED view,
         \A c \in calls' \ calls : CallOK(server', c)
  PROVE  LiveInv'
<1>1. ViewOK' /\ \A c \in calls : CallOK(server', c)
  BY KnownStays DEF LiveInv, ViewOK
<1>2. QED BY <1>1 DEF LiveInv

LEMMA LiveWritten ==
  ASSUME LiveInv, NEW c \in calls, Live!Written(c)
  PROVE  LiveInv' /\ Live!OthersEditsStay
<1>1. c \in Sync /\ c.op \in Live!Syncs /\ c.order \in DOMAIN server /\ c.row \in Order /\ CallOK(server, c)
  <2>1. c.op \in Live!Syncs
    BY Zenon DEF Live!Written
  <2>2. QED BY <2>1 DEF LiveInv, CallOK, Sync
<1> DEFINE New(read) == CASE c.op = "assign" -> Live!Assigned(read, c.row)
                          [] c.op = "patch" -> Live!Patched(read, c.row)
                          [] c.op = "move" -> Live!Transitioned(read, c.row)
<1>2. PICK read \in c.read :
        /\ Live!Flush(c.order, read, New(read))
        /\ calls' = (calls \ {c}) \cup
                      {Live!NextCall(c, op, read.version + 1) : op \in Live!FollowUp(c)}
  BY Zenon DEF Live!Written
<1> HIDE DEF New
<1>3. UNCHANGED view
  BY Zenon DEF Live!Written
<1>4. /\ read \in Order /\ read.version = c.version
      /\ Vouched(server[c.order], c.version, c.row.theirs)
      /\ Vouched(server[c.order], read.version, read.theirs)
  BY <1>1, <1>2 DEF CallOK, Sync
<1>5. PICK new : new = New(read)
  OBVIOUS
<1>6. new \in Order /\ (new.theirs = read.theirs \/ new.theirs = c.row.theirs)
  <2>1. CASE c.op = "assign"
    <3>1. c.row.assigned \in BOOLEAN
      BY <1>1, Zenon DEF Order
    <3>2. new = Live!Assigned(read, c.row)
      BY <1>5, <2>1 DEF New
    <3>3. QED BY <1>4, <3>1, <3>2 DEF Live!Assigned, Order
  <2>2. CASE c.op = "patch"
    <3>1. c.row.checklist \in BOOLEAN
      BY <1>1, Zenon DEF Order
    <3>2. c.row.mine \in Nat /\ c.row.theirs \in Nat
      BY <1>1 DEF Order
    <3>3. new = Live!Patched(read, c.row)
      BY <1>5, <2>2 DEF New
    <3>4. QED BY <1>4, <3>1, <3>2, <3>3 DEF Live!Patched, Order
  <2>3. CASE c.op = "move"
    <3>1. c.row.status \in Live!Moves
      BY <1>1 DEF Order
    <3>2. new = Live!Transitioned(read, c.row)
      BY <1>5, <2>3 DEF New
    <3>3. QED BY <1>4, <3>1, <3>2 DEF Live!Transitioned, Order
  <2>4. QED BY <1>1, <2>1, <2>2, <2>3 DEF Live!Syncs
<1>7. /\ StoredOK(server') /\ MovesOn(server, server')
      /\ server'[c.order] \in Order /\ DOMAIN server' = DOMAIN server
      /\ server'[c.order].version = read.version + 1
      /\ server'[c.order].overlapped \/ server[c.order].version = read.version
      /\ \/ server'[c.order].overlapped
         \/ server[c.order].theirs = read.theirs /\ server'[c.order].theirs = new.theirs
      /\ \A p \in DOMAIN server \ {c.order} : server'[p] = server[p]
  <2>1. Live!Flush(c.order, read, new)
    BY <1>2, <1>5
  <2>2. QED BY <1>1, <1>4, <1>6, <2>1, Flushed
<1>8. \/ server'[c.order].overlapped
      \/ server'[c.order].theirs = server[c.order].theirs /\ server[c.order].theirs = c.row.theirs
  <2>1. \/ server'[c.order].overlapped
        \/ ~server[c.order].overlapped /\ Vouched(server'[c.order], server[c.order].version, server[c.order].theirs)
    BY <1>1, <1>7 DEF MovesOn
  <2>2. SUFFICES ASSUME ~server'[c.order].overlapped
                 PROVE  server[c.order].theirs = c.row.theirs
    BY <1>6, <1>7
  <2>3. server[c.order].version \in Nat /\ read.version \in Nat
    BY <1>1, <1>4 DEF LiveInv, StoredOK, Order
  <2>4. ~server[c.order].overlapped /\ server[c.order].version <= read.version + 1
    BY <1>7, <2>1, <2>2 DEF Vouched
  <2>5. server[c.order].version = read.version
    BY <1>7, <2>2
  <2>6. QED BY <1>4, <2>4, <2>5 DEF Vouched
<1>9. ASSUME NEW e \in calls' \ calls PROVE CallOK(server', e)
  <2>1. PICK op \in Live!FollowUp(c) :
          e = Live!NextCall(c, op, read.version + 1)
    BY <1>2, <1>9
  <2>2. op \in {"patch", "move"} /\ read.version + 1 \in Nat
    BY <1>4 DEF Live!FollowUp, Order
  <2>3. /\ e.op = op /\ e.order = c.order /\ e.row = c.row /\ e.version = read.version + 1 /\ e.read = {}
        /\ e \in Sync
    BY <1>1, <2>1, <2>2 DEF Sync, Live!Syncs, Live!NextCall
  <2>4. Vouched(server'[c.order], read.version + 1, c.row.theirs)
    BY <1>7, <1>8, <2>2 DEF Vouched
  <2>5. QED BY <1>1, <1>7, <2>2, <2>3, <2>4 DEF CallOK, Live!Syncs
<1>10. LiveInv'
  BY <1>3, <1>7, <1>9, ServerSteps
<1>11. \A o \in DOMAIN server : server[o].theirs \in Nat
  BY DEF LiveInv, StoredOK, Order
<1>12. QED BY <1>7, <1>8, <1>10, <1>11 DEF Live!OthersEditsStay

\* Another user's request: its edit comes on top of what it has read.
LEMMA LiveOthers ==
  ASSUME LiveInv, (\E o \in Ids : Live!OtherReads(o)) \/ \E c \in calls : Live!OtherWrites(c)
  PROVE  LiveInv' /\ Live!OthersEditsStay
<1>1. \A o \in DOMAIN server : server[o] \in Order /\ server[o].theirs \in Nat /\ server[o].version \in Nat
  BY DEF LiveInv, StoredOK, Order
<1>2. ASSUME NEW o \in Ids, Live!OtherReads(o) PROVE LiveInv' /\ Live!OthersEditsStay
  <2> DEFINE d == [op |-> "other", order |-> o, read |-> {server[o]}]
  <2>1. o \in DOMAIN server /\ UNCHANGED <<view, server>> /\ calls' = calls \cup {d}
    BY <1>2 DEF Live!OtherReads, Live!Send
  <2>2. Vouched(server[o], server[o].version, server[o].theirs)
    BY <1>1, <2>1 DEF Vouched
  <2>3. d.op = "other" /\ d.order = o /\ d.read = {server[o]}
    OBVIOUS
  <2> HIDE DEF d
  <2>4. CallOK(server, d)
    BY <1>1, <2>1, <2>2, <2>3 DEF CallOK, Live!Syncs
  <2>5. LiveInv'
    BY <2>1, <2>4, ViewSteps DEF LiveInv, ViewOK
  <2>6. QED BY <1>1, <2>1, <2>5 DEF Live!OthersEditsStay
<1>3. ASSUME NEW c \in calls, Live!OtherWrites(c) PROVE LiveInv' /\ Live!OthersEditsStay
  <2>1. PICK read \in c.read : Live!Flush(c.order, read, [read EXCEPT !.theirs = @ + 1])
    BY <1>3 DEF Live!OtherWrites
  <2>2. UNCHANGED view /\ calls' \subseteq calls
    BY <1>3 DEF Live!OtherWrites
  <2>3. c.order \in DOMAIN server /\ read \in Order /\ Vouched(server[c.order], read.version, read.theirs)
    BY <1>3, <2>1 DEF Live!OtherWrites, LiveInv, CallOK
  <2>4. PICK new : new = [read EXCEPT !.theirs = @ + 1]
    OBVIOUS
  <2>5. read.theirs \in Nat /\ read.theirs + 1 \in Nat
    BY <2>3 DEF Order
  <2>6. new \in Order /\ new.theirs = read.theirs + 1
    BY <2>3, <2>4, <2>5 DEF Order
  <2>7. /\ StoredOK(server') /\ MovesOn(server, server')
        /\ \/ server'[c.order].overlapped
           \/ server[c.order].theirs = read.theirs /\ server'[c.order].theirs = new.theirs
        /\ \A p \in DOMAIN server \ {c.order} : server'[p] = server[p]
    BY <2>1, <2>3, <2>4, <2>6, Flushed
  <2>8. LiveInv'
    BY <2>2, <2>7, ServerSteps
  <2>9. ASSUME NEW o \in DOMAIN server PROVE server'[o].overlapped \/ server'[o].theirs >= server[o].theirs
    BY <1>1, <2>5, <2>6, <2>7
  <2>10. QED BY <2>8, <2>9 DEF Live!OthersEditsStay
<1>4. QED BY <1>2, <1>3

\* The order raised here gets an identity.
LEMMA LiveCreated ==
  ASSUME LiveInv, NEW c \in calls, Live!Created(c)
  PROVE  LiveInv' /\ \A o \in DOMAIN server : server'[o] = server[o]
<1>1. Live!Stored \in Order /\ Live!Stored.version = 1
  BY DEF Live!Stored, Order, Live!Moves
<1>2. Draft \notin DOMAIN server /\ server' = Live!With(Live!Stored, server)
      /\ calls' = calls \ {c}
  BY DEF Live!Created
<1>3. /\ DOMAIN server' = DOMAIN server \cup {Draft} /\ server'[Draft] = Live!Stored
      /\ \A o \in DOMAIN server : server'[o] = server[o]
      /\ server' = [o \in DOMAIN server' |-> server'[o]]
  BY <1>2 DEF Live!With
<1>4. StoredOK(server') /\ MovesOn(server, server')
  <2>1. \A o \in DOMAIN server' : server'[o] \in Order /\ server'[o].version > 0
    BY <1>1, <1>3 DEF LiveInv, StoredOK
  <2>2. server' \in [DOMAIN server' -> Order]
    BY <1>3, <2>1
  <2>3. StoredOK(server')
    BY <1>3, <2>1, <2>2 DEF LiveInv, StoredOK, Ids
  <2>4. \A o \in DOMAIN server : server[o].version \in Nat
    BY DEF LiveInv, StoredOK, Order
  <2>5. MovesOn(server, server')
    BY <1>3, <2>1, <2>4 DEF MovesOn, Vouched
  <2>6. QED BY <2>3, <2>5
<1>5. \A d \in calls : CallOK(server', d)
  BY <1>4, KnownStays DEF LiveInv
<1>6. Known(server', view.rows) /\ (c.op = "create" => Known(server', c.rows))
  BY <1>4, <1>5, KnownStays DEF LiveInv, ViewOK, CallOK
<1>7. PICK rows : Known(server', rows)
                  /\ view' = [view EXCEPT !.rows = Live!With(Live!Stored, rows)]
  BY <1>6 DEF Live!Created
<1>8. Known(server', Live!With(Live!Stored, rows))
  BY <1>1, <1>3, <1>7, WithKnown DEF Behind, Vouched
<1>9. view' = [loading |-> view.loading, rows |-> Live!With(Live!Stored, rows),
               detailed |-> view.detailed, edits |-> view.edits]
  BY <1>7 DEF LiveInv, ViewOK
<1>10. ViewOK'
  BY <1>8, <1>9 DEF ViewOK
<1>11. QED BY <1>2, <1>3, <1>4, <1>5, <1>10 DEF LiveInv

\* An order the backend does not know yet, or will not know.
LEMMA LiveAdds ==
  ASSUME LiveInv, Live!AddDirect \/ Live!AddManual \/ \E c \in calls : Live!CreateFails(c)
  PROVE  LiveInv'
<1>1. server' = server
  BY DEF Live!AddDirect, Live!AddManual, Live!CreateFails
<1>2. Known(server, view.rows) /\ Live!Local \in Order /\ Live!Local.version = 0
  BY DEF LiveInv, ViewOK, Live!Local, Live!Stored, Order, Live!Moves
<1>3. Behind(server, Draft, Live!Local)
  BY <1>2 DEF LiveInv, StoredOK, Order, Behind, Vouched
<1>4. CASE Live!AddDirect
  <2> DEFINE rows == Live!With(Live!Local, view.rows)
  <2>1. /\ view' = [view EXCEPT !.rows = rows]
        /\ calls' = calls \cup {[op |-> "create", rows |-> view'.rows]}
    BY <1>4 DEF Live!AddDirect, Live!Send
  <2>2. Known(server, rows)
    BY <1>2, <1>3, WithKnown
  <2> HIDE DEF rows
  <2>3. view' = [loading |-> view.loading, rows |-> rows, detailed |-> view.detailed,
                edits |-> view.edits]
    BY <2>1 DEF LiveInv, ViewOK
  <2>4. ViewOK'
    BY <1>1, <2>2, <2>3 DEF ViewOK
  <2>5. \A c \in calls' \ calls : c = [op |-> "create", rows |-> rows]
    BY <2>1, <2>3
  <2>6. \A c \in calls' \ calls : CallOK(server', c)
    BY <1>1, <2>2, <2>5 DEF CallOK, Live!Syncs
  <2>7. QED BY <1>1, <2>4, <2>6, ViewSteps
<1>5. CASE Live!AddManual
  <2>1. view' = view /\ calls' = calls \cup {[op |-> "add"]}
    BY <1>5 DEF Live!AddManual, Live!Send
  <2>2. ViewOK' /\ \A c \in calls' \ calls : CallOK(server', c)
    BY <1>1, <2>1 DEF LiveInv, ViewOK, CallOK, Live!Syncs
  <2>3. QED BY <1>1, <2>2, ViewSteps
<1>6. ASSUME NEW c \in calls, Live!CreateFails(c) PROVE LiveInv'
  <2>1. calls' \subseteq calls
    BY <1>6 DEF Live!CreateFails
  <2>2. CASE view' = view
    BY <1>1, <2>1, <2>2, ViewSteps DEF LiveInv, ViewOK
  <2>3. CASE c.op = "add" /\ view' = [view EXCEPT !.rows = Live!With(Live!Local, @)]
    <3> DEFINE rows == Live!With(Live!Local, view.rows)
    <3>1. Known(server, rows)
      BY <1>2, <1>3, WithKnown
    <3>2. view' = [view EXCEPT !.rows = rows]
      BY <2>3
    <3> HIDE DEF rows
    <3>3. view' = [loading |-> view.loading, rows |-> rows, detailed |-> view.detailed,
                edits |-> view.edits]
      BY <3>2 DEF LiveInv, ViewOK
    <3>4. ViewOK'
      BY <1>1, <3>1, <3>3 DEF ViewOK
    <3>5. QED BY <1>1, <2>1, <3>4, ViewSteps
  <2>4. QED BY <1>6, <2>2, <2>3 DEF Live!CreateFails
<1>7. QED BY <1>4, <1>5, <1>6

LEMMA LiveSyncFails == ASSUME LiveInv, NEW c, Live!SyncFails(c) PROVE LiveInv'
  BY DEF Live!SyncFails, LiveInv, ViewOK

\* Whatever the step, the state stays in LiveInv and no edit of others is taken back.
LEMMA LiveKeeps ==
  ASSUME LiveInv, [Live!Next]_<<view, calls, server>>
  PROVE  LiveInv' /\ Live!OthersEditsStay
<1>0. \A o \in DOMAIN server : server[o].theirs \in Nat
  BY DEF LiveInv, StoredOK, Order
<1>1. (\A o \in DOMAIN server : server'[o] = server[o]) => Live!OthersEditsStay
  BY <1>0 DEF Live!OthersEditsStay
<1>2. CASE UNCHANGED <<view, calls, server>>
  <2>1. LiveInv'
    BY <1>2 DEF LiveInv, ViewOK
  <2>2. QED BY <1>1, <1>2, <2>1
<1>3. CASE Live!Loaded
  BY <1>1, <1>3, LiveLoaded DEF Live!Loaded
<1>4. CASE Live!AddDirect \/ Live!AddManual \/ \E c \in calls : Live!CreateFails(c)
  BY <1>1, <1>4, LiveAdds DEF Live!AddDirect, Live!AddManual, Live!CreateFails
<1>5. ASSUME NEW o \in Ids, Live!Open(o) PROVE LiveInv' /\ Live!OthersEditsStay
  BY <1>1, <1>5, LiveOpen DEF Live!Open
<1>6. ASSUME NEW o \in Ids, NEW s \in Live!Moves,
             Live!EditFields(o) \/ Live!Assign(o) \/ Live!Move(o, s)
      PROVE  LiveInv' /\ Live!OthersEditsStay
  BY <1>1, <1>6, LiveEdits DEF Live!EditFields, Live!Assign, Live!Move, Live!Edit
<1>7. CASE (\E o \in Ids : Live!OtherReads(o)) \/ \E c \in calls : Live!OtherWrites(c)
  BY <1>7, LiveOthers
<1>8. ASSUME NEW c \in calls,
             Live!DetailAnswered(c) \/ Live!SyncFails(c) \/ Live!Created(c)
      PROVE  LiveInv' /\ Live!OthersEditsStay
  <2>1. CASE Live!DetailAnswered(c)
    <3>1. server' = server
      BY <2>1 DEF Live!DetailAnswered
    <3>2. QED BY <1>1, <2>1, <3>1, LiveDetailAnswered
  <2>2. CASE Live!SyncFails(c)
    BY <1>1, <2>2, LiveSyncFails DEF Live!SyncFails
  <2>3. CASE Live!Created(c)
    BY <1>1, <2>3, LiveCreated
  <2>4. QED BY <1>8, <2>1, <2>2, <2>3
<1>9. ASSUME NEW c \in calls, Live!Checked(c) \/ Live!Written(c)
      PROVE  LiveInv' /\ Live!OthersEditsStay
  BY <1>1, <1>9, LiveChecked, LiveWritten DEF Live!Checked
<1>10. QED
  BY <1>2, <1>3, <1>4, <1>5, <1>6, <1>7, <1>8, <1>9 DEF Live!Next, Live!Ids, Ids, Live!Moves

\* Although an edit sends every field of a row that may have been loaded long ago, it never
\* takes back what another user has stored since, whichever syncs follow each other or fail,
\* unless two requests have overlapped at the backend on that order.
THEOREM OthersEditsKept == Spec => KeepsOthersEdits
<1> DEFINE Inv == route = "maintenance" => LiveInv
<1>1. Init => Inv
  BY LiveMounted, LiveInit
<1>2. Inv /\ [Next]_vars => Inv'
  BY RouteStays, LiveStep, LiveKeeps
<1>3. Inv /\ [Next]_vars => [route = "maintenance" => Live!OthersEditsStay]_vars
  BY LiveStep, LiveKeeps
<1>4. QED BY <1>1, <1>2, <1>3, PTL DEF Spec, KeepsOthersEdits

-----------------------------------------------------------------------------
(* WorkOrderBoard *)

LEMMA BoardMounted == Init /\ route = "board" => Board!Init
  BY DEF Init, Mounted

LEMMA BoardStep == [Next]_vars /\ route = "board" => [Board!Next]_<<view, server>>
  BY DEF Next, vars

Row == [status : Board!Statuses, checks : SUBSET Items, steps : SUBSET ProcedureSteps,
        noted : BOOLEAN]

HooksRecord(v) ==
  v = [orders |-> v.orders, role |-> v.role, active |-> v.active, list |-> v.list,
       form |-> v.form]

\* What a handler decides on, the copy of the screen, is what is stored.
BoardInv ==
  /\ HooksRecord(view)
  /\ view.orders = server
  /\ server \in Seq(Row)

LEMMA BoardInit == Board!Init => BoardInv
<1> SUFFICES ASSUME Board!Init PROVE BoardInv
  OBVIOUS
<1>1. PICK s \in {"Open", "Review"} : server = <<Board!New(s)>> /\ view = Board!Hub(server)
  BY DEF Board!Init
<1>2. Board!New(s) \in Row
  BY DEF Board!New, Row, Board!Statuses
<1>3. QED BY <1>1, <1>2 DEF Board!Hub, BoardInv, HooksRecord

\* Steps of the hooks alone.
LEMMA BoardHooks ==
  ASSUME BoardInv, server' = server, HooksRecord(view'), view'.orders = view.orders
  PROVE  BoardInv' /\ Board!PlannerCloses
  BY DEF BoardInv, Board!PlannerCloses, HooksRecord

\* handleUpdateWorkOrders
LEMMA BoardSaved ==
  ASSUME BoardInv, NEW v, HooksRecord(v), NEW orders \in Seq(Row), Board!Save(v, orders),
         \A o \in DOMAIN server :
           server[o].status # "Closed" /\ orders[o].status = "Closed" => view.role = "Planner"
  PROVE  BoardInv' /\ Board!PlannerCloses
<1>1. HooksRecord(view') /\ view'.orders = orders /\ server' = orders
  BY DEF Board!Save, HooksRecord
<1>2. QED BY <1>1 DEF BoardInv, Board!PlannerCloses

LEMMA MovedRows ==
  ASSUME BoardInv, NEW orders, NEW status \in Board!Statuses
  PROVE  /\ Board!Moved(orders, status) \in Seq(Row)
         /\ DOMAIN Board!Moved(orders, status) = DOMAIN server
         /\ \A o \in DOMAIN server :
              Board!Moved(orders, status)[o].status =
                IF o \in orders THEN status ELSE server[o].status
<1>1. server \in Seq(Row) /\ view.orders = server
  BY DEF BoardInv
<1>2. \A o \in DOMAIN server : server[o] \in Row
  BY <1>1
<1>3. ASSUME NEW o \in DOMAIN server
      PROVE  [server[o] EXCEPT !.status = status] \in Row
  BY <1>2 DEF Row
<1> DEFINE moved == Board!Moved(orders, status)
<1>4. /\ DOMAIN moved = DOMAIN server
      /\ \A o \in DOMAIN server :
           moved[o] = IF o \in orders THEN [server[o] EXCEPT !.status = status] ELSE server[o]
      /\ moved = [o \in DOMAIN server |-> moved[o]]
  BY <1>1 DEF Board!Moved, Board!Ids
<1> HIDE DEF moved
<1>5. \A o \in DOMAIN server : moved[o] \in Row
  BY <1>2, <1>3, <1>4
<1>6. moved \in Seq(Row)
  <2>1. DOMAIN server = 1 .. Len(server) /\ Len(server) \in Nat
    BY <1>1
  <2>2. moved \in [1 .. Len(server) -> Row]
    BY <1>4, <1>5, <2>1
  <2>3. QED BY <2>1, <2>2
<1>7. \A o \in DOMAIN server :
        moved[o].status = IF o \in orders THEN status ELSE server[o].status
  BY <1>2, <1>4 DEF Row
<1>8. QED BY <1>4, <1>6, <1>7 DEF moved

\* A set of orders moves: to another status than "Closed", or by a planner.
LEMMA BoardMoves ==
  ASSUME BoardInv, NEW v, HooksRecord(v), NEW orders, NEW status \in Board!Statuses,
         status = "Closed" => view.role = "Planner",
         Board!Save(v, Board!Moved(orders, status))
  PROVE  BoardInv' /\ Board!PlannerCloses
<1>1. \A o \in DOMAIN server :
        server[o].status # "Closed" /\ Board!Moved(orders, status)[o].status = "Closed"
          => view.role = "Planner"
  BY MovedRows
<1>2. QED BY <1>1, MovedRows, BoardSaved

LEMMA SequenceOfRows == ASSUME NEW n \in Nat, NEW f \in [1 .. n -> Row] PROVE f \in Seq(Row)
  OBVIOUS

\* The hooks of a list that is left, and of one whose selection goes.
LEMMA HooksWritten ==
  ASSUME HooksRecord(view), NEW v,
         \/ v = [view EXCEPT !.list.selected = {}]
         \/ \E active : v = [view EXCEPT !.active = active, !.list = Board!List]
  PROVE  HooksRecord(v)
<1>1. CASE v = [view EXCEPT !.list.selected = {}]
  BY <1>1 DEF HooksRecord
<1>2. ASSUME NEW active, v = [view EXCEPT !.active = active, !.list = Board!List]
      PROVE  HooksRecord(v)
  BY <1>2 DEF HooksRecord
<1>3. QED BY <1>1, <1>2

LEMMA BoardList ==
  ASSUME BoardInv,
         \/ Board!BulkClose \/ Board!BulkAssign \/ Board!AddWorkOrder
         \/ \E o \in Board!Ids : Board!SwipeAction(o)
         \/ \E o \in Board!Ids, s \in Board!Statuses : Board!DragAndDrop(o, s)
  PROVE  BoardInv' /\ Board!PlannerCloses
<1>0. HooksRecord(view) /\ view.orders = server /\ server \in Seq(Row)
  BY DEF BoardInv
<1>1. HooksRecord([view EXCEPT !.list.selected = {}])
  BY <1>0, HooksWritten
<1>2. CASE Board!BulkClose
  <2>1. HooksRecord([view EXCEPT !.list.selected = {}])
    BY <1>1
  <2>2. "Closed" \in Board!Statuses /\ view.role = "Planner"
    BY <1>2 DEF Board!BulkClose, Board!Permitted, Board!Statuses
  <2>3. QED BY <1>2, <2>1, <2>2, BoardMoves DEF Board!BulkClose
<1>3. CASE Board!BulkAssign
  <2>1. HooksRecord([view EXCEPT !.list.selected = {}])
    BY <1>1
  <2>2. QED BY <1>0, <1>3, <2>1, BoardSaved DEF Board!BulkAssign
<1>4. CASE Board!AddWorkOrder
  <2> DEFINE v == [view EXCEPT !.active = Len(view.orders) + 1, !.list = Board!List]
             orders == Append(view.orders, Board!New("Open"))
  <2>1. HooksRecord(v)
    BY <1>0, HooksWritten
  <2>2. Board!New("Open") \in Row
    BY DEF Board!New, Row, Board!Statuses
  <2>3. orders \in Seq(Row) /\ \A o \in DOMAIN server : orders[o] = server[o]
    BY <1>0, <2>2
  <2>4. Board!Save(v, orders)
    BY <1>4 DEF Board!AddWorkOrder
  <2> HIDE DEF v, orders
  <2>5. QED BY <2>1, <2>3, <2>4, BoardSaved
<1>5. ASSUME NEW o, Board!SwipeAction(o) PROVE BoardInv' /\ Board!PlannerCloses
  <2>1. PICK status \in {"In Progress", "Review"} : Board!Save(view, Board!Moved({o}, status))
    BY <1>5 DEF Board!SwipeAction
  <2>2. status \in Board!Statuses /\ status # "Closed"
    BY DEF Board!Statuses
  <2>3. QED BY <1>0, <2>1, <2>2, BoardMoves
<1>6. ASSUME NEW o, NEW s \in Board!Statuses, Board!DragAndDrop(o, s)
      PROVE  BoardInv' /\ Board!PlannerCloses
  <2>1. view.role = "Planner" /\ Board!Save(view, Board!Moved({o}, s))
    BY <1>6 DEF Board!DragAndDrop, Board!DragStarts, Board!Permitted
  <2>2. QED BY <1>0, <2>1, BoardMoves
<1>7. QED BY <1>2, <1>3, <1>4, <1>5, <1>6

\* The order that is open is edited.
LEMMA BoardEdit ==
  ASSUME BoardInv, NEW order \in Row, Board!Edit(order),
         order.status = "Closed" => view.role = "Planner"
  PROVE  BoardInv' /\ Board!PlannerCloses
<1> DEFINE orders == [view.orders EXCEPT ![view.active] = order]
<1>1. HooksRecord(view) /\ view.orders = server /\ server \in Seq(Row)
  BY DEF BoardInv
<1>2. orders \in Seq(Row)
  <2>1. server \in [1 .. Len(server) -> Row] /\ Len(server) \in Nat
    BY <1>1
  <2>2. orders \in [1 .. Len(server) -> Row]
    BY <1>1, <2>1
  <2> HIDE DEF orders
  <2>3. QED BY <2>1, <2>2, SequenceOfRows
<1>3. \A o \in DOMAIN server : orders[o] = IF o = view.active THEN order ELSE server[o]
  BY <1>1
<1>4. Board!Save(view, orders)
  BY DEF Board!Edit
<1> HIDE DEF orders
<1>5. QED BY <1>1, <1>2, <1>3, <1>4, BoardSaved

LEMMA BoardDetail ==
  ASSUME BoardInv, view.active \in DOMAIN view.orders,
         \/ \E i \in Items : Board!ToggleSafety(i)
         \/ \E s \in ProcedureSteps : Board!ToggleProcedureStep(s)
         \/ Board!StartWorkOrder \/ Board!CompleteWork \/ Board!CloseWorkOrder
  PROVE  BoardInv' /\ Board!PlannerCloses
<1>1. Board!Current \in Row
  BY DEF BoardInv, Board!Current
<1>2. ASSUME NEW i \in Items, Board!ToggleSafety(i) PROVE BoardInv' /\ Board!PlannerCloses
  <2>1. PICK checks \in SUBSET Items :
          Board!Edit([Board!Current EXCEPT !.checks = checks]) /\ Board!Current.status = "Open"
    <3>1. Board!Current.checks \in SUBSET Items
      BY <1>1 DEF Row
    <3>2. QED BY <1>1, <1>2, <3>1 DEF Board!ToggleSafety, Row
  <2>2. /\ [Board!Current EXCEPT !.checks = checks] \in Row
        /\ [Board!Current EXCEPT !.checks = checks].status = "Open"
    BY <1>1, <2>1 DEF Row
  <2>3. QED BY <2>1, <2>2, BoardEdit
<1>3. ASSUME NEW s \in ProcedureSteps, Board!ToggleProcedureStep(s)
      PROVE  BoardInv' /\ Board!PlannerCloses
  <2>1. PICK steps \in SUBSET ProcedureSteps :
          Board!Edit([Board!Current EXCEPT !.steps = steps]) /\ Board!Current.status = "In Progress"
    <3> DEFINE steps == IF s \in Board!Current.steps THEN Board!Current.steps \ {s}
                        ELSE Board!Current.steps \cup {s}
    <3>1. steps \in SUBSET ProcedureSteps
      BY <1>1 DEF Row
    <3>2. Board!Edit([Board!Current EXCEPT !.steps = steps]) /\ Board!Current.status = "In Progress"
      BY <1>1, <1>3 DEF Board!ToggleProcedureStep, Row
    <3>3. QED BY <3>1, <3>2
  <2>2. /\ [Board!Current EXCEPT !.steps = steps] \in Row
        /\ [Board!Current EXCEPT !.steps = steps].status = "In Progress"
    BY <1>1, <2>1 DEF Row
  <2>3. QED BY <2>1, <2>2, BoardEdit
<1>4. CASE Board!StartWorkOrder \/ Board!CompleteWork
  <2>1. PICK status \in {"In Progress", "Review"} :
          Board!Edit([Board!Current EXCEPT !.status = status])
    BY <1>4 DEF Board!StartWorkOrder, Board!CompleteWork
  <2>2. /\ [Board!Current EXCEPT !.status = status] \in Row
        /\ [Board!Current EXCEPT !.status = status].status # "Closed"
    BY <1>1 DEF Row, Board!Statuses
  <2>3. QED BY <2>1, <2>2, BoardEdit
<1>5. CASE Board!CloseWorkOrder
  <2>1. view.role = "Planner"
        /\ Board!Edit([Board!Current EXCEPT !.status = "Closed", !.noted = TRUE])
    BY <1>5 DEF Board!CloseWorkOrder, Board!Permitted
  <2>2. [Board!Current EXCEPT !.status = "Closed", !.noted = TRUE] \in Row
    BY <1>1 DEF Row, Board!Statuses
  <2>3. QED BY <2>1, <2>2, BoardEdit
<1>6. QED BY <1>2, <1>3, <1>4, <1>5

\* No order is open that is not on the list, but nothing below needs that: an edit of one would
\* change no order.
LEMMA BoardNoRow ==
  ASSUME BoardInv, view.active \notin DOMAIN view.orders, NEW order, Board!Edit(order)
  PROVE  BoardInv' /\ Board!PlannerCloses
<1>1. [view.orders EXCEPT ![view.active] = order] = view.orders
  BY DEF BoardInv
<1>2. Board!Save(view, view.orders)
  BY <1>1 DEF Board!Edit
<1>3. QED BY <1>2, BoardSaved DEF BoardInv

LEMMA BoardEdits ==
  ASSUME BoardInv,
         \/ \E i \in Items : Board!ToggleSafety(i)
         \/ \E s \in ProcedureSteps : Board!ToggleProcedureStep(s)
         \/ Board!StartWorkOrder \/ Board!CompleteWork \/ Board!CloseWorkOrder
  PROVE  BoardInv' /\ Board!PlannerCloses
<1>1. CASE view.active \in DOMAIN view.orders
  BY <1>1, BoardDetail
<1>2. CASE view.active \notin DOMAIN view.orders
  <2>1. \E order : Board!Edit(order)
    BY DEF Board!ToggleSafety, Board!ToggleProcedureStep, Board!StartWorkOrder,
           Board!CompleteWork, Board!CloseWorkOrder
  <2>2. QED BY <1>2, <2>1, BoardNoRow
<1>3. QED BY <1>1, <1>2

LEMMA BoardQuiet ==
  ASSUME BoardInv,
         \/ \E r : Board!SelectRole(r)
         \/ \E s : Board!FilterStatus(s)
         \/ \E o : Board!SelectRow(o) \/ Board!Open(o)
         \/ Board!SelectAll \/ Board!ClearSelection \/ Board!BackToList \/ Board!FillClosure
         \/ Board!Reload
  PROVE  BoardInv' /\ Board!PlannerCloses
<1> DEFINE changed ==
      \E role, active, list, form :
        view' = [view EXCEPT !.role = role, !.active = active, !.list = list, !.form = form]
<1>1. HooksRecord(view) /\ view.orders = server
  BY DEF BoardInv
<1>2. server' = server
  BY DEF Board!SelectRole, Board!FilterStatus, Board!SelectRow, Board!Open, Board!SelectAll,
         Board!ClearSelection, Board!BackToList, Board!FillClosure, Board!Reload
<1>3. CASE Board!Reload
  BY <1>1, <1>2, <1>3, BoardHooks DEF Board!Reload, Board!Hub, HooksRecord
<1>4. ASSUME \/ \E r : Board!SelectRole(r)
             \/ \E s : Board!FilterStatus(s)
             \/ \E o : Board!SelectRow(o) \/ Board!Open(o)
             \/ Board!SelectAll \/ Board!ClearSelection \/ Board!BackToList \/ Board!FillClosure
      PROVE  changed
  <2>2. ASSUME NEW r, Board!SelectRole(r) PROVE changed
    <3>1. view' = [view EXCEPT !.role = r, !.active = view.active, !.list = view.list,
                               !.form = view.form]
      BY <1>1, <2>2 DEF Board!SelectRole, HooksRecord
    <3>2. QED BY <3>1
  <2>3. ASSUME NEW o, Board!Open(o) PROVE changed
    <3>1. view' = [view EXCEPT !.role = view.role, !.active = o, !.list = Board!List,
                               !.form = view.form]
      BY <1>1, <2>3 DEF Board!Open, HooksRecord
    <3>2. QED BY <3>1
  <2>4. ASSUME Board!BackToList PROVE changed
    <3>1. view' = [view EXCEPT !.role = view.role, !.active = None, !.list = view.list,
                               !.form = Board!Form]
      BY <1>1, <2>4 DEF Board!BackToList, HooksRecord
    <3>2. QED BY <3>1
  <2>5. ASSUME Board!FillClosure PROVE changed
    <3>1. view' = [view EXCEPT !.role = view.role, !.active = view.active, !.list = view.list,
                               !.form = [view.form EXCEPT !.draft = view.active]]
      BY <1>1, <2>5 DEF Board!FillClosure, HooksRecord
    <3>2. QED BY <3>1
  <2>6. ASSUME \/ \E s : Board!FilterStatus(s)
               \/ \E o : Board!SelectRow(o)
               \/ Board!SelectAll \/ Board!ClearSelection
        PROVE  changed
    <3>1. view' = [view EXCEPT !.role = view.role, !.active = view.active,
                               !.list = view'.list, !.form = view.form]
      BY <1>1, <2>6 DEF Board!FilterStatus, Board!SelectRow, Board!SelectAll,
                        Board!ClearSelection, HooksRecord
    <3>2. QED BY <3>1
  <2> HIDE DEF changed
  <2>7. QED BY <1>4, <2>2, <2>3, <2>4, <2>5, <2>6
<1>5. CASE changed
  <2>1. PICK role, active, list, form :
          view' = [view EXCEPT !.role = role, !.active = active, !.list = list, !.form = form]
    BY <1>5
  <2>2. HooksRecord(view') /\ view'.orders = view.orders
    BY <1>1, <2>1 DEF HooksRecord
  <2>3. QED BY <1>2, <2>2, BoardHooks
<1> HIDE DEF changed
<1>6. QED BY <1>3, <1>4, <1>5

LEMMA BoardKeeps ==
  ASSUME BoardInv, [Board!Next]_<<view, server>>
  PROVE  BoardInv' /\ Board!PlannerCloses
<1>1. CASE UNCHANGED <<view, server>>
  BY <1>1 DEF BoardInv, HooksRecord, Board!PlannerCloses
<1>2. QED BY <1>1, BoardList, BoardEdits, BoardQuiet DEF Board!Next

\* However an order comes to be closed, it is a planner who closes it: what a handler checks on
\* the screen's copy is true of the stored orders, however many there are and however the roles,
\* the selection and the form were changed before.
THEOREM PlannersClose == Spec => ClosedByPlanner
<1> DEFINE Inv == route = "board" => BoardInv
<1>1. Init => Inv
  BY BoardMounted, BoardInit
<1>2. Inv /\ [Next]_vars => Inv'
  BY RouteStays, BoardStep, BoardKeeps
<1>3. Inv /\ [Next]_vars => [route = "board" => Board!PlannerCloses]_vars
  BY BoardStep, BoardKeeps
<1>4. QED BY <1>1, <1>2, <1>3, PTL DEF Spec, ClosedByPlanner

-----------------------------------------------------------------------------
(* Administration *)

LEMMA DirectoryMounted == Init /\ route = "admin" => Directory!Init
  BY DEF Init, Mounted

LEMMA DirectoryStep == [Next]_vars /\ route = "admin" => [Directory!Next]_<<view, calls, server>>
  BY DEF Next, vars

Entities == Directory!Entities

\* What lists of audit records say of an entity: nothing, its value by the first or the last record
\* of it.  The log has the newest first, the deferred records have it last.
Silent(list, e) == \A i \in DOMAIN list : e \notin list[i].of
TellsFirst(list, e, v) ==
  \E i \in DOMAIN list :
    e \in list[i].of /\ list[i].after = v /\ \A j \in DOMAIN list : j < i => e \notin list[j].of
TellsLast(list, e, v) ==
  \E i \in DOMAIN list :
    e \in list[i].of /\ list[i].after = v /\ \A j \in DOMAIN list : i < j => e \notin list[j].of

Told(log, e, v) == TellsFirst(log, e, v) \/ (Silent(log, e) /\ v = Directory!Seed(e))

LEMMA LogGrows ==
  ASSUME NEW log, IsList(log), NEW r, NEW e
  PROVE  /\ e \in r.of => Told(Before(r, log), e, r.after)
         /\ \A v : e \notin r.of /\ Told(log, e, v) => Told(Before(r, log), e, v)
<1> DEFINE new == Before(r, log)
<1>1. /\ DOMAIN log = 1 .. Len(log) /\ Len(log) \in Nat /\ DOMAIN new = 1 .. Len(log) + 1
      /\ new[1] = r /\ \A i \in DOMAIN log : new[i + 1] = log[i]
  BY ListGrows
<1> HIDE DEF new
<1>2. \A j \in DOMAIN new : j = 1 \/ (j - 1 \in DOMAIN log /\ new[j] = log[j - 1])
  <2> SUFFICES ASSUME NEW j \in DOMAIN new, j # 1 PROVE j - 1 \in DOMAIN log /\ new[j] = log[j - 1]
    OBVIOUS
  <2>1. j - 1 \in DOMAIN log /\ (j - 1) + 1 = j
    BY <1>1
  <2>2. QED BY <1>1, <2>1
<1>3. ASSUME e \in r.of PROVE Told(new, e, r.after)
  <2>1. 1 \in DOMAIN new /\ \A j \in DOMAIN new : ~(j < 1)
    BY <1>1
  <2>2. QED BY <1>1, <1>3, <2>1 DEF Told, TellsFirst
<1>4. ASSUME NEW v, e \notin r.of, Told(log, e, v) PROVE Told(new, e, v)
  <2>1. CASE TellsFirst(log, e, v)
    <3>1. PICK i \in DOMAIN log :
            e \in log[i].of /\ log[i].after = v /\ \A j \in DOMAIN log : j < i => e \notin log[j].of
      BY <2>1 DEF TellsFirst
    <3>2. i + 1 \in DOMAIN new /\ new[i + 1] = log[i]
      BY <1>1
    <3>3. ASSUME NEW j \in DOMAIN new, j < i + 1 PROVE e \notin new[j].of
      <4>1. CASE j = 1
        BY <1>1, <1>4, <4>1
      <4>2. CASE j # 1
        <5>1. j - 1 \in DOMAIN log /\ new[j] = log[j - 1] /\ j - 1 < i
          BY <1>1, <1>2, <3>3, <4>2
        <5>2. QED BY <3>1, <5>1
      <4>3. QED BY <4>1, <4>2
    <3>4. QED BY <3>1, <3>2, <3>3 DEF Told, TellsFirst
  <2>2. CASE Silent(log, e) /\ v = Directory!Seed(e)
    <3>1. Silent(new, e)
      BY <1>1, <1>2, <1>4, <2>2 DEF Silent
    <3>2. QED BY <2>2, <3>1 DEF Told
  <2>3. QED BY <1>4, <2>1, <2>2 DEF Told
<1>5. QED BY <1>3, <1>4 DEF new

LEMMA PendingGrows ==
  ASSUME NEW list, IsList(list), NEW r, NEW e
  PROVE  /\ e \in r.of => TellsLast(Append(list, r), e, r.after)
         /\ e \notin r.of /\ Silent(list, e) => Silent(Append(list, r), e)
         /\ \A v : e \notin r.of /\ TellsLast(list, e, v) => TellsLast(Append(list, r), e, v)
<1> DEFINE new == Append(list, r)
<1>1. /\ DOMAIN list = 1 .. Len(list) /\ Len(list) \in Nat /\ DOMAIN new = 1 .. Len(list) + 1
      /\ new[Len(list) + 1] = r /\ \A i \in DOMAIN list : new[i] = list[i]
  BY ListGrows
<1> HIDE DEF new
<1>2. \A j \in DOMAIN new : j = Len(list) + 1 \/ j \in DOMAIN list
  BY <1>1
<1>3. e \in r.of => TellsLast(new, e, r.after)
  BY <1>1 DEF TellsLast
<1>4. e \notin r.of /\ Silent(list, e) => Silent(new, e)
  BY <1>1, <1>2 DEF Silent
<1>5. ASSUME NEW v, e \notin r.of, TellsLast(list, e, v) PROVE TellsLast(new, e, v)
  <2>1. PICK i \in DOMAIN list :
          e \in list[i].of /\ list[i].after = v /\ \A j \in DOMAIN list : i < j => e \notin list[j].of
    BY <1>5 DEF TellsLast
  <2>2. i \in DOMAIN new /\ new[i] = list[i]
    BY <1>1
  <2>3. \A j \in DOMAIN new : i < j => e \notin new[j].of
    BY <1>1, <1>2, <1>5, <2>1
  <2>4. QED BY <2>1, <2>2, <2>3 DEF TellsLast
<1>6. QED BY <1>3, <1>4, <1>5 DEF new

LEMMA PendingKept ==
  ASSUME NEW list, IsList(list), list # <<>>, NEW e
  PROVE  /\ IsList(Tail(list))
         /\ Silent(list, e) => Silent(Tail(list), e) /\ e \notin Head(list).of
         /\ \A v : TellsLast(list, e, v) =>
              \/ TellsLast(Tail(list), e, v)
              \/ e \in Head(list).of /\ Head(list).after = v /\ Silent(Tail(list), e)
         /\ \A i \in DOMAIN Tail(list) : i + 1 \in DOMAIN list /\ Tail(list)[i] = list[i + 1]
<1> DEFINE rest == Tail(list)
           head == Head(list)
<1>1. PICK S : list \in Seq(S)
  BY DEF IsList
<1>2. /\ DOMAIN list = 1 .. Len(list) /\ Len(list) \in Nat /\ Len(list) # 0
      /\ rest \in Seq(S) /\ Len(rest) = Len(list) - 1 /\ head = list[1]
  BY <1>1
<1>3. DOMAIN rest = 1 .. Len(list) - 1 /\ \A i \in 1 .. Len(list) - 1 : rest[i] = list[i + 1]
  BY <1>1, <1>2
<1> HIDE DEF rest, head
<1>4. \A i \in DOMAIN rest : i + 1 \in DOMAIN list /\ rest[i] = list[i + 1]
  BY <1>2, <1>3
<1>5. 1 \in DOMAIN list /\ \A j \in DOMAIN list : j = 1 \/ (1 < j /\ j - 1 \in DOMAIN rest /\ rest[j - 1] = list[j])
  BY <1>2, <1>3
<1>6. Silent(list, e) => Silent(rest, e) /\ e \notin head.of
  BY <1>2, <1>4, <1>5 DEF Silent
<1>7. ASSUME NEW v, TellsLast(list, e, v)
      PROVE  TellsLast(rest, e, v) \/ (e \in head.of /\ head.after = v /\ Silent(rest, e))
  <2>1. PICK i \in DOMAIN list :
          e \in list[i].of /\ list[i].after = v /\ \A j \in DOMAIN list : i < j => e \notin list[j].of
    BY <1>7 DEF TellsLast
  <2>2. CASE i = 1
    <3>1. \A j \in DOMAIN rest : i < j + 1 /\ j + 1 \in DOMAIN list /\ rest[j] = list[j + 1]
      BY <1>3, <1>4, <2>2
    <3>2. Silent(rest, e)
      BY <2>1, <3>1 DEF Silent
    <3>3. QED BY <1>2, <2>1, <2>2, <3>2
  <2>3. CASE i # 1
    <3>1. i - 1 \in DOMAIN rest /\ rest[i - 1] = list[i]
      BY <1>5, <2>3
    <3>2. \A j \in DOMAIN rest : i - 1 < j => i < j + 1 /\ j + 1 \in DOMAIN list /\ rest[j] = list[j + 1]
      BY <1>2, <1>3, <1>4
    <3>3. \A j \in DOMAIN rest : i - 1 < j => e \notin rest[j].of
      BY <2>1, <3>2
    <3>4. QED BY <2>1, <3>1, <3>3 DEF TellsLast
  <2>4. QED BY <2>2, <2>3
<1>8. IsList(rest)
  BY <1>2 DEF IsList
<1>9. QED BY <1>4, <1>6, <1>7, <1>8 DEF rest, head

\* Replaying the log gives what it tells.
LEMMA ReplayTells ==
  ASSUME IsList(server.log), NEW e, NEW v, Told(server.log, e, v)
  PROVE  Directory!Replayed(e) = v
<1> DEFINE log == server.log
           told == {i \in DOMAIN log : e \in log[i].of}
<1>1. Directory!Replayed(e) =
        IF told = {} THEN Directory!Seed(e)
        ELSE log[CHOOSE i \in told : \A j \in told : i <= j].after
  BY DEF Directory!Replayed
<1>2. DOMAIN log \subseteq Int
  BY DEF IsList
<1>3. CASE Silent(log, e) /\ v = Directory!Seed(e)
  <2>1. told = {}
    BY <1>3 DEF Silent
  <2>2. QED BY <1>1, <1>3, <2>1
<1>4. CASE TellsFirst(log, e, v)
  <2>1. PICK i \in DOMAIN log :
          e \in log[i].of /\ log[i].after = v /\ \A j \in DOMAIN log : j < i => e \notin log[j].of
    BY <1>4 DEF TellsFirst
  <2>2. i \in told /\ \A j \in told : i <= j
    BY <1>2, <2>1
  <2>3. told \subseteq Int
    BY <1>2
  <2> HIDE DEF told
  <2>4. (CHOOSE x \in told : \A y \in told : x <= y) = i
    BY <2>2, <2>3
  <2>5. told # {}
    BY <2>2
  <2>6. QED BY <1>1, <2>1, <2>4, <2>5
<1>5. QED BY <1>3, <1>4 DEF Told

DirectoryRecord(v) ==
  v = [panel |-> v.panel, data |-> v.data, editing |-> v.editing, draft |-> v.draft,
       picked |-> v.picked, dirty |-> v.dirty, testing |-> v.testing, output |-> v.output,
       filter |-> v.filter]

Account == [active : BOOLEAN, roles : SUBSET Roles]

StoredData(data) ==
  /\ data = [e \in Entities |-> data[e]]
  /\ \A e \in Entities : e[1] = "user" => data[e] \in Account \cup {None}

\* Only these sections have deferred records, and a user who has one is there.
Pending(list, data) ==
  \A i \in DOMAIN list : \A e \in list[i].of :
    /\ e[1] \in {"user", "capability", "prompt", "flag"}
    /\ e \in Entities /\ e[1] = "user" => data[e] # None

\* What is stored of an entity is told by its newest deferred record or, when it has none, by the log.
Accounted(log, list, e, v) == (Silent(list, e) /\ Told(log, e, v)) \/ TellsLast(list, e, v)

DirectoryInv ==
  /\ DirectoryRecord(view) /\ view.picked \subseteq Roles /\ StoredData(view.data)
  /\ server = [data |-> server.data, log |-> server.log, lost |-> server.lost] /\ StoredData(server.data)
  /\ IsList(server.log) /\ IsList(calls) /\ Pending(calls, view.data)
  /\ \A e \in Entities \ server.lost : Accounted(server.log, calls, e, server.data[e])

Admitted == Directory!DirectoryAssumption

LEMMA DirectoryInit == Directory!Init => DirectoryInv
<1> SUFFICES ASSUME Directory!Init PROVE DirectoryInv
  OBVIOUS
<1> DEFINE seed == [e \in Entities |-> Directory!Seed(e)]
<1>1. /\ view = [panel |-> "users", data |-> seed, editing |-> None, draft |-> None, picked |-> {},
                 dirty |-> FALSE, testing |-> None, output |-> None, filter |-> None]
      /\ calls = <<>> /\ server = [data |-> seed, log |-> <<>>, lost |-> {}]
  BY DEF Directory!Init, Directory!Panel, Entities
<1>2. StoredData(seed)
  <2>1. ASSUME NEW e \in Entities, e[1] = "user" PROVE Directory!Seed(e) \in Account \cup {None}
    <3>1. Directory!Seed(e) = IF e[2] \in Users THEN [active |-> TRUE, roles |-> Roles] ELSE None
      BY <2>1 DEF Directory!Seed
    <3>2. QED BY <3>1 DEF Account
  <2>2. QED BY <2>1 DEF StoredData
<1>3. \A e \in Entities : seed[e] = Directory!Seed(e)
  OBVIOUS
<1> HIDE DEF seed
<1>4. IsList(<<>>) /\ DOMAIN <<>> = {}
  BY DEF IsList
<1>5. \A e \in Entities : Accounted(<<>>, <<>>, e, seed[e])
  BY <1>3, <1>4 DEF Accounted, Told, Silent
<1>6. Pending(<<>>, seed)
  BY <1>4 DEF Pending
<1>7. DirectoryRecord(view) /\ view.picked = {} /\ view.data = seed /\ server.data = seed /\ server.log = <<>>
  BY <1>1 DEF DirectoryRecord
<1>8. server = [data |-> server.data, log |-> server.log, lost |-> server.lost]
  BY <1>1
<1>9. QED BY <1>1, <1>2, <1>4, <1>5, <1>6, <1>7, <1>8 DEF DirectoryInv

\* Steps of the panels: nothing is stored, and no user changes.
LEMMA DirectoryQuiet ==
  ASSUME DirectoryInv, DirectoryRecord(view'), view'.picked \subseteq Roles, StoredData(view'.data),
         \A e \in Entities : e[1] = "user" => view'.data[e] = view.data[e],
         calls' = calls, server' = server
  PROVE  DirectoryInv'
<1>1. Pending(calls, view'.data)
  BY DEF DirectoryInv, Pending
<1>2. QED BY <1>1 DEF DirectoryInv, DirectoryRecord

\* The values a change makes of those there were.
LEMMA DataSet ==
  ASSUME NEW data, StoredData(data), NEW es, NEW value, \A e \in es : e[1] = "user" => value \in Account
  PROVE  /\ StoredData(Directory!Set(data, es, value))
         /\ \A e \in Entities : Directory!Set(data, es, value)[e] = IF e \in es THEN value ELSE data[e]
<1> DEFINE new == [e \in Entities |-> IF e \in es THEN value ELSE data[e]]
<1>1. Directory!Set(data, es, value) = new
  BY DEF Directory!Set, Entities
<1>2. \A e \in Entities : new[e] = IF e \in es THEN value ELSE data[e]
  OBVIOUS
<1>3. new = [e \in Entities |-> new[e]]
  OBVIOUS
<1> HIDE DEF new
<1>4. \A e \in Entities : e[1] = "user" => new[e] \in Account \cup {None}
  BY <1>2 DEF StoredData
<1>5. QED BY <1>1, <1>2, <1>3, <1>4 DEF StoredData

\* A change that is recorded at once, of entities that have no deferred record.
LEMMA DirectoryRecorded ==
  ASSUME DirectoryInv, Admitted, NEW es, NEW value, NEW v, DirectoryRecord(v), v.picked \subseteq Roles,
         v.data = view.data, Directory!Recorded(es, value, v),
         \A e \in es : e[1] = "user" => value \in Account,
         \A e \in es : e \in Entities => Silent(calls, e)
  PROVE  DirectoryInv'
<1> DEFINE r == [of |-> es, after |-> value]
           local == Directory!Set(view.data, es, value)
           stored == Directory!Set(server.data, es, value)
           log == Before(r, server.log)
           lost == server.lost \ es
<1>1. /\ view' = [v EXCEPT !.data = local] /\ calls' = calls
      /\ server' = [data |-> stored, log |-> log, lost |-> lost]
  BY DEF Directory!Recorded, Directory!Record, Before
<1>2. /\ StoredData(local) /\ StoredData(stored)
      /\ \A e \in Entities : local[e] = IF e \in es THEN value ELSE view.data[e]
      /\ \A e \in Entities : stored[e] = IF e \in es THEN value ELSE server.data[e]
  BY DataSet DEF DirectoryInv
<1> HIDE DEF local, stored
<1>3. DirectoryRecord(view') /\ view'.data = local /\ view'.picked = v.picked
  BY <1>1 DEF DirectoryRecord
<1>4. Pending(calls, local)
  <2>1. None \notin Account
    BY DEF Admitted, Directory!DirectoryAssumption, Account
  <2>2. QED BY <1>2, <2>1 DEF Pending, DirectoryInv
<1>5. IsList(log) /\ IsList(server.log)
  BY ListGrows DEF DirectoryInv
<1>6. r.of = es /\ r.after = value
  OBVIOUS
<1> HIDE DEF r
<1>7. ASSUME NEW e \in Entities \ lost PROVE Accounted(log, calls, e, stored[e])
  <2>1. CASE e \in es
    <3>1. Told(log, e, value)
      BY <1>5, <1>6, <2>1, LogGrows
    <3>2. QED BY <1>2, <2>1, <3>1 DEF Accounted
  <2>2. CASE e \notin es
    <3>1. \A x : Told(server.log, e, x) => Told(log, e, x)
      BY <1>5, <1>6, <2>2, LogGrows
    <3>2. Accounted(server.log, calls, e, server.data[e])
      BY <2>2 DEF DirectoryInv, lost
    <3>3. QED BY <1>2, <2>2, <3>1, <3>2 DEF Accounted
  <2>3. QED BY <2>1, <2>2
<1> HIDE DEF log, lost
<1>8. /\ server'.data = stored /\ server'.log = log /\ server'.lost = lost
      /\ server' = [data |-> server'.data, log |-> server'.log, lost |-> server'.lost]
  BY <1>1
<1>9. QED BY <1>1, <1>2, <1>3, <1>4, <1>5, <1>7, <1>8 DEF DirectoryInv

\* A change whose record is deferred.
LEMMA DirectoryDeferred ==
  ASSUME DirectoryInv, Admitted, NEW es, NEW value, NEW v, DirectoryRecord(v), v.picked \subseteq Roles,
         v.data = view.data, Directory!Deferred(es, value, v),
         \A e \in es : /\ e[1] \in {"user", "capability", "prompt", "flag"}
                       /\ e[1] = "user" => value \in Account
  PROVE  DirectoryInv'
<1> DEFINE r == [of |-> es, after |-> value]
           local == Directory!Set(view.data, es, value)
           stored == Directory!Set(server.data, es, value)
           list == Append(calls, r)
           lost == server.lost \ es
<1>1. /\ view' = [v EXCEPT !.data = local] /\ calls' = list
      /\ server' = [server EXCEPT !.data = stored, !.lost = lost]
  BY DEF Directory!Deferred, Directory!Record
<1>2. /\ StoredData(local) /\ StoredData(stored)
      /\ \A e \in Entities : local[e] = IF e \in es THEN value ELSE view.data[e]
      /\ \A e \in Entities : stored[e] = IF e \in es THEN value ELSE server.data[e]
  BY DataSet DEF DirectoryInv
<1> HIDE DEF local, stored
<1>3. DirectoryRecord(view') /\ view'.data = local /\ view'.picked = v.picked
  BY <1>1 DEF DirectoryRecord
<1>4. r.of = es /\ r.after = value
  OBVIOUS
<1> HIDE DEF r
<1>5. IsList(calls) /\ IsList(list)
      /\ DOMAIN calls = 1 .. Len(calls) /\ Len(calls) \in Nat
      /\ DOMAIN list = 1 .. Len(calls) + 1 /\ list[Len(calls) + 1] = r
      /\ \A i \in DOMAIN calls : list[i] = calls[i]
  BY ListGrows DEF DirectoryInv
<1>6. ASSUME NEW e \in Entities \ lost PROVE Accounted(server.log, list, e, stored[e])
  <2>1. e \notin es => Accounted(server.log, calls, e, server.data[e])
    BY DEF DirectoryInv
  <2>2. CASE e \in es
    <3>1. TellsLast(list, e, value)
      BY <1>4, <1>5, <2>2, PendingGrows
    <3>2. QED BY <1>2, <2>2, <3>1 DEF Accounted
  <2>3. CASE e \notin es
    <3>1. /\ Silent(calls, e) => Silent(list, e)
          /\ \A x : TellsLast(calls, e, x) => TellsLast(list, e, x)
      BY <1>4, <1>5, <2>3, PendingGrows
    <3>2. QED BY <1>2, <2>1, <2>3, <3>1 DEF Accounted
  <2>4. QED BY <2>2, <2>3
<1> HIDE DEF list, lost
<1>7. Pending(list, local)
  <2>1. None \notin Account
    BY DEF Admitted, Directory!DirectoryAssumption, Account
  <2>2. \A i \in DOMAIN list : i = Len(calls) + 1 \/ i \in DOMAIN calls
    BY <1>5
  <2>3. SUFFICES ASSUME NEW i \in DOMAIN list, NEW e \in list[i].of
                 PROVE  /\ e[1] \in {"user", "capability", "prompt", "flag"}
                        /\ e \in Entities /\ e[1] = "user" => local[e] # None
    BY DEF Pending
  <2>4. CASE i = Len(calls) + 1
    BY <1>2, <1>4, <1>5, <2>1, <2>3, <2>4
  <2>5. CASE i \in DOMAIN calls
    <3>1. e \in calls[i].of
      BY <1>5, <2>3, <2>5
    <3>2. /\ e[1] \in {"user", "capability", "prompt", "flag"}
          /\ e \in Entities /\ e[1] = "user" => view.data[e] # None
      BY <2>5, <3>1 DEF DirectoryInv, Pending
    <3>3. e \in es /\ e[1] = "user" => value # None
      BY <2>1
    <3>4. QED BY <1>2, <3>2, <3>3
  <2>6. QED BY <2>2, <2>4, <2>5
<1>8. /\ server'.data = stored /\ server'.log = server.log /\ server'.lost = lost
      /\ server' = [data |-> server'.data, log |-> server'.log, lost |-> server'.lost]
  BY <1>1 DEF DirectoryInv
<1>9. QED BY <1>1, <1>2, <1>3, <1>5, <1>6, <1>7, <1>8 DEF DirectoryInv

\* The oldest deferred record is kept.
LEMMA DirectoryKept ==
  ASSUME DirectoryInv, Directory!RecordKept
  PROVE  DirectoryInv'
<1> DEFINE r == Head(calls)
           rest == Tail(calls)
           log == Before(r, server.log)
<1>1. /\ calls # <<>> /\ view' = view /\ calls' = rest
      /\ server' = [server EXCEPT !.log = log]
  BY DEF Directory!RecordKept, Before
<1>2. IsList(calls) /\ IsList(server.log) /\ IsList(log)
  BY ListGrows DEF DirectoryInv
<1>3. IsList(rest) /\ \A i \in DOMAIN rest : i + 1 \in DOMAIN calls /\ rest[i] = calls[i + 1]
  BY <1>1, <1>2, PendingKept
<1>4. ASSUME NEW e \in Entities \ server.lost PROVE Accounted(log, rest, e, server.data[e])
  <2>1. Accounted(server.log, calls, e, server.data[e])
    BY DEF DirectoryInv
  <2>2. /\ Silent(calls, e) => Silent(rest, e) /\ e \notin r.of
        /\ \A v : TellsLast(calls, e, v) =>
             TellsLast(rest, e, v) \/ (e \in r.of /\ r.after = v /\ Silent(rest, e))
    BY <1>1, <1>2, PendingKept
  <2>3. /\ e \in r.of => Told(log, e, r.after)
        /\ \A v : e \notin r.of /\ Told(server.log, e, v) => Told(log, e, v)
    BY <1>2, LogGrows
  <2> HIDE DEF r, rest, log
  <2>4. QED BY <2>1, <2>2, <2>3 DEF Accounted
<1> HIDE DEF r, rest, log
<1>5. Pending(rest, view.data)
  BY <1>3 DEF DirectoryInv, Pending
<1>6. /\ server'.data = server.data /\ server'.log = log /\ server'.lost = server.lost
      /\ server' = [data |-> server'.data, log |-> server'.log, lost |-> server'.lost]
  BY <1>1 DEF DirectoryInv
<1>7. QED BY <1>1, <1>2, <1>3, <1>4, <1>5, <1>6 DEF DirectoryInv, DirectoryRecord

LEMMA DirectoryReloads ==
  ASSUME DirectoryInv, Directory!Reload
  PROVE  DirectoryInv'
<1> DEFINE gone == UNION {record.of : record \in Directory!Elements(calls)}
<1>1. calls' = <<>> /\ server' = [server EXCEPT !.lost = @ \cup gone]
  BY DEF Directory!Reload
<1>2. DirectoryRecord(view') /\ view'.data = server.data /\ view'.picked = {}
  BY DEF Directory!Reload, Directory!Panel, DirectoryRecord
<1>3. IsList(<<>>) /\ DOMAIN <<>> = {}
  BY DEF IsList
<1>4. \A i \in DOMAIN calls : \A e \in calls[i].of : e \in gone
  BY DEF Directory!Elements
<1> HIDE DEF gone
<1>5. /\ server'.data = server.data /\ server'.log = server.log /\ server'.lost = server.lost \cup gone
      /\ server' = [data |-> server'.data, log |-> server'.log, lost |-> server'.lost]
  BY <1>1 DEF DirectoryInv
<1>6. Pending(<<>>, view'.data)
  BY <1>3 DEF Pending
\* An entity that is not lost had no record pending.
<1>7. ASSUME NEW e \in Entities \ server'.lost PROVE Accounted(server.log, <<>>, e, server.data[e])
  <2>1. Accounted(server.log, calls, e, server.data[e])
    BY <1>5 DEF DirectoryInv
  <2>2. ~TellsLast(calls, e, server.data[e])
    BY <1>4, <1>5 DEF TellsLast
  <2>3. Silent(<<>>, e)
    BY <1>3 DEF Silent
  <2>4. QED BY <2>1, <2>2, <2>3 DEF Accounted
<1>8. QED BY <1>1, <1>2, <1>3, <1>5, <1>6, <1>7 DEF DirectoryInv

LEMMA NotDeferred ==
  ASSUME DirectoryInv, NEW e,
         e[1] \notin {"user", "capability", "prompt", "flag"}
           \/ (e \in Entities /\ e[1] = "user" /\ view.data[e] = None)
  PROVE  Silent(calls, e)
  BY DEF DirectoryInv, Pending, Silent

\* Steps of the hooks of a panel: the values in memory stay.
LEMMA DirectoryPanels ==
  ASSUME DirectoryInv, Admitted,
         \/ \E p \in Directory!Panels : Directory!OpenPanel(p)
         \/ Directory!OpenInvite \/ Directory!CloseInvite
         \/ \E r \in Roles : Directory!ToggleInviteRole(r)
         \/ \E r \in Roles \cup {None} : Directory!FilterRole(r)
         \/ Directory!ResetMatrix
         \/ \E m \in Models : Directory!TypeSetting(m)
         \/ \E c \in Capabilities : Directory!EditCapability(c)
         \/ \E p \in Prompts : Directory!EditPrompt(p)
         \/ \E t \in Texts : Directory!TypePrompt(t)
         \/ Directory!CloseDrawer \/ Directory!TestPrompt \/ Directory!TestShown
         \/ \E section \in {"user", "flag", None} : Directory!FilterLog(section)
         \/ \E r \in Directory!Elements(server.log) : Directory!InspectRecord(r)
  PROVE  DirectoryInv'
<1> DEFINE Quiet == /\ DirectoryRecord(view') /\ view'.picked \subseteq Roles /\ view'.data = view.data
                    /\ calls' = calls /\ server' = server
<1>1. DirectoryRecord(view) /\ view.picked \subseteq Roles /\ (CHOOSE r \in Roles : TRUE) \in Roles
  BY DEF DirectoryInv, Admitted, Directory!DirectoryAssumption
<1>2. ASSUME NEW p, Directory!OpenPanel(p) PROVE Quiet
  BY <1>2 DEF Directory!OpenPanel, Directory!Panel, DirectoryRecord
<1>3. ASSUME Directory!OpenInvite PROVE Quiet
  BY <1>1, <1>3 DEF Directory!OpenInvite, DirectoryRecord
<1>4. ASSUME NEW r \in Roles, Directory!ToggleInviteRole(r) PROVE Quiet
  <2>1. PICK s : s = IF r \in view.picked THEN view.picked \ {r} ELSE view.picked \cup {r}
    OBVIOUS
  <2>2. s \subseteq Roles
    BY <1>1, <2>1
  <2>3. view' = [view EXCEPT !.picked = s] /\ calls' = calls /\ server' = server
    BY <1>4, <2>1 DEF Directory!ToggleInviteRole
  <2>4. QED BY <1>1, <2>2, <2>3 DEF DirectoryRecord
<1>5. ASSUME Directory!CloseInvite PROVE Quiet
  BY <1>1, <1>5 DEF Directory!CloseInvite, DirectoryRecord
<1>6. ASSUME \/ \E r \in Roles \cup {None} : Directory!FilterRole(r)
             \/ \E section \in {"user", "flag", None} : Directory!FilterLog(section)
             \/ Directory!ResetMatrix \/ Directory!CloseDrawer
      PROVE  Quiet
  BY <1>1, <1>6 DEF Directory!FilterRole, Directory!FilterLog, Directory!ResetMatrix,
                    Directory!CloseDrawer, DirectoryRecord
<1>7. ASSUME \/ \E m \in Models : Directory!TypeSetting(m)
             \/ \E c \in Capabilities : Directory!EditCapability(c)
             \/ \E p \in Prompts : Directory!EditPrompt(p)
             \/ \E t \in Texts : Directory!TypePrompt(t)
             \/ \E r \in Directory!Elements(server.log) : Directory!InspectRecord(r)
      PROVE  Quiet
  BY Zenon, <1>1, <1>7 DEF Directory!TypeSetting, Directory!EditCapability, Directory!EditPrompt,
                    Directory!TypePrompt, Directory!InspectRecord, DirectoryRecord
<1>8. ASSUME Directory!TestPrompt \/ Directory!TestShown PROVE Quiet
  BY <1>1, <1>8 DEF Directory!TestPrompt, Directory!TestShown, DirectoryRecord
<1>9. Quiet
  BY <1>2, <1>3, <1>4, <1>5, <1>6, <1>7, <1>8
<1>10. StoredData(view'.data)
  BY <1>9 DEF DirectoryInv
<1>11. QED BY <1>9, <1>10, DirectoryQuiet

LEMMA DirectoryToggles ==
  ASSUME DirectoryInv, NEW c, Directory!ToggleCell(c)
  PROVE  DirectoryInv'
<1> DEFINE m == <<"matrix", "all">>
<1>1. DirectoryRecord(view) /\ view.picked \subseteq Roles /\ StoredData(view.data)
  BY DEF DirectoryInv
<1>2. PICK s : s = IF c \in view.data[m] THEN view.data[m] \ {c} ELSE view.data[m] \cup {c}
  OBVIOUS
<1>3. view' = [view EXCEPT !.data[m] = s, !.dirty = TRUE] /\ calls' = calls /\ server' = server
  BY <1>2 DEF Directory!ToggleCell, Directory!Matrix
<1>4. PICK data : data = [view.data EXCEPT ![m] = s]
  OBVIOUS
<1>5. DirectoryRecord(view') /\ view'.data = data /\ view'.picked = view.picked
  BY <1>1, <1>3, <1>4 DEF DirectoryRecord
<1>6. m[1] = "matrix"
  OBVIOUS
<1> HIDE DEF m
<1>7. /\ data = [e \in Entities |-> data[e]]
      /\ \A e \in Entities : e[1] = "user" => data[e] = view.data[e]
  BY <1>1, <1>4, <1>6 DEF StoredData
<1>8. StoredData(data)
  BY <1>1, <1>7 DEF StoredData
<1>9. QED BY <1>1, <1>3, <1>5, <1>7, <1>8, DirectoryQuiet

\* What is recorded at once: invitations, the matrix, the fallback, retries and lookups.
LEMMA DirectoryRecords ==
  ASSUME DirectoryInv, Admitted,
         \/ \E g \in Guests : Directory!InviteUser(g)
         \/ Directory!SaveMatrix
         \/ \E m \in Models : Directory!SetFallback(m)
         \/ \E j \in Jobs : Directory!RetryIngestionJob(j)
         \/ Directory!RetryAllIngestionJobs
         \/ \E c \in Codes : Directory!AddLookupOption(c) \/ Directory!DeleteLookupOption(c)
         \/ \E c \in Codes, active \in BOOLEAN : Directory!UpdateLookupOption(c, active)
  PROVE  DirectoryInv'
<1>1. DirectoryRecord(view) /\ view.picked \subseteq Roles
  BY DEF DirectoryInv
<1>2. ASSUME NEW es, NEW value, NEW v, DirectoryRecord(v), v.picked \subseteq Roles, v.data = view.data,
             Directory!Recorded(es, value, v),
             \A e \in es : e[1] \in {"matrix", "fallback", "job", "lookup"}
      PROVE  DirectoryInv'
  BY <1>2, NotDeferred, DirectoryRecorded
<1>3. ASSUME NEW g \in Guests, Directory!InviteUser(g) PROVE DirectoryInv'
  <2>1. PICK e : e = <<"user", g>>
    OBVIOUS
  <2>2. PICK v : v = [view EXCEPT !.editing = None, !.picked = {}]
    OBVIOUS
  <2>3. PICK value : value = [active |-> TRUE, roles |-> view.picked]
    OBVIOUS
  <2>4. view.data[e] = None /\ Directory!Recorded({e}, value, v)
    BY <1>3, <2>1, <2>2, <2>3 DEF Directory!InviteUser
  <2>5. e[1] = "user"
    BY <2>1
  <2>6. value \in Account
    BY <1>1, <2>3 DEF Account
  <2>7. DirectoryRecord(v) /\ v.picked \subseteq Roles /\ v.data = view.data
    BY <1>1, <2>2 DEF DirectoryRecord
  <2>8. e \in Entities => Silent(calls, e)
    BY <2>4, <2>5, NotDeferred
  <2>9. QED BY <2>4, <2>6, <2>7, <2>8, DirectoryRecorded
<1>4. ASSUME Directory!SaveMatrix PROVE DirectoryInv'
  <2>1. PICK v : v = [view EXCEPT !.dirty = FALSE]
    OBVIOUS
  <2>2. DirectoryRecord(v) /\ v.picked \subseteq Roles /\ v.data = view.data
    BY <1>1, <2>1 DEF DirectoryRecord
  <2>3. PICK m : m = <<"matrix", "all">>
    OBVIOUS
  <2>4. Directory!Recorded({m}, view.data[m], v) /\ m[1] = "matrix"
    BY <1>4, <2>1, <2>3 DEF Directory!SaveMatrix, Directory!Matrix
  <2>5. QED BY <1>2, <2>2, <2>4
<1>5. ASSUME NEW m, Directory!SetFallback(m) PROVE DirectoryInv'
  <2>1. PICK e : e = <<"fallback", "all">>
    OBVIOUS
  <2>2. Directory!Recorded({e}, m, view) /\ e[1] = "fallback"
    BY <1>5, <2>1 DEF Directory!SetFallback
  <2>3. QED BY <1>1, <1>2, <2>2
<1>6. ASSUME NEW j, Directory!RetryIngestionJob(j) PROVE DirectoryInv'
  <2>1. PICK e : e = <<"job", j>>
    OBVIOUS
  <2>2. Directory!Recorded({e}, FALSE, view) /\ e[1] = "job"
    BY <1>6, <2>1 DEF Directory!RetryIngestionJob
  <2>3. QED BY <1>1, <1>2, <2>2
<1>7. ASSUME Directory!RetryAllIngestionJobs PROVE DirectoryInv'
  <2>1. PICK es : es = Directory!Of("job", Jobs)
    OBVIOUS
  <2>2. Directory!Recorded(es, FALSE, view)
    BY <1>7, <2>1 DEF Directory!RetryAllIngestionJobs
  <2>3. \A e \in es : e[1] = "job"
    BY <2>1 DEF Directory!Of
  <2>4. QED BY <1>1, <1>2, <2>2, <2>3
<1>8. ASSUME NEW c, NEW value, Directory!Recorded({<<"lookup", c>>}, value, view) PROVE DirectoryInv'
  <2>1. PICK e : e = <<"lookup", c>>
    OBVIOUS
  <2>2. Directory!Recorded({e}, value, view) /\ e[1] = "lookup"
    BY <1>8, <2>1
  <2>3. QED BY <1>1, <1>2, <2>2
<1>9. QED BY <1>3, <1>4, <1>5, <1>6, <1>7, <1>8
         DEF Directory!AddLookupOption, Directory!DeleteLookupOption, Directory!UpdateLookupOption

\* What is recorded later: accounts, capabilities, prompts and flags.
LEMMA DirectoryDefers ==
  ASSUME DirectoryInv, Admitted,
         \/ \E u \in Users \cup Guests : Directory!ToggleUserStatus(u)
         \/ Directory!SaveCapability
         \/ \E activate \in BOOLEAN : Directory!SavePrompt(activate)
         \/ \E f \in Flags : Directory!ToggleFlag(f)
  PROVE  DirectoryInv'
<1>1. DirectoryRecord(view) /\ view.picked \subseteq Roles /\ StoredData(view.data)
  BY DEF DirectoryInv
<1>2. ASSUME NEW u \in Users \cup Guests, Directory!ToggleUserStatus(u) PROVE DirectoryInv'
  <2>1. PICK e : e = <<"user", u>>
    OBVIOUS
  <2>2. PICK value : value = [view.data[e] EXCEPT !.active = ~view.data[e].active]
    OBVIOUS
  <2>3. view.data[e] # None /\ Directory!Deferred({e}, value, view)
    BY <1>2, <2>1, <2>2 DEF Directory!ToggleUserStatus, Directory!ShownUsers
  <2>4. e[1] = "user" /\ e \in Entities
    BY <2>1 DEF Entities, Directory!Entities, Directory!Of
  <2>5. view.data[e] \in Account
    BY <1>1, <2>3, <2>4 DEF StoredData
  <2>6. value \in Account
    BY <2>2, <2>5 DEF Account
  <2>7. QED BY <1>1, <2>3, <2>4, <2>6, DirectoryDeferred
<1>3. PICK v : v = [view EXCEPT !.editing = None]
  OBVIOUS
<1>4. DirectoryRecord(v) /\ v.picked \subseteq Roles /\ v.data = view.data
  BY <1>1, <1>3 DEF DirectoryRecord
<1>5. ASSUME Directory!SaveCapability PROVE DirectoryInv'
  <2>1. PICK e : e = <<"capability", view.editing>>
    OBVIOUS
  <2>2. Directory!Deferred({e}, view.draft, v) /\ e[1] = "capability"
    BY <1>3, <1>5, <2>1 DEF Directory!SaveCapability
  <2>3. QED BY <1>4, <2>2, DirectoryDeferred
<1>6. ASSUME NEW activate, Directory!SavePrompt(activate) PROVE DirectoryInv'
  <2>1. PICK e : e = <<"prompt", view.editing>>
    OBVIOUS
  <2>2. PICK value : Directory!Deferred({e}, value, v)
    BY <1>3, <1>6, <2>1 DEF Directory!SavePrompt
  <2>3. e[1] = "prompt"
    BY <2>1
  <2>4. QED BY <1>4, <2>2, <2>3, DirectoryDeferred
<1>7. ASSUME NEW f, Directory!ToggleFlag(f) PROVE DirectoryInv'
  <2>1. PICK e : e = <<"flag", f>>
    OBVIOUS
  <2>2. PICK value : Directory!Deferred({e}, value, view)
    BY <1>7, <2>1 DEF Directory!ToggleFlag
  <2>3. e[1] = "flag"
    BY <2>1
  <2>4. QED BY <1>1, <2>2, <2>3, DirectoryDeferred
<1>8. QED BY <1>2, <1>5, <1>6, <1>7

LEMMA DirectoryKeeps ==
  ASSUME DirectoryInv, Admitted, [Directory!Next]_<<view, calls, server>>
  PROVE  DirectoryInv'
<1>1. CASE UNCHANGED <<view, calls, server>>
  BY <1>1 DEF DirectoryInv, DirectoryRecord
<1>2. CASE Directory!Next
  BY <1>2, DirectoryPanels, DirectoryToggles, DirectoryRecords, DirectoryDefers, DirectoryKept,
     DirectoryReloads DEF Directory!Next
<1>3. QED BY <1>1, <1>2

\* Once the deferred records are kept or lost, the audit log told from the seed gives every stored
\* value but those whose last record went with the page, for any users, settings and lookups,
\* whichever panels made the records and in which order.
THEOREM LogTellsStored == Spec => []AuditTrail
<1> DEFINE Inv == route = "admin" => DirectoryInv
<1>1. Admitted
  BY ConsoleAssumption DEF ConsoleAssumption, Admitted
<1>2. Init => Inv
  BY DirectoryMounted, DirectoryInit
<1>3. Inv /\ [Next]_vars => Inv'
  BY <1>1, RouteStays, DirectoryStep, DirectoryKeeps
<1>4. Inv => AuditTrail
  <2> SUFFICES ASSUME DirectoryInv, calls = <<>>, NEW e \in Entities \ server.lost
               PROVE  Directory!Replayed(e) = server.data[e]
    BY DEF AuditTrail, Directory!AuditTrail, Entities
  <2>1. IsList(server.log) /\ Accounted(server.log, calls, e, server.data[e])
    BY DEF DirectoryInv
  <2>2. ~TellsLast(calls, e, server.data[e])
    BY DEF TellsLast
  <2>3. QED BY <2>1, <2>2, ReplayTells DEF Accounted
<1>5. QED BY <1>2, <1>3, <1>4, PTL DEF Spec

-----------------------------------------------------------------------------
(* The copilot on the built-in server *)

LEMMA DemoMounted == Init /\ route = "copilot-demo" => Demo!Init
  BY DEF Init, Mounted

LEMMA DemoStep == [Next]_vars /\ route = "copilot-demo" => [Demo!Next]_<<view, calls, server>>
  BY DEF Next, vars

DemoRecord(v) ==
  v = [mounted |-> v.mounted, sessions |-> v.sessions, active |-> v.active, asked |-> v.asked,
       made |-> v.made]

\* Only a question leaves the screen ahead of the store, and its answer is then being played.
DemoInv == DemoRecord(view) /\ Demo!StoredIsShown

LEMMA DemoInit == Demo!Init => DemoInv
  BY DEF Demo!Init, DemoInv, DemoRecord, Demo!StoredIsShown

LEMMA DemoKeeps ==
  ASSUME DemoInv, [Demo!Next]_<<view, calls, server>>
  PROVE  DemoInv'
<1>1. DemoRecord(view) /\ Demo!StoredIsShown
  BY DEF DemoInv
<1>2. ASSUME DemoRecord(view'), server' = view'.sessions PROVE DemoInv'
  BY <1>2 DEF DemoInv, Demo!StoredIsShown
<1>3. CASE UNCHANGED <<view, calls, server>>
  BY <1>1, <1>3 DEF DemoInv, DemoRecord, Demo!StoredIsShown
<1>4. ASSUME NEW id, Demo!HandleSelectSession(id) PROVE DemoInv'
  BY <1>1, <1>4 DEF Demo!HandleSelectSession, DemoInv, DemoRecord, Demo!StoredIsShown
<1>5. CASE Demo!HandleCreateNewSession
  BY <1>1, <1>2, <1>5 DEF Demo!HandleCreateNewSession, Demo!Save, DemoRecord
<1>6. ASSUME NEW id, Demo!HandleDeleteSession(id) PROVE DemoInv'
  <2>1. PICK left : \/ view' = [view EXCEPT !.sessions = left, !.active = view'.active] /\ server' = left
                    \/ view' = [view EXCEPT !.sessions = left, !.active = view'.active, !.made = @ + 1]
                         /\ server' = left
    BY <1>1, <1>6 DEF Demo!HandleDeleteSession, Demo!Save, DemoRecord
  <2>2. QED BY <1>1, <1>2, <2>1 DEF DemoRecord
<1>7. ASSUME NEW id, Demo!HandleTogglePinSession(id) PROVE DemoInv'
  BY <1>1, <1>2, <1>7 DEF Demo!HandleTogglePinSession, Demo!Save, DemoRecord
<1>8. CASE Demo!HandleSend
  <2>1. PICK waiting : view' = [view EXCEPT !.sessions = waiting, !.asked = view.asked + 1]
    BY <1>8 DEF Demo!HandleSend
  <2>2. calls' # {}
    BY <1>8 DEF Demo!HandleSend
  <2>3. QED BY <1>1, <2>1, <2>2 DEF DemoInv, DemoRecord, Demo!StoredIsShown
<1>9. ASSUME NEW c \in calls, Demo!AnswerPlayed(c) PROVE DemoInv'
  BY <1>1, <1>2, <1>9 DEF Demo!AnswerPlayed, Demo!Save, DemoRecord
<1>10. CASE Demo!Leave
  BY <1>1, <1>10 DEF Demo!Leave, DemoInv, DemoRecord, Demo!StoredIsShown
<1>11. CASE Demo!Return
  BY <1>1, <1>2, <1>11 DEF Demo!Return, DemoRecord
<1>12. QED BY <1>3, <1>4, <1>5, <1>6, <1>7, <1>8, <1>9, <1>10, <1>11 DEF Demo!Next

-----------------------------------------------------------------------------
(* Spare parts *)

LEMMA StockMounted == Init /\ route = "parts" => Stock!Init
  BY DEF Init, Mounted

LEMMA StockStep == [Next]_vars /\ route = "parts" => [Stock!Next]_<<view, calls, server>>
  BY DEF Next, vars

StockRecord(v) ==
  v = [rows |-> v.rows, loading |-> v.loading, editing |-> v.editing, count |-> v.count,
       adding |-> v.adding, low |-> v.low]

\* Until the list is loaded the rows are none; after that each answer sets both counts.
StockInv ==
  /\ StockRecord(view) /\ IsList(calls)
  /\ Some(calls, {"list"}) \/ view.rows = server

LEMMA StockInit == Stock!Init => StockInv
<1> SUFFICES ASSUME Stock!Init PROVE StockInv
  OBVIOUS
<1>1. StockRecord(view) /\ calls = <<[op |-> "list"]>>
  BY DEF Stock!Init, StockRecord
<1>2. QED BY <1>1, OneCall DEF StockInv

LEMMA StockKeeps ==
  ASSUME StockInv, [Stock!Next]_<<view, calls, server>>
  PROVE  StockInv'
<1>1. StockRecord(view) /\ IsList(calls) /\ (Some(calls, {"list"}) \/ view.rows = server)
  BY DEF StockInv
<1>2. ASSUME StockRecord(view'), view'.rows = view.rows, UNCHANGED <<calls, server>> PROVE StockInv'
  BY <1>1, <1>2 DEF StockInv
<1>3. CASE UNCHANGED <<view, calls, server>>
  BY <1>1, <1>2, <1>3
<1>4. CASE \/ Stock!ToggleLowStock \/ Stock!CancelEdit \/ Stock!ToggleAddForm
           \/ \E p \in Parts \cup NewParts : Stock!EditCount(p)
           \/ \E c \in Counts : Stock!TypeCount(c)
  BY <1>1, <1>2, <1>4 DEF StockRecord, Stock!ToggleLowStock, Stock!CancelEdit, Stock!ToggleAddForm,
                          Stock!EditCount, Stock!TypeCount
<1>5. CASE Stock!HandleUpdateOnHand \/ \E c \in Counts : Stock!HandleAddPart(c)
  <2>1. UNCHANGED <<view, server>> /\ \E c : calls' = Append(calls, c)
    BY <1>5 DEF Stock!HandleUpdateOnHand, Stock!HandleAddPart
  <2>2. QED BY <1>1, <2>1, CallAdded DEF StockInv
<1>6. CASE Stock!Updated
  <2>1. /\ calls # <<>> /\ Head(calls).op \notin {"list"} /\ calls' = Tail(calls)
        /\ server' = [server EXCEPT ![Head(calls).part] = Head(calls).count]
        /\ view' = [view EXCEPT !.rows[Head(calls).part] = Head(calls).count, !.editing = None]
    BY <1>6 DEF Stock!Updated
  <2>2. StockRecord(view') /\ (view.rows = server => view'.rows = server')
    BY <1>1, <2>1 DEF StockRecord
  <2>3. QED BY <1>1, <2>1, <2>2, CallTaken DEF StockInv
<1>7. ASSUME NEW p \in Parts \cup NewParts, Stock!PartAdded(p) PROVE StockInv'
  <2>1. /\ calls # <<>> /\ Head(calls).op \notin {"list"} /\ calls' = Tail(calls)
        /\ server' = [server EXCEPT ![p] = Head(calls).count]
        /\ view' = [view EXCEPT !.rows[p] = Head(calls).count, !.adding = FALSE]
    BY <1>7 DEF Stock!PartAdded
  <2>2. StockRecord(view') /\ (view.rows = server => view'.rows = server')
    BY <1>1, <2>1 DEF StockRecord
  <2>3. QED BY <1>1, <2>1, <2>2, CallTaken DEF StockInv
<1>8. CASE Stock!PartsLoaded
  <2>1. calls # <<>> /\ calls' = Tail(calls) /\ UNCHANGED server
        /\ view' = [view EXCEPT !.rows = server, !.loading = FALSE]
    BY <1>8 DEF Stock!PartsLoaded
  <2>2. StockRecord(view') /\ view'.rows = server'
    BY <1>1, <2>1 DEF StockRecord
  <2>3. QED BY <1>1, <2>1, <2>2, CallTaken DEF StockInv
<1>9. QED BY <1>3, <1>4, <1>5, <1>6, <1>7, <1>8 DEF Stock!Next

-----------------------------------------------------------------------------
(* The condition tab *)

LEMMA ConditionMounted == Init /\ route = "condition" => Condition!Init
  BY DEF Init, Mounted

LEMMA ConditionStep == [Next]_vars /\ route = "condition" => [Condition!Next]_<<view, calls, server>>
  BY DEF Next, vars

ConditionRecord(v) ==
  v = [at |-> v.at, loading |-> v.loading, drawer |-> v.drawer, submitting |-> v.submitting,
       chart |-> v.chart]

\* The chart is as it is stored, or a fetch is under way that will draw it again, whatever series
\* that fetch is of.
ConditionInv ==
  /\ ConditionRecord(view) /\ IsList(calls)
  /\ Some(calls, {"meters", "readings"}) \/ view.chart.readings = server[view.chart.of]

LEMMA ConditionInit == Condition!Init => ConditionInv
<1> SUFFICES ASSUME Condition!Init PROVE ConditionInv
  OBVIOUS
<1>1. PICK q : /\ view = [at |-> q, loading |-> TRUE, drawer |-> None, submitting |-> FALSE,
                          chart |-> None]
               /\ calls = <<Condition!Fetch(q)>>
  BY DEF Condition!Init
<1>2. ConditionRecord(view) /\ Condition!Fetch(q).op \in {"meters", "readings"}
  BY <1>1 DEF ConditionRecord, Condition!Fetch
<1>3. QED BY <1>1, <1>2, OneCall DEF ConditionInv

LEMMA ConditionKeeps ==
  ASSUME ConditionInv, [Condition!Next]_<<view, calls, server>>
  PROVE  ConditionInv'
<1> DEFINE fetches == {"meters", "readings"}
<1>1. ConditionRecord(view) /\ IsList(calls)
      /\ (Some(calls, fetches) \/ view.chart.readings = server[view.chart.of])
  BY DEF ConditionInv
<1>2. ASSUME ConditionRecord(view'), IsList(calls'), Some(calls', fetches) PROVE ConditionInv'
  BY <1>2 DEF ConditionInv
<1>3. ASSUME ConditionRecord(view'), view'.chart = view.chart, UNCHANGED server,
             calls' = calls \/ \E c : calls' = Append(calls, c)
      PROVE  ConditionInv'
  <2>1. IsList(calls') /\ (Some(calls, fetches) => Some(calls', fetches))
    <3> HIDE DEF fetches
    <3>1. ASSUME NEW c, calls' = Append(calls, c)
          PROVE  IsList(calls') /\ (Some(calls, fetches) => Some(calls', fetches))
      BY <1>1, <3>1, CallAdded
    <3>2. QED BY <1>1, <1>3, <3>1
  <2>2. QED BY <1>1, <1>3, <2>1 DEF ConditionInv
<1>4. CASE UNCHANGED <<view, calls, server>>
  BY <1>1, <1>3, <1>4
<1>5. CASE \/ Condition!OpenDrawer \/ Condition!CloseDrawer \/ Condition!SubmitReading
           \/ \E s \in Series : Condition!PickMeter(s)
  BY <1>1, <1>3, <1>5 DEF ConditionRecord, Condition!OpenDrawer, Condition!CloseDrawer,
                          Condition!SubmitReading, Condition!PickMeter
<1>6. ASSUME NEW q, Condition!Show(q) PROVE ConditionInv'
  BY <1>1, <1>3, <1>6 DEF ConditionRecord, Condition!Show
<1>7. CASE Condition!ReadingStored
  <2>1. PICK q : /\ calls # <<>> /\ calls' = Append(Tail(calls), Condition!Fetch(q))
                 /\ view' = [view EXCEPT !.drawer = None, !.submitting = FALSE, !.loading = TRUE]
    BY <1>7 DEF Condition!ReadingStored
  <2>2. ConditionRecord(view') /\ Condition!Fetch(q).op \in fetches
    BY <1>1, <2>1 DEF ConditionRecord, Condition!Fetch
  <2>3. IsList(calls') /\ Some(calls', fetches)
    <3> HIDE DEF fetches
    <3>1. IsList(Tail(calls))
      BY <1>1, <2>1, CallTaken
    <3>2. QED BY <2>1, <2>2, <3>1, CallAdded
  <2>4. QED BY <1>2, <2>2, <2>3
<1>8. CASE Condition!MetersAnswered
  <2>1. PICK q : calls # <<>> /\ calls' = Append(Tail(calls), [op |-> "readings", query |-> q, to |-> None])
    BY <1>8 DEF Condition!MetersAnswered
  <2>2. [op |-> "readings", query |-> q, to |-> None].op \in fetches /\ UNCHANGED <<view, server>>
    BY <1>8 DEF Condition!MetersAnswered
  <2>3. IsList(calls') /\ Some(calls', fetches)
    BY <1>1, <2>1, <2>2, CallTaken, CallAdded
  <2>4. QED BY <1>1, <1>2, <2>2, <2>3
<1>9. CASE Condition!ReadingsAnswered
  <2>1. PICK q : /\ calls # <<>> /\ calls' = Tail(calls) /\ UNCHANGED server
                 /\ view' = [view EXCEPT !.chart = [of |-> q, readings |-> server[q]], !.loading = FALSE]
    BY <1>9 DEF Condition!ReadingsAnswered
  <2>2. ConditionRecord(view') /\ view'.chart.readings = server'[view'.chart.of]
    BY <1>1, <2>1 DEF ConditionRecord
  <2>3. QED BY <1>1, <2>1, <2>2, CallTaken DEF ConditionInv
<1>10. QED BY <1>4, <1>5, <1>6, <1>7, <1>8, <1>9 DEF Condition!Next, Condition!SelectSeries,
              Condition!OpenAsset

-----------------------------------------------------------------------------
(* API keys and webhooks *)

LEMMA KeysMounted == Init /\ route = "integrations" => Keys!Init
  BY DEF Init, Mounted

LEMMA KeysStep == [Next]_vars /\ route = "integrations" => [Keys!Next]_<<view, calls, server>>
  BY DEF Next, vars

KeysRecord(v) ==
  v = [tab |-> v.tab, rows |-> v.rows, loading |-> v.loading, creating |-> v.creating,
       rawKey |-> v.rawKey, editing |-> v.editing, draft |-> v.draft, payload |-> v.payload]

\* A list that loads, or is not as it is stored, is fetched by a call under way.
KeysFetched == \A l \in Keys!Lists :
  l \in view.loading \/ view.rows[l] # server[l] => Has(calls, {Keys!Fetch(l)})

KeysInv ==
  /\ KeysRecord(view) /\ IsList(calls) /\ view.loading \subseteq Keys!Lists
  /\ view.rows = [l \in Keys!Lists |-> view.rows[l]]
  /\ server = [l \in Keys!Lists |-> server[l]]
  /\ KeysFetched

LEMMA KeysInit == Keys!Init => KeysInv
<1> SUFFICES ASSUME Keys!Init PROVE KeysInv
  OBVIOUS
<1>1. /\ KeysRecord(view) /\ view.loading = Keys!Lists /\ view.rows = [l \in Keys!Lists |-> <<>>]
      /\ calls = <<Keys!Fetch("keys"), Keys!Fetch("hooks"), Keys!Fetch("deliveries")>>
  BY DEF Keys!Init, KeysRecord
<1>2. IsList(calls) /\ \A l \in Keys!Lists : Has(calls, {Keys!Fetch(l)})
  <2> DEFINE S == {Keys!Fetch(l) : l \in Keys!Lists}
  <2>1. Keys!Lists = {"keys", "hooks", "deliveries"}
    BY DEF Keys!Lists
  <2>2. Keys!Fetch("keys") \in S /\ Keys!Fetch("hooks") \in S /\ Keys!Fetch("deliveries") \in S
    BY <2>1
  <2> HIDE DEF S
  <2>3. calls \in Seq(S) /\ DOMAIN calls = 1 .. 3
        /\ calls[1] = Keys!Fetch("keys") /\ calls[2] = Keys!Fetch("hooks") /\ calls[3] = Keys!Fetch("deliveries")
    BY <1>1, <2>2
  <2>4. QED BY <2>1, <2>3 DEF IsList, Has
<1>3. server = [l \in Keys!Lists |-> server[l]]
  BY DEF Keys!Init, Keys!Stored, Keys!Lists
<1>4. QED BY <1>1, <1>2, <1>3 DEF KeysInv, KeysFetched

\* Steps that change neither the lists nor what is stored.
LEMMA KeysLocal ==
  ASSUME KeysInv, KeysRecord(view'), view'.rows = view.rows, view'.loading = view.loading,
         UNCHANGED server, calls' = calls \/ \E c : calls' = Append(calls, c)
  PROVE  KeysInv'
<1>1. ASSUME NEW c, calls' = Append(calls, c)
      PROVE  IsList(calls') /\ \A l \in Keys!Lists : Has(calls, {Keys!Fetch(l)}) => Has(calls', {Keys!Fetch(l)})
  BY <1>1, CallAdded DEF KeysInv
<1>2. IsList(calls') /\ \A l \in Keys!Lists : Has(calls, {Keys!Fetch(l)}) => Has(calls', {Keys!Fetch(l)})
  BY <1>1 DEF KeysInv
<1>3. QED BY <1>2 DEF KeysInv, KeysFetched

\* A change is followed by a fetch of the list it changed.
LEMMA KeysChanged ==
  ASSUME KeysInv, NEW l \in Keys!Lists, calls # <<>>, Head(calls).op # "list",
         calls' = Append(Tail(calls), Keys!Fetch(l)), NEW new, server' = [server EXCEPT ![l] = new],
         KeysRecord(view'), view'.rows = view.rows, view'.loading = view.loading \cup {l}
  PROVE  KeysInv'
<1>1. IsList(Tail(calls)) /\ \A m \in Keys!Lists : Has(calls, {Keys!Fetch(m)}) => Has(Tail(calls), {Keys!Fetch(m)})
  <2>1. \A m \in Keys!Lists : Head(calls) \notin {Keys!Fetch(m)}
    BY DEF Keys!Fetch
  <2>2. IsList(calls)
    BY DEF KeysInv
  <2>3. QED BY <2>1, <2>2, CallTaken
<1>2. /\ IsList(calls') /\ Has(calls', {Keys!Fetch(l)})
      /\ \A m \in Keys!Lists : Has(calls, {Keys!Fetch(m)}) => Has(calls', {Keys!Fetch(m)})
  BY <1>1, CallAdded
<1>3. server' = [m \in Keys!Lists |-> server'[m]] /\ \A m \in Keys!Lists \ {l} : server'[m] = server[m]
  BY DEF KeysInv
<1>4. QED BY <1>2, <1>3 DEF KeysInv, KeysFetched

LEMMA KeysKeep ==
  ASSUME KeysInv, [Keys!Next]_<<view, calls, server>>
  PROVE  KeysInv'
<1>1. KeysRecord(view) /\ IsList(calls)
  BY DEF KeysInv
<1>2. CASE UNCHANGED <<view, calls, server>>
  BY <1>1, <1>2, KeysLocal
<1>3. CASE \/ Keys!OpenCreateKey \/ Keys!CloseCreateKey \/ Keys!ForgetRawKey
           \/ Keys!OpenWebhookCreate \/ Keys!CloseWebhook \/ Keys!ClosePayload
           \/ \E t \in {"api-keys", "webhooks"} : Keys!ShowTab(t)
  <2>1. KeysRecord(view') /\ view'.rows = view.rows /\ view'.loading = view.loading /\ UNCHANGED <<calls, server>>
    BY <1>1, <1>3 DEF KeysRecord, Keys!OpenCreateKey, Keys!CloseCreateKey, Keys!ForgetRawKey,
                      Keys!OpenWebhookCreate, Keys!CloseWebhook, Keys!ClosePayload, Keys!ShowTab
  <2>2. QED BY <2>1, KeysLocal
<1>4. CASE \/ \E h \in Keys!Hooks : Keys!OpenWebhookEdit(h)
           \/ \E e \in Events : Keys!ToggleWebhookEvent(e)
           \/ \E d \in 1 .. MaxDeliveries : Keys!InspectPayload(d)
  <2>1. KeysRecord(view') /\ view'.rows = view.rows /\ view'.loading = view.loading /\ UNCHANGED <<calls, server>>
    BY <1>1, <1>4 DEF KeysRecord, Keys!OpenWebhookEdit, Keys!ToggleWebhookEvent, Keys!InspectPayload
  <2>2. QED BY <2>1, KeysLocal
<1>5. CASE \/ Keys!HandleCreateKey \/ Keys!HandleSaveWebhook
           \/ \E k \in Keys!Keys : Keys!HandleRevokeKey(k)
           \/ \E h \in Keys!Hooks : Keys!HandleSendTest(h)
           \/ \E d \in 1 .. MaxDeliveries : Keys!HandleRetryDelivery(d)
  <2>1. UNCHANGED <<view, server>> /\ \E c : calls' = Append(calls, c)
    BY <1>5 DEF Keys!HandleCreateKey, Keys!HandleSaveWebhook, Keys!HandleRevokeKey,
                Keys!HandleSendTest, Keys!HandleRetryDelivery, Keys!Call
  <2>2. QED BY <1>1, <2>1, KeysLocal
<1>6. CASE Keys!KeyCreated \/ Keys!KeyRevoked
  <2>1. /\ calls # <<>> /\ Head(calls).op # "list" /\ calls' = Append(Tail(calls), Keys!Fetch("keys"))
        /\ \E new : server' = [server EXCEPT !["keys"] = new]
    BY <1>6 DEF Keys!KeyCreated, Keys!KeyRevoked
  <2>2. KeysRecord(view') /\ view'.rows = view.rows /\ view'.loading = view.loading \cup {"keys"}
    BY <1>1, <1>6 DEF KeysRecord, Keys!KeyCreated, Keys!KeyRevoked
  <2>3. "keys" \in Keys!Lists
    BY DEF Keys!Lists
  <2>4. QED BY <2>1, <2>2, <2>3, KeysChanged
<1>7. CASE Keys!WebhookSaved
  <2>1. /\ calls # <<>> /\ Head(calls).op # "list" /\ calls' = Append(Tail(calls), Keys!Fetch("hooks"))
        /\ \E new : server' = [server EXCEPT !["hooks"] = new]
    BY <1>7 DEF Keys!WebhookSaved
  <2>2. KeysRecord(view') /\ view'.rows = view.rows /\ view'.loading = view.loading \cup {"hooks"}
    BY <1>1, <1>7 DEF KeysRecord, Keys!WebhookSaved
  <2>3. "hooks" \in Keys!Lists
    BY DEF Keys!Lists
  <2>4. QED BY <2>1, <2>2, <2>3, KeysChanged
<1>8. CASE Keys!TestSent \/ Keys!DeliveryRetried
  <2>1. /\ calls # <<>> /\ Head(calls).op # "list"
        /\ calls' = Append(Tail(calls), Keys!Fetch("deliveries"))
        /\ \E new : server' = [server EXCEPT !["deliveries"] = new]
    BY <1>8 DEF Keys!TestSent, Keys!DeliveryRetried
  <2>2. KeysRecord(view') /\ view'.rows = view.rows /\ view'.loading = view.loading \cup {"deliveries"}
    BY <1>1, <1>8 DEF KeysRecord, Keys!TestSent, Keys!DeliveryRetried
  <2>3. "deliveries" \in Keys!Lists
    BY DEF Keys!Lists
  <2>4. QED BY <2>1, <2>2, <2>3, KeysChanged
<1>9. CASE Keys!ListAnswered
  <2>1. PICK list : /\ calls # <<>> /\ list = Head(calls).list /\ calls' = Tail(calls) /\ UNCHANGED server
                    /\ view' = [view EXCEPT !.rows[list] = server[list], !.loading = @ \ {list}]
    BY <1>9 DEF Keys!ListAnswered
  <2>2. /\ KeysRecord(view') /\ view'.loading = view.loading \ {list}
        /\ view'.rows = [view.rows EXCEPT ![list] = server[list]]
    BY <1>1, <2>1 DEF KeysRecord
  <2>3. IsList(calls') /\ \A l \in Keys!Lists \ {list} : Has(calls, {Keys!Fetch(l)}) => Has(calls', {Keys!Fetch(l)})
    <3>1. \A l \in Keys!Lists \ {list} : Head(calls) \notin {Keys!Fetch(l)}
      BY <2>1 DEF Keys!Fetch
    <3>2. QED BY <1>1, <2>1, <3>1, CallTaken
  <2>4. /\ view'.rows = [l \in Keys!Lists |-> view'.rows[l]]
        /\ \A l \in Keys!Lists : view'.rows[l] = IF l = list THEN server[l] ELSE view.rows[l]
    BY <2>2 DEF KeysInv
  <2>5. QED BY <2>1, <2>2, <2>3, <2>4 DEF KeysInv, KeysFetched
<1>10. QED BY <1>2, <1>3, <1>4, <1>5, <1>6, <1>7, <1>8, <1>9 DEF Keys!Next

-----------------------------------------------------------------------------
(* The profile and its matrix *)

LEMMA ProfileMounted == Init /\ route = "settings" => Profile!Init
  BY DEF Init, Mounted

LEMMA ProfileStep == [Next]_vars /\ route = "settings" => [Profile!Next]_<<view, calls, server>>
  BY DEF Next, vars

ProfileAllowed == Profile!ProfileAssumption

ProfileRecord(v) ==
  v = [tab |-> v.tab, sessions |-> v.sessions, password |-> v.password, error |-> v.error,
       settings |-> v.settings, draft |-> v.draft, rows |-> v.rows, doubtful |-> v.doubtful]

AccountRecord(s) == s = [settings |-> s.settings, sessions |-> s.sessions, rows |-> s.rows]

Channels == [Profile!Fields -> BOOLEAN]

Saves(c, e) == c.op = "save" /\ c.of = e
Asks(c) == c.op = "rows" /\ c.mine

\* The saves of a row that are under way lead, one from another, from what is stored to what
\* is shown.
Linked(list, e, stored, shown) ==
  /\ \A i \in DOMAIN list :
       Saves(list[i], e) /\ (\A j \in DOMAIN list : j < i => ~Saves(list[j], e)) => list[i].from = stored
  /\ \A i, j \in DOMAIN list :
       /\ i < j /\ Saves(list[i], e) /\ Saves(list[j], e)
       /\ \A k \in DOMAIN list : i < k /\ k < j => ~Saves(list[k], e)
       => list[j].from = list[i].to
  /\ \A i \in DOMAIN list :
       Saves(list[i], e) /\ (\A j \in DOMAIN list : i < j => ~Saves(list[j], e)) => list[i].to = shown
  /\ (\A i \in DOMAIN list : ~Saves(list[i], e)) => stored = shown

LEMMA LinkedMore ==
  ASSUME NEW list, IsList(list), NEW c, NEW e, NEW stored, NEW shown, Linked(list, e, stored, shown)
  PROVE  /\ ~Saves(c, e) => Linked(Append(list, c), e, stored, shown)
         /\ Saves(c, e) /\ c.from = shown => Linked(Append(list, c), e, stored, c.to)
<1> DEFINE longer == Append(list, c)
           n == Len(list)
<1>1. /\ DOMAIN list = 1 .. n /\ n \in Nat /\ DOMAIN longer = 1 .. n + 1 /\ longer[n + 1] = c
      /\ \A i \in DOMAIN list : longer[i] = list[i]
  BY ListGrows
<1> HIDE DEF longer, n
<1>2. /\ DOMAIN list \subseteq DOMAIN longer /\ n + 1 \in DOMAIN longer
      /\ \A i \in DOMAIN longer : i = n + 1 \/ i \in DOMAIN list
      /\ \A i \in DOMAIN list : i < n + 1 /\ ~(n + 1 < i)
  BY <1>1
<1>3. \A i \in DOMAIN list : Saves(longer[i], e) <=> Saves(list[i], e)
  BY <1>1
<1>4. ASSUME ~Saves(c, e) PROVE Linked(longer, e, stored, shown)
  <2>1. \A i \in DOMAIN longer : Saves(longer[i], e) => i \in DOMAIN list /\ Saves(list[i], e)
    BY <1>1, <1>2, <1>3, <1>4
  <2>2. QED BY <1>1, <1>2, <1>3, <2>1 DEF Linked
<1>5. ASSUME Saves(c, e), c.from = shown PROVE Linked(longer, e, stored, c.to)
  <2>1. ASSUME NEW i \in DOMAIN longer, Saves(longer[i], e),
               \A j \in DOMAIN longer : j < i => ~Saves(longer[j], e)
        PROVE  longer[i].from = stored
    <3>1. CASE i = n + 1
      <4>1. \A j \in DOMAIN list : ~Saves(list[j], e)
        BY <1>2, <1>3, <2>1, <3>1
      <4>2. QED BY <1>1, <1>5, <3>1, <4>1 DEF Linked
    <3>2. CASE i \in DOMAIN list
      <4>1. Saves(list[i], e) /\ \A j \in DOMAIN list : j < i => ~Saves(list[j], e)
        BY <1>2, <1>3, <2>1, <3>2
      <4>2. QED BY <1>1, <3>2, <4>1 DEF Linked
    <3>3. QED BY <1>2, <3>1, <3>2
  <2>2. ASSUME NEW i \in DOMAIN longer, NEW j \in DOMAIN longer, i < j,
               Saves(longer[i], e), Saves(longer[j], e),
               \A k \in DOMAIN longer : i < k /\ k < j => ~Saves(longer[k], e)
        PROVE  longer[j].from = longer[i].to
    <3>1. i \in DOMAIN list /\ Saves(list[i], e)
      BY <1>1, <1>2, <1>3, <2>2
    <3>2. CASE j = n + 1
      <4>1. \A k \in DOMAIN list : i < k => ~Saves(list[k], e)
        BY <1>2, <1>3, <2>2, <3>2
      <4>2. QED BY <1>1, <1>5, <3>1, <3>2, <4>1 DEF Linked
    <3>3. CASE j \in DOMAIN list
      <4>1. Saves(list[j], e) /\ \A k \in DOMAIN list : i < k /\ k < j => ~Saves(list[k], e)
        BY <1>2, <1>3, <2>2, <3>3
      <4>2. QED BY <1>1, <2>2, <3>1, <3>3, <4>1 DEF Linked
    <3>4. QED BY <1>2, <3>2, <3>3
  <2>3. ASSUME NEW i \in DOMAIN longer, Saves(longer[i], e),
               \A j \in DOMAIN longer : i < j => ~Saves(longer[j], e)
        PROVE  longer[i].to = c.to
    <3>1. i = n + 1
      BY <1>1, <1>2, <1>5, <2>3
    <3>2. QED BY <1>1, <3>1
  <2>4. ~ \A i \in DOMAIN longer : ~Saves(longer[i], e)
    BY <1>1, <1>2, <1>5
  <2>5. QED BY <2>1, <2>2, <2>3, <2>4 DEF Linked
<1>6. QED BY <1>4, <1>5 DEF longer

\* The oldest save of a row starts from what is stored; when it is stored the rest do from there.
LEMMA LinkedLess ==
  ASSUME NEW list, IsList(list), list # <<>>, NEW e, NEW stored, NEW shown,
         Linked(list, e, stored, shown)
  PROVE  /\ ~Saves(Head(list), e) => Linked(Tail(list), e, stored, shown)
         /\ Saves(Head(list), e) =>
              /\ Head(list).from = stored
              /\ Linked(Tail(list), e, Head(list).to, shown)
<1> DEFINE rest == Tail(list)
           head == Head(list)
<1>1. /\ head = list[1] /\ 1 \in DOMAIN list
      /\ DOMAIN list = 1 .. Len(list) /\ Len(list) \in Nat
      /\ DOMAIN rest = 1 .. Len(list) - 1
      /\ \A i \in DOMAIN rest : i + 1 \in DOMAIN list /\ rest[i] = list[i + 1]
  BY CallTaken
<1> HIDE DEF rest, head
<1>2. \A j \in DOMAIN list : j = 1 \/ (1 < j /\ j - 1 \in DOMAIN rest /\ rest[j - 1] = list[j])
  BY <1>1
<1>3. \A i \in DOMAIN rest : 1 < i + 1
  BY <1>1
<1>4. \A i, j \in DOMAIN rest : i < j <=> i + 1 < j + 1
  BY <1>1
<1>5. \A i \in DOMAIN rest, j \in DOMAIN list : 1 < j => (i < j - 1 <=> i + 1 < j) /\ (j - 1 < i <=> j < i + 1)
  BY <1>1
<1>6. ASSUME NEW i \in DOMAIN rest, NEW j \in DOMAIN rest, i < j,
             Saves(rest[i], e), Saves(rest[j], e),
             \A k \in DOMAIN rest : i < k /\ k < j => ~Saves(rest[k], e)
      PROVE  rest[j].from = rest[i].to
  <2>1. ASSUME NEW k \in DOMAIN list, i + 1 < k, k < j + 1 PROVE ~Saves(list[k], e)
    <3>1. 1 < k
      BY <1>1, <2>1
    <3>2. k - 1 \in DOMAIN rest /\ rest[k - 1] = list[k] /\ i < k - 1 /\ k - 1 < j
      BY <1>2, <1>5, <2>1, <3>1
    <3>3. QED BY <1>6, <3>2
  <2>2. i + 1 < j + 1 /\ Saves(list[i + 1], e) /\ Saves(list[j + 1], e)
    BY <1>1, <1>4, <1>6
  <2>3. list[j + 1].from = list[i + 1].to
    BY <1>1, <2>1, <2>2 DEF Linked
  <2>4. QED BY <1>1, <2>3
<1>7. ASSUME NEW i \in DOMAIN rest, Saves(rest[i], e), \A j \in DOMAIN rest : i < j => ~Saves(rest[j], e)
      PROVE  rest[i].to = shown
  <2>1. \A j \in DOMAIN list : i + 1 < j => ~Saves(list[j], e)
    BY <1>1, <1>2, <1>3, <1>5, <1>7
  <2>2. list[i + 1].to = shown
    BY <1>1, <1>7, <2>1 DEF Linked
  <2>3. QED BY <1>1, <2>2
<1>8. ASSUME ~Saves(head, e) PROVE Linked(rest, e, stored, shown)
  <2>1. ASSUME NEW i \in DOMAIN rest, Saves(rest[i], e), \A j \in DOMAIN rest : j < i => ~Saves(rest[j], e)
        PROVE  rest[i].from = stored
    <3>1. \A j \in DOMAIN list : j < i + 1 => ~Saves(list[j], e)
      BY <1>1, <1>2, <1>5, <1>8, <2>1
    <3>2. list[i + 1].from = stored
      BY <1>1, <2>1, <3>1 DEF Linked
    <3>3. QED BY <1>1, <3>2
  <2>2. ASSUME \A i \in DOMAIN rest : ~Saves(rest[i], e) PROVE stored = shown
    <3>1. \A j \in DOMAIN list : ~Saves(list[j], e)
      BY <1>1, <1>2, <1>8, <2>2
    <3>2. QED BY <3>1 DEF Linked
  <2>3. QED BY <1>6, <1>7, <2>1, <2>2 DEF Linked
<1>9. ASSUME Saves(head, e) PROVE head.from = stored /\ Linked(rest, e, head.to, shown)
  <2>1. \A j \in DOMAIN list : ~(j < 1)
    BY <1>1
  <2>2. head.from = stored
    BY <1>1, <1>9, <2>1 DEF Linked
  <2>3. ASSUME NEW i \in DOMAIN rest, Saves(rest[i], e), \A j \in DOMAIN rest : j < i => ~Saves(rest[j], e)
        PROVE  rest[i].from = head.to
    <3>1. \A k \in DOMAIN list : 1 < k /\ k < i + 1 => ~Saves(list[k], e)
      BY <1>1, <1>2, <1>5, <2>3
    <3>2. list[i + 1].from = list[1].to
      BY <1>1, <1>3, <1>9, <2>3, <3>1 DEF Linked
    <3>3. QED BY <1>1, <3>2
  <2>4. ASSUME \A i \in DOMAIN rest : ~Saves(rest[i], e) PROVE head.to = shown
    <3>1. \A j \in DOMAIN list : 1 < j => ~Saves(list[j], e)
      BY <1>1, <1>2, <2>4
    <3>2. QED BY <1>1, <1>9, <3>1 DEF Linked
  <2>5. Linked(rest, e, head.to, shown)
    BY <1>6, <1>7, <2>3, <2>4 DEF Linked
  <2>6. QED BY <2>2, <2>5
<1>10. QED BY <1>8, <1>9 DEF rest, head

Shaped(c) == c = [op |-> c.op, of |-> c.of, from |-> c.from, to |-> c.to, mine |-> c.mine]

\* A save is of the matrix that is shown, or of one that was left.
Proper(c, v) ==
  /\ Shaped(c)
  /\ c.op = "save" => /\ c.of \in Events /\ {c.from, c.to} \subseteq Channels
                      /\ c.mine <=> v.rows # None

\* The call that loads the matrix comes after the saves of the one that was left.
Loads(list, v) ==
  \A i \in DOMAIN list : Asks(list[i]) =>
    /\ v.rows = None
    /\ \A j \in DOMAIN list : (list[j].op = "save" => j < i) /\ (Asks(list[j]) => j = i)

Matrix(list, v, stored) ==
  /\ \A i \in DOMAIN list : Proper(list[i], v)
  /\ Loads(list, v)
  /\ v.rows # None =>
       /\ v.rows \in [Events -> Channels]
       /\ \A e \in Events \ v.doubtful : Linked(list, e, stored[e], v.rows[e])
  /\ stored \in [Events -> Channels]

\* The sessions are those stored, or are fetched again.
ProfileInv ==
  /\ ProfileRecord(view) /\ AccountRecord(server) /\ IsList(calls)
  /\ view.settings = server.settings
  /\ Some(calls, {"sessions"}) \/ view.sessions = server.sessions
  /\ Matrix(calls, view, server.rows)

Plain(c) == Shaped(c) /\ c.op \notin {"save", "rows"}

LEMMA MatrixMore ==
  ASSUME NEW list, IsList(list), NEW c, Plain(c), NEW v, NEW stored, Matrix(list, v, stored)
  PROVE  Matrix(Append(list, c), v, stored)
<1> DEFINE longer == Append(list, c)
           n == Len(list)
<1>1. /\ DOMAIN list = 1 .. n /\ n \in Nat /\ DOMAIN longer = 1 .. n + 1 /\ longer[n + 1] = c
      /\ \A i \in DOMAIN list : longer[i] = list[i]
  BY ListGrows
<1>2. \A e, a, b : Linked(list, e, a, b) => Linked(longer, e, a, b)
  BY LinkedMore DEF Plain, Saves
<1> HIDE DEF longer, n
<1>3. \A i \in DOMAIN longer : i = n + 1 \/ i \in DOMAIN list
  BY <1>1
<1>4. \A i \in DOMAIN longer :
        /\ Proper(longer[i], v)
        /\ longer[i].op = "save" \/ Asks(longer[i]) => i \in DOMAIN list
  BY <1>1, <1>3 DEF Plain, Asks, Matrix, Proper
<1>5. Loads(longer, v)
  BY <1>1, <1>4 DEF Matrix, Loads
<1>6. QED BY <1>2, <1>4, <1>5 DEF Matrix, longer

\* What the answer of the oldest call leaves.
LEMMA MatrixLess ==
  ASSUME NEW list, IsList(list), list # <<>>, NEW v, NEW stored, Matrix(list, v, stored)
  PROVE  /\ \A i \in DOMAIN Tail(list) : Proper(Tail(list)[i], v)
         /\ Loads(Tail(list), v)
         /\ Asks(Head(list)) =>
              \A i \in DOMAIN Tail(list) : Tail(list)[i].op # "save" /\ ~Asks(Tail(list)[i])
         /\ Head(list).op # "save" => Matrix(Tail(list), v, stored)
         /\ Proper(Head(list), v)
<1> DEFINE rest == Tail(list)
           head == Head(list)
<1>1. /\ head = list[1] /\ 1 \in DOMAIN list
      /\ DOMAIN list = 1 .. Len(list) /\ Len(list) \in Nat
      /\ DOMAIN rest = 1 .. Len(list) - 1
      /\ \A i \in DOMAIN rest : i + 1 \in DOMAIN list /\ rest[i] = list[i + 1]
  BY CallTaken
<1>2. \A e, a, b : Linked(list, e, a, b) /\ ~Saves(head, e) => Linked(rest, e, a, b)
  BY LinkedLess
<1> HIDE DEF rest, head
<1>3. \A i, j \in DOMAIN rest : (i + 1 < j + 1 <=> i < j) /\ (i + 1 = j + 1 <=> i = j) /\ 1 < i + 1
  BY <1>1
<1>4. Proper(head, v) /\ \A i \in DOMAIN rest : Proper(rest[i], v)
  BY <1>1 DEF Matrix
<1>5. Loads(rest, v)
  <2> SUFFICES ASSUME NEW i \in DOMAIN rest, Asks(rest[i])
               PROVE  /\ v.rows = None
                      /\ \A j \in DOMAIN rest : (rest[j].op = "save" => j < i) /\ (Asks(rest[j]) => j = i)
    BY DEF Loads
  <2>1. /\ v.rows = None
        /\ \A j \in DOMAIN list : (list[j].op = "save" => j < i + 1) /\ (Asks(list[j]) => j = i + 1)
    BY <1>1 DEF Matrix, Loads
  <2>2. QED BY <1>1, <1>3, <2>1
<1>6. ASSUME Asks(head) PROVE \A i \in DOMAIN rest : rest[i].op # "save" /\ ~Asks(rest[i])
  <2>1. \A j \in DOMAIN list : (list[j].op = "save" => j < 1) /\ (Asks(list[j]) => j = 1)
    BY <1>1, <1>6 DEF Matrix, Loads
  <2>2. \A i \in DOMAIN rest : ~(i + 1 < 1) /\ i + 1 # 1
    BY <1>1
  <2>3. QED BY <1>1, <2>1, <2>2
<1>7. ASSUME head.op # "save" PROVE Matrix(rest, v, stored)
  <2>1. \A e : ~Saves(head, e)
    BY <1>7 DEF Saves
  <2>2. v.rows # None =>
       /\ v.rows \in [Events -> Channels]
       /\ \A e \in Events \ v.doubtful : Linked(rest, e, stored[e], v.rows[e])
    BY <1>2, <2>1 DEF Matrix
  <2>3. stored \in [Events -> Channels]
    BY DEF Matrix
  <2>4. QED BY <1>4, <1>5, <2>2, <2>3 DEF Matrix
<1>8. QED BY <1>4, <1>5, <1>6, <1>7 DEF rest, head

\* Only the matrix and the doubts about it are looked at.
LEMMA MatrixSame ==
  ASSUME NEW list, NEW v, NEW w, NEW stored, Matrix(list, v, stored), w.rows = v.rows, w.doubtful = v.doubtful
  PROVE  Matrix(list, w, stored)
  BY DEF Matrix, Proper, Loads

LEMMA NoMatrix == ProfileAllowed => None \notin [Events -> Channels]
  BY DEF ProfileAllowed, Profile!ProfileAssumption, Channels, Profile!Fields

LEMMA ProfileInit == Profile!Init => ProfileInv
<1> SUFFICES ASSUME Profile!Init PROVE ProfileInv
  OBVIOUS
<1> DEFINE get == Profile!Get("sessions")
<1>1. /\ ProfileRecord(view) /\ AccountRecord(server) /\ view.settings = server.settings
      /\ view.rows = None /\ calls = <<get>> /\ server.rows = Profile!Rows
  BY DEF Profile!Init, ProfileRecord, AccountRecord
<1>2. Profile!Rows \in [Events -> Channels]
  <2>1. /\ Profile!Row = [f \in DOMAIN Profile!Row |-> Profile!Row[f]]
        /\ DOMAIN Profile!Row = {"inApp", "email"}
        /\ Profile!Row.inApp = TRUE /\ Profile!Row.email = FALSE
    BY DEF Profile!Row
  <2>2. Profile!Row \in Channels
    BY <2>1 DEF Channels, Profile!Fields
  <2>3. QED BY <2>2 DEF Profile!Rows
<1>3. get.op = "sessions" /\ Shaped(get)
  BY DEF Profile!Get, Profile!Call, Shaped
<1> HIDE DEF get
<1>4. IsList(calls) /\ Some(calls, {"sessions"})
  BY <1>1, <1>3, OneCall
<1>5. \A i \in DOMAIN calls : calls[i] = get
  BY <1>1
<1>6. Matrix(calls, view, server.rows)
  BY <1>1, <1>2, <1>3, <1>5 DEF Matrix, Proper, Loads, Asks
<1>7. QED BY <1>1, <1>4, <1>6 DEF ProfileInv

LEMMA PlainCalls == \A op, of, from, to :
  op \notin {"save", "rows"} => Plain(Profile!Call(op, of, from, to))
  BY DEF Plain, Shaped, Profile!Call

\* What is typed, and calls that are no save of the matrix.
LEMMA ProfileQuiet ==
  ASSUME ProfileInv,
         \/ \E p \in {"weak", "strong"} : Profile!TypePassword(p)
         \/ \E v \in Values : Profile!TypePreference(v)
         \/ Profile!HandlePasswordSave \/ Profile!HandleSettingsSave
         \/ \E s \in Sessions : Profile!HandleRevokeSession(s)
  PROVE  ProfileInv'
<1>1. ProfileRecord(view) /\ IsList(calls) /\ Matrix(calls, view, server.rows)
  BY DEF ProfileInv
<1>2. /\ ProfileRecord(view') /\ view'.rows = view.rows /\ view'.doubtful = view.doubtful
      /\ view'.sessions = view.sessions /\ view'.settings = view.settings /\ UNCHANGED server
  BY <1>1 DEF ProfileRecord, Profile!TypePassword, Profile!TypePreference, Profile!HandlePasswordSave,
              Profile!HandleSettingsSave, Profile!HandleRevokeSession, Profile!Send
<1>3. \/ UNCHANGED calls
      \/ \E op \in {"password", "settings", "revoke"} : \E of, from, to :
           calls' = Append(calls, Profile!Call(op, of, from, to))
  <2>1. CASE \/ \E p \in {"weak", "strong"} : Profile!TypePassword(p)
             \/ \E v \in Values : Profile!TypePreference(v)
    BY <2>1 DEF Profile!TypePassword, Profile!TypePreference
  <2>2. CASE Profile!HandlePasswordSave
    <3>1. UNCHANGED calls \/ calls' = Append(calls, Profile!Call("password", None, None, None))
      BY <2>2 DEF Profile!HandlePasswordSave, Profile!Send
    <3>2. QED BY <3>1
  <2>3. CASE Profile!HandleSettingsSave
    <3>1. calls' = Append(calls, Profile!Call("settings", None, None, view.draft))
      BY <2>3 DEF Profile!HandleSettingsSave, Profile!Send
    <3>2. QED BY <3>1
  <2>4. ASSUME NEW s \in Sessions, Profile!HandleRevokeSession(s)
        PROVE  \E op \in {"password", "settings", "revoke"} : \E of, from, to :
                 calls' = Append(calls, Profile!Call(op, of, from, to))
    <3>1. calls' = Append(calls, Profile!Call("revoke", s, None, None))
      BY <2>4 DEF Profile!HandleRevokeSession, Profile!Send
    <3>2. QED BY <3>1
  <2>5. QED BY <2>1, <2>2, <2>3, <2>4
<1>4. ASSUME NEW op \in {"password", "settings", "revoke"}, NEW of, NEW from, NEW to,
             calls' = Append(calls, Profile!Call(op, of, from, to))
      PROVE  /\ IsList(calls') /\ (Some(calls, {"sessions"}) => Some(calls', {"sessions"}))
             /\ Matrix(calls', view, server.rows)
  <2> DEFINE c == Profile!Call(op, of, from, to)
  <2>1. Plain(c)
    BY PlainCalls
  <2> HIDE DEF c
  <2>2. QED BY <1>1, <1>4, <2>1, CallAdded, MatrixMore DEF c
<1>5. /\ IsList(calls') /\ (Some(calls, {"sessions"}) => Some(calls', {"sessions"}))
      /\ Matrix(calls', view, server.rows)
  BY <1>1, <1>3, <1>4
<1>6. Matrix(calls', view', server'.rows)
  BY <1>2, <1>5, MatrixSame
<1>7. QED BY <1>2, <1>5, <1>6 DEF ProfileInv, AccountRecord

\* The answers that are not about the matrix.
LEMMA ProfileAnswered ==
  ASSUME ProfileInv,
         \/ Profile!PasswordChanged \/ Profile!SettingsStored
         \/ Profile!SessionsAnswered \/ Profile!Revoked
  PROVE  ProfileInv'
<1>1. /\ ProfileRecord(view) /\ AccountRecord(server) /\ IsList(calls) /\ Matrix(calls, view, server.rows)
      /\ view.settings = server.settings
  BY DEF ProfileInv
<1>2. calls # <<>> /\ Head(calls).op \in {"password", "settings", "sessions", "revoke"}
  BY DEF Profile!PasswordChanged, Profile!SettingsStored, Profile!SessionsAnswered, Profile!Revoked
<1>3. /\ IsList(Tail(calls)) /\ Matrix(Tail(calls), view, server.rows)
      /\ Some(calls, {"sessions"}) => Head(calls).op = "sessions" \/ Some(Tail(calls), {"sessions"})
  BY <1>1, <1>2, CallTaken, MatrixLess
<1>4. /\ ProfileRecord(view') /\ AccountRecord(server') /\ view'.settings = server'.settings
      /\ view'.rows = view.rows /\ view'.doubtful = view.doubtful /\ server'.rows = server.rows
  BY <1>1 DEF ProfileRecord, AccountRecord, Profile!PasswordChanged, Profile!SettingsStored,
              Profile!SessionsAnswered, Profile!Revoked
<1>5. IsList(calls') /\ Matrix(calls', view, server.rows)
      /\ (Some(calls', {"sessions"}) \/ view'.sessions = server'.sessions)
  <2>1. CASE Profile!PasswordChanged \/ Profile!SettingsStored
    <3>1. /\ calls' = Tail(calls) /\ Head(calls).op # "sessions"
          /\ view'.sessions = view.sessions /\ server'.sessions = server.sessions
      BY <1>1, <2>1 DEF ProfileRecord, AccountRecord, Profile!PasswordChanged, Profile!SettingsStored
    <3>2. QED BY <1>3, <3>1 DEF ProfileInv
  <2>2. CASE Profile!SessionsAnswered
    <3>1. calls' = Tail(calls) /\ view'.sessions = server'.sessions
      BY <1>1, <2>2 DEF ProfileRecord, Profile!SessionsAnswered
    <3>2. QED BY <1>3, <3>1
  <2>3. CASE Profile!Revoked
    <3> DEFINE c == Profile!Get("sessions")
    <3>1. calls' = Append(Tail(calls), c)
      BY <2>3 DEF Profile!Revoked
    <3>2. Plain(c) /\ c.op \in {"sessions"}
      BY DEF Profile!Get, Profile!Call, Plain, Shaped
    <3> HIDE DEF c
    <3>3. QED BY <1>3, <3>1, <3>2, CallAdded, MatrixMore
  <2>4. QED BY <2>1, <2>2, <2>3
<1>6. Matrix(calls', view', server'.rows)
  BY <1>4, <1>5, MatrixSame
<1>7. QED BY <1>4, <1>5, <1>6 DEF ProfileInv

LEMMA RowsAnswered ==
  ASSUME ProfileAllowed, ProfileInv, Profile!RowsAnswered
  PROVE  ProfileInv'
<1>1. /\ ProfileRecord(view) /\ AccountRecord(server) /\ IsList(calls) /\ Matrix(calls, view, server.rows)
  BY DEF ProfileInv
<1>2. /\ calls # <<>> /\ Head(calls).op = "rows" /\ calls' = Tail(calls) /\ UNCHANGED server
      /\ view' = IF Head(calls).mine THEN [view EXCEPT !.rows = server.rows, !.doubtful = {}] ELSE view
  BY DEF Profile!RowsAnswered
<1>3. /\ IsList(calls') /\ Matrix(calls', view, server.rows)
      /\ Some(calls, {"sessions"}) => Some(calls', {"sessions"})
  BY <1>1, <1>2, CallTaken, MatrixLess
<1>4. CASE ~Head(calls).mine
  BY <1>2, <1>3, <1>4 DEF ProfileInv
<1>5. CASE Head(calls).mine
  <2>1. /\ ProfileRecord(view') /\ view'.rows = server.rows /\ view'.doubtful = {}
        /\ view'.sessions = view.sessions /\ view'.settings = view.settings
    BY <1>1, <1>2, <1>5 DEF ProfileRecord
  <2>2. \A i \in DOMAIN calls' : Proper(calls'[i], view) /\ calls'[i].op # "save" /\ ~Asks(calls'[i])
    BY <1>1, <1>2, <1>5, MatrixLess DEF Asks
  <2>3. server.rows \in [Events -> Channels] /\ view'.rows # None
    BY <1>1, <2>1, NoMatrix DEF Matrix
  <2>4. \A i \in DOMAIN calls' : Proper(calls'[i], view')
    BY <2>2 DEF Proper
  <2>5. \A e \in Events : Linked(calls', e, server.rows[e], view'.rows[e])
    BY <2>1, <2>2 DEF Linked, Saves
  <2>6. Matrix(calls', view', server'.rows)
    BY <1>2, <2>1, <2>2, <2>3, <2>4, <2>5 DEF Matrix, Loads
  <2>7. QED BY <1>2, <1>3, <2>1, <2>6 DEF ProfileInv
<1>6. QED BY <1>4, <1>5

LEMMA RowToggled ==
  ASSUME ProfileAllowed, ProfileInv, NEW e \in Events, NEW field \in Profile!Fields,
         Profile!HandleToggle(e, field)
  PROVE  ProfileInv'
<1> DEFINE to == [view.rows[e] EXCEPT ![field] = ~@]
           c == Profile!Call("save", e, view.rows[e], to)
<1>1. /\ ProfileRecord(view) /\ AccountRecord(server) /\ IsList(calls) /\ Matrix(calls, view, server.rows)
  BY DEF ProfileInv
<1>2. /\ view.rows # None /\ view' = [view EXCEPT !.rows[e] = to]
      /\ calls' = Append(calls, c) /\ UNCHANGED server
  BY DEF Profile!HandleToggle, Profile!Send
<1>3. view.rows \in [Events -> Channels] /\ view.rows[e] \in Channels
  BY <1>1, <1>2 DEF Matrix
<1>4. to \in Channels
  BY <1>3 DEF Channels
<1>5. c.op = "save" /\ c.of = e /\ c.from = view.rows[e] /\ c.to = to /\ c.mine /\ Shaped(c)
  BY DEF Profile!Call, Shaped
<1> HIDE DEF c, to
<1>6. /\ ProfileRecord(view') /\ view'.rows = [view.rows EXCEPT ![e] = to]
      /\ view'.doubtful = view.doubtful /\ view'.sessions = view.sessions /\ view'.settings = view.settings
  BY <1>1, <1>2 DEF ProfileRecord
<1>7. /\ view'.rows \in [Events -> Channels] /\ view'.rows # None /\ view'.rows[e] = to
      /\ \A d \in Events \ {e} : view'.rows[d] = view.rows[d]
  BY <1>3, <1>4, <1>6, NoMatrix
<1>8. /\ DOMAIN calls = 1 .. Len(calls) /\ Len(calls) \in Nat /\ DOMAIN calls' = 1 .. Len(calls) + 1
      /\ calls'[Len(calls) + 1] = c /\ \A i \in DOMAIN calls : calls'[i] = calls[i]
  BY <1>1, <1>2, ListGrows
<1>9. \A i \in DOMAIN calls' : i = Len(calls) + 1 \/ i \in DOMAIN calls
  BY <1>8
<1>10. \A i \in DOMAIN calls : Proper(calls[i], view')
  BY <1>1, <1>2, <1>7 DEF Matrix, Proper
<1>11. Proper(c, view') /\ ~Asks(c)
  BY <1>3, <1>4, <1>5, <1>7 DEF Proper, Asks
<1>12. \A i \in DOMAIN calls' : Proper(calls'[i], view') /\ ~Asks(calls'[i])
  BY <1>1, <1>2, <1>8, <1>9, <1>10, <1>11 DEF Matrix, Loads
<1>13. ASSUME NEW d \in Events \ view'.doubtful PROVE Linked(calls', d, server.rows[d], view'.rows[d])
  <2>1. Linked(calls, d, server.rows[d], view.rows[d])
    BY <1>1, <1>2, <1>6, <1>13 DEF Matrix
  <2>2. CASE d = e
    <3>1. Saves(c, d) /\ c.from = view.rows[d]
      BY <1>5, <2>2 DEF Saves
    <3>2. QED BY <1>1, <1>2, <1>5, <1>7, <2>1, <2>2, <3>1, LinkedMore
  <2>3. CASE d # e
    <3>1. ~Saves(c, d) /\ view'.rows[d] = view.rows[d]
      BY <1>5, <1>7, <2>3 DEF Saves
    <3>2. QED BY <1>1, <1>2, <2>1, <3>1, LinkedMore
  <2>4. QED BY <2>2, <2>3
<1>14. Matrix(calls', view', server'.rows)
  BY <1>1, <1>2, <1>7, <1>12, <1>13 DEF Matrix, Loads
<1>15. IsList(calls') /\ (Some(calls, {"sessions"}) => Some(calls', {"sessions"}))
  BY <1>1, <1>2, CallAdded
<1>16. QED BY <1>2, <1>6, <1>14, <1>15 DEF ProfileInv

LEMMA RowSaved ==
  ASSUME ProfileAllowed, ProfileInv, Profile!RowStored
  PROVE  ProfileInv'
<1> DEFINE c == Head(calls)
<1>1. /\ ProfileRecord(view) /\ AccountRecord(server) /\ IsList(calls) /\ Matrix(calls, view, server.rows)
  BY DEF ProfileInv
<1>2. /\ calls # <<>> /\ c.op = "save" /\ calls' = Tail(calls)
      /\ server' = [server EXCEPT !.rows[c.of] = c.to] /\ UNCHANGED view
  BY DEF Profile!RowStored
<1> HIDE DEF c
<1>3. /\ Proper(c, view) /\ Loads(calls', view) /\ \A i \in DOMAIN calls' : Proper(calls'[i], view)
  BY <1>1, <1>2, MatrixLess DEF c
<1>4. c.of \in Events /\ c.to \in Channels
  BY <1>2, <1>3 DEF Proper
<1>5. /\ AccountRecord(server') /\ server'.rows = [server.rows EXCEPT ![c.of] = c.to]
      /\ server'.sessions = server.sessions /\ server'.settings = server.settings
  BY <1>1, <1>2 DEF AccountRecord
<1>6. /\ server'.rows \in [Events -> Channels] /\ server'.rows[c.of] = c.to
      /\ \A d \in Events \ {c.of} : server'.rows[d] = server.rows[d]
  BY <1>1, <1>4, <1>5 DEF Matrix
<1>7. ASSUME view.rows # None, NEW d \in Events \ view.doubtful
      PROVE  Linked(calls', d, server'.rows[d], view.rows[d])
  <2>1. Linked(calls, d, server.rows[d], view.rows[d])
    BY <1>1, <1>7 DEF Matrix
  <2>2. Saves(c, d) <=> d = c.of
    BY <1>2 DEF Saves
  <2>3. QED BY <1>1, <1>2, <1>6, <2>1, <2>2, LinkedLess DEF c
<1>8. Matrix(calls', view', server'.rows)
  BY <1>1, <1>2, <1>3, <1>6, <1>7 DEF Matrix
<1>9. IsList(calls') /\ (Some(calls, {"sessions"}) => Some(calls', {"sessions"}))
  BY <1>1, <1>2, CallTaken DEF c
<1>10. QED BY <1>2, <1>5, <1>8, <1>9 DEF ProfileInv
LEMMA RowRefused ==
  ASSUME ProfileAllowed, ProfileInv, Profile!RowRefused
  PROVE  ProfileInv'
<1> DEFINE c == Head(calls)
<1>1. /\ ProfileRecord(view) /\ AccountRecord(server) /\ IsList(calls) /\ Matrix(calls, view, server.rows)
  BY DEF ProfileInv
<1>2. /\ calls # <<>> /\ c.op = "save" /\ calls' = Tail(calls) /\ UNCHANGED server
      /\ view' = IF ~c.mine THEN view
                 ELSE [view EXCEPT !.rows[c.of] = c.from,
                                   !.doubtful = IF Profile!Overlapped THEN @ \cup {c.of} ELSE @]
  BY DEF Profile!RowRefused
<1>3. /\ c = calls[1] /\ Len(calls) \in Nat /\ DOMAIN calls' = 1 .. Len(calls) - 1
      /\ \A i \in DOMAIN calls' : i + 1 \in DOMAIN calls /\ calls'[i] = calls[i + 1]
  BY <1>1, <1>2, CallTaken
<1>4. Profile!Overlapped <=> \E k \in 2 .. Len(calls) : Saves(calls[k], c.of)
  BY DEF Profile!Overlapped, Saves
<1> HIDE DEF c
<1>5. /\ Proper(c, view) /\ Loads(calls', view) /\ \A i \in DOMAIN calls' : Proper(calls'[i], view)
  BY <1>1, <1>2, MatrixLess DEF c
<1>6. c.of \in Events /\ c.from \in Channels /\ (c.mine <=> view.rows # None)
  BY <1>2, <1>5 DEF Proper
<1>7. IsList(calls') /\ (Some(calls, {"sessions"}) => Some(calls', {"sessions"}))
  BY <1>1, <1>2, CallTaken DEF c
<1>8. CASE ~c.mine
  <2>1. view' = view /\ view.rows = None
    BY <1>2, <1>6, <1>8
  <2>2. Matrix(calls', view', server'.rows)
    BY <1>1, <1>2, <1>5, <2>1 DEF Matrix
  <2>3. QED BY <1>2, <1>7, <2>1, <2>2 DEF ProfileInv
<1>9. CASE c.mine
  <2>1. /\ ProfileRecord(view') /\ view'.rows = [view.rows EXCEPT ![c.of] = c.from]
        /\ view'.doubtful = IF Profile!Overlapped THEN view.doubtful \cup {c.of} ELSE view.doubtful
        /\ view'.sessions = view.sessions /\ view'.settings = view.settings
    BY <1>1, <1>2, <1>9 DEF ProfileRecord
  <2>2. view.rows # None /\ view.rows \in [Events -> Channels]
    BY <1>1, <1>6, <1>9 DEF Matrix
  <2>3. /\ view'.rows \in [Events -> Channels] /\ view'.rows # None /\ view'.rows[c.of] = c.from
        /\ \A d \in Events \ {c.of} : view'.rows[d] = view.rows[d]
    BY <1>6, <2>1, <2>2, NoMatrix
  <2>4. \A i \in DOMAIN calls' : Proper(calls'[i], view')
    BY <1>5, <2>2, <2>3 DEF Proper
  <2>5. \A i \in DOMAIN calls' : ~Asks(calls'[i])
    BY <1>5, <2>2 DEF Loads
  <2>6. ASSUME NEW d \in Events \ view'.doubtful PROVE Linked(calls', d, server.rows[d], view'.rows[d])
    <3>1. d \in Events \ view.doubtful
      BY <2>1, <2>6
    <3>2. Linked(calls, d, server.rows[d], view.rows[d])
      BY <1>1, <2>2, <3>1 DEF Matrix
    <3>3. CASE d # c.of
      <4>1. ~Saves(c, d) /\ view'.rows[d] = view.rows[d]
        BY <2>3, <3>1, <3>3 DEF Saves
      <4>2. QED BY <1>1, <1>2, <3>2, <4>1, LinkedLess DEF c
    <3>4. CASE d = c.of
      <4>1. Saves(c, d) /\ ~Profile!Overlapped
        BY <1>2, <2>1, <2>6, <3>4 DEF Saves
      <4>2. c.from = server.rows[d] /\ Linked(calls', d, c.to, view.rows[d])
        BY <1>1, <1>2, <3>2, <4>1, LinkedLess DEF c
      <4>3. \A i \in DOMAIN calls' : i + 1 \in 2 .. Len(calls)
        BY <1>3
      <4>4. \A i \in DOMAIN calls' : ~Saves(calls'[i], d)
        BY <1>3, <1>4, <3>4, <4>1, <4>3
      <4>5. QED BY <2>3, <3>4, <4>2, <4>4 DEF Linked
    <3>5. QED BY <3>3, <3>4
  <2>7. Matrix(calls', view', server'.rows)
    BY <1>1, <1>2, <2>3, <2>4, <2>5, <2>6 DEF Matrix, Loads
  <2>8. QED BY <1>2, <1>7, <2>1, <2>7 DEF ProfileInv
<1>10. QED BY <1>8, <1>9

\* Another tab takes the matrix off the page: its calls find no listener any more.
LEMMA RouteChanged ==
  ASSUME ProfileInv, NEW t \in Profile!Tabs, Profile!OnRouteChange(t)
  PROVE  ProfileInv'
<1> DEFINE kept == [k \in DOMAIN calls |->
                      IF calls[k].op \in {"rows", "save"} THEN [calls[k] EXCEPT !.mine = FALSE] ELSE calls[k]]
           get == Profile!Get("rows")
<1>1. /\ ProfileRecord(view) /\ AccountRecord(server) /\ IsList(calls) /\ Matrix(calls, view, server.rows)
  BY DEF ProfileInv
<1>2. /\ view' = [view EXCEPT !.tab = t, !.rows = None] /\ UNCHANGED server
      /\ calls' = IF t = "notifications" THEN Append(kept, get) ELSE kept
  BY DEF Profile!OnRouteChange
<1>3. /\ ProfileRecord(view') /\ view'.rows = None
      /\ view'.sessions = view.sessions /\ view'.settings = view.settings
  BY <1>1, <1>2 DEF ProfileRecord
<1>4. /\ DOMAIN calls = 1 .. Len(calls) /\ Len(calls) \in Nat /\ DOMAIN kept = DOMAIN calls
  BY <1>1, ListGrows
<1>5. \A i \in DOMAIN kept :
        /\ Shaped(kept[i]) /\ kept[i].op = calls[i].op /\ kept[i].of = calls[i].of
        /\ kept[i].from = calls[i].from /\ kept[i].to = calls[i].to
        /\ kept[i].op \in {"rows", "save"} => kept[i].mine = FALSE
  <2> SUFFICES ASSUME NEW i \in DOMAIN calls
               PROVE  /\ Shaped(kept[i]) /\ kept[i].op = calls[i].op /\ kept[i].of = calls[i].of
                      /\ kept[i].from = calls[i].from /\ kept[i].to = calls[i].to
                      /\ kept[i].op \in {"rows", "save"} => kept[i].mine = FALSE
    OBVIOUS
  <2>1. Shaped(calls[i])
    BY <1>1 DEF Matrix, Proper
  <2>2. kept[i] = IF calls[i].op \in {"rows", "save"} THEN [calls[i] EXCEPT !.mine = FALSE] ELSE calls[i]
    OBVIOUS
  <2> HIDE DEF kept
  <2>3. QED BY <2>1, <2>2 DEF Shaped
<1>6. IsList(kept)
  <2> DEFINE elements == {kept[i] : i \in 1 .. Len(calls)}
  <2>1. kept \in [1 .. Len(calls) -> elements]
    BY <1>4
  <2> HIDE DEF elements, kept
  <2>2. kept \in Seq(elements)
    BY <1>4, <2>1
  <2>3. QED BY <2>2 DEF IsList
<1> HIDE DEF kept
<1>7. /\ get.op = "rows" /\ get.mine /\ Shaped(get)
  BY DEF Profile!Get, Profile!Call, Shaped
<1> HIDE DEF get
<1>8. /\ Some(kept, {"sessions"}) <=> Some(calls, {"sessions"})
      /\ \A i \in DOMAIN kept : ~Asks(kept[i])
  BY <1>4, <1>5 DEF Some, Asks
<1>9. \A i \in DOMAIN kept : Proper(kept[i], view')
  BY <1>1, <1>3, <1>4, <1>5 DEF Matrix, Proper
<1>10. server'.rows \in [Events -> Channels]
  BY <1>1, <1>2 DEF Matrix
<1>11. CASE t # "notifications"
  <2>1. Matrix(calls', view', server'.rows)
    BY <1>2, <1>3, <1>8, <1>9, <1>10, <1>11 DEF Matrix, Loads
  <2>2. QED BY <1>1, <1>2, <1>3, <1>6, <1>8, <1>11, <2>1 DEF ProfileInv
<1>12. CASE t = "notifications"
  <2>1. /\ DOMAIN calls' = 1 .. Len(kept) + 1 /\ DOMAIN kept = 1 .. Len(kept) /\ Len(kept) \in Nat
        /\ calls'[Len(kept) + 1] = get /\ \A i \in DOMAIN kept : calls'[i] = kept[i]
    BY <1>2, <1>6, <1>12, ListGrows
  <2>2. IsList(calls') /\ (Some(calls', {"sessions"}) <=> Some(kept, {"sessions"}))
    BY <1>2, <1>6, <1>7, <1>12, CallAdded
  <2>3. \A i \in DOMAIN calls' : i = Len(kept) + 1 \/ (i \in DOMAIN kept /\ i < Len(kept) + 1)
    BY <2>1
  <2>4. \A i \in DOMAIN calls' : Proper(calls'[i], view')
    BY <1>7, <1>9, <2>1, <2>3 DEF Proper
  <2>5. Loads(calls', view')
    BY <1>3, <1>7, <1>8, <2>1, <2>3 DEF Loads
  <2>6. Matrix(calls', view', server'.rows)
    BY <1>3, <1>10, <2>4, <2>5 DEF Matrix
  <2>7. QED BY <1>1, <1>2, <1>3, <1>8, <2>2, <2>6 DEF ProfileInv
<1>13. QED BY <1>11, <1>12

LEMMA ProfileKeeps == ProfileAllowed /\ ProfileInv /\ [Profile!Next]_<<view, calls, server>> => ProfileInv'
<1> SUFFICES ASSUME ProfileAllowed, ProfileInv, [Profile!Next]_<<view, calls, server>> PROVE ProfileInv'
  OBVIOUS
<1>1. CASE UNCHANGED <<view, calls, server>>
  <2>1. view' = view /\ calls' = calls /\ server' = server
    BY <1>1
  <2>2. QED BY <2>1 DEF ProfileInv
<1>2. CASE Profile!Next
  BY <1>2, RouteChanged, ProfileQuiet, ProfileAnswered, RowsAnswered, RowToggled, RowSaved, RowRefused
     DEF Profile!Next
<1>3. QED BY <1>1, <1>2

LEMMA ProfileSettles == ProfileInv => Profile!ShownIsStored
<1> SUFFICES ASSUME ProfileInv, calls = <<>>
             PROVE  /\ view.settings = server.settings /\ view.sessions = server.sessions
                    /\ view.rows # None => \A e \in Events \ view.doubtful : view.rows[e] = server.rows[e]
  BY DEF Profile!ShownIsStored
<1>1. ~Some(calls, {"sessions"}) /\ DOMAIN calls = {}
  BY NoCall
<1>2. view.rows # None => \A e \in Events \ view.doubtful : Linked(calls, e, server.rows[e], view.rows[e])
  BY DEF ProfileInv, Matrix
<1>3. QED BY <1>1, <1>2 DEF ProfileInv, Linked

-----------------------------------------------------------------------------
(* What is shown is what is stored *)

\* Once every call is answered a screen shows what is stored, however many calls were under way
\* and in whatever order the page was left, filtered, paged and edited meanwhile: the library,
\* the demonstration copilot, the board, the forms, the integrations, the stock, the readings of
\* a machine and the profile.
THEOREM StoredIsShown == Spec => []ShownIsStored
<1> DEFINE Inv == /\ route = "documents" => LibraryInv
                  /\ route = "copilot-demo" => DemoInv
                  /\ route = "board" => BoardInv
                  /\ route = "admin-forms" => FormsInv
                  /\ route = "integrations" => KeysInv
                  /\ route = "parts" => StockInv
                  /\ route = "condition" => ConditionInv
                  /\ route = "settings" => ProfileInv
<1>1. FormsAllowed /\ LibraryAllowed /\ ProfileAllowed
  BY ConsoleAssumption DEF FormsAllowed, LibraryAllowed, ProfileAllowed
<1>2. Init => Inv
  BY <1>1, LibraryMounted, LibraryInit, DemoMounted, DemoInit, BoardMounted, BoardInit,
     FormsMounted, FormsInit, KeysMounted, KeysInit, StockMounted, StockInit,
     ConditionMounted, ConditionInit, ProfileMounted, ProfileInit
<1>3. Inv /\ [Next]_vars => Inv'
  BY <1>1, RouteStays, LibraryStep, LibraryKeeps, DemoStep, DemoKeeps, BoardStep, BoardKeeps,
     FormsStep, FormsKeep, KeysStep, KeysKeep, StockStep, StockKeeps,
     ConditionStep, ConditionKeeps, ProfileStep, ProfileKeeps
<1>4. Inv => ShownIsStored
  <2>1. DemoInv => Demo!StoredIsShown
    BY DEF DemoInv
  <2>2. BoardInv => Board!BoardIsStored
    BY DEF BoardInv, Board!BoardIsStored
  <2>3. FormsInv => Forms!ListsSettle
    BY DEF FormsInv, FormsTyped, ListsFollow, Has, Forms!ListsSettle
  <2>4. KeysInv => Keys!PanelSettles
    BY DEF KeysInv, KeysFetched, Has, Keys!PanelSettles
  <2>5. StockInv => Stock!StockShown
    BY NoCall DEF StockInv, Stock!StockShown
  <2>6. ConditionInv => Condition!NewReadingDrawn
    BY NoCall DEF ConditionInv, Condition!NewReadingDrawn
  <2>7. QED BY <2>1, <2>2, <2>3, <2>4, <2>5, <2>6, LibrarySettles, ProfileSettles DEF ShownIsStored
<1>5. QED BY <1>2, <1>3, <1>4, PTL DEF Spec
=============================================================================
