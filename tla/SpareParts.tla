----------------------------- MODULE SpareParts -----------------------------
(***************************************************************************)
(* The spare parts tab (SparePartsModule.tsx) over the built-in server,    *)
(* which answers in the order of the calls (client.ts): the list, the      *)
(* editor of one row's count, and the form that adds a part.               *)
(***************************************************************************)
EXTENDS Integers, Sequences, FiniteSets

CONSTANTS
  Parts,         \* parts of the seed
  NewParts,      \* ids that parts can be added with: a bound
  Counts,        \* counts on hand
  MaxCalls,      \* bound: calls in flight
  None

PartsAssumption ==
  /\ None \notin Counts \cup Parts \cup NewParts /\ Parts \cap NewParts = {}
  /\ MaxCalls \in Nat \ {0} /\ Counts # {}

VARIABLES
  view,          \* the state hooks
  calls,         \* calls in flight, oldest first
  server         \* the stored counts, None for a part that is not there

vars == <<view, calls, server>>

Init ==
  /\ server = [p \in Parts \cup NewParts |-> IF p \in Parts THEN CHOOSE c \in Counts : TRUE ELSE None]
  /\ view = [rows |-> [p \in Parts \cup NewParts |-> None], loading |-> TRUE,
             editing |-> None, count |-> None, adding |-> FALSE, low |-> FALSE]
  /\ calls = <<[op |-> "list"]>>

\* The rows the filter leaves; the threshold is the smallest count.
Shown ==
  {p \in DOMAIN view.rows :
     /\ view.rows[p] # None /\ ~view.loading
     /\ view.low => \A c \in Counts : view.rows[p] <= c}

ToggleLowStock ==
  /\ view' = [view EXCEPT !.low = ~@]
  /\ UNCHANGED <<calls, server>>

\* The pencil of another row moves the editor there.
EditCount(p) ==
  /\ p \in Shown /\ view.editing # p
  /\ view' = [view EXCEPT !.editing = p, !.count = view.rows[p]]
  /\ UNCHANGED <<calls, server>>

TypeCount(c) ==
  /\ view.editing \in Shown
  /\ view' = [view EXCEPT !.count = c]
  /\ UNCHANGED <<calls, server>>

CancelEdit ==
  /\ view.editing \in Shown
  /\ view' = [view EXCEPT !.editing = None]
  /\ UNCHANGED <<calls, server>>

\* The editor stays until the answer.
HandleUpdateOnHand ==
  /\ view.editing \in Shown /\ Len(calls) < MaxCalls
  /\ calls' = Append(calls, [op |-> "put", part |-> view.editing, count |-> view.count])
  /\ UNCHANGED <<view, server>>

\* The row takes the count of the click, and the editor that is open by now is closed.
Updated ==
  /\ calls # <<>> /\ Head(calls).op = "put"
  /\ server' = [server EXCEPT ![Head(calls).part] = Head(calls).count]
  /\ view' = [view EXCEPT !.rows[Head(calls).part] = Head(calls).count, !.editing = None]
  /\ calls' = Tail(calls)

ToggleAddForm ==
  /\ view' = [view EXCEPT !.adding = ~@]
  /\ UNCHANGED <<calls, server>>

Adding == Len(SelectSeq(calls, LAMBDA c : c.op = "post"))

\* The form stays until the answer: a second click adds a second part.
HandleAddPart(c) ==
  /\ view.adding /\ Len(calls) < MaxCalls
  /\ Adding < Cardinality({p \in NewParts : server[p] = None})
  /\ calls' = Append(calls, [op |-> "post", count |-> c])
  /\ UNCHANGED <<view, server>>

PartAdded(p) ==
  /\ calls # <<>> /\ Head(calls).op = "post"
  /\ p \in NewParts /\ server[p] = None
  /\ server' = [server EXCEPT ![p] = Head(calls).count]
  /\ view' = [view EXCEPT !.rows[p] = Head(calls).count, !.adding = FALSE]
  /\ calls' = Tail(calls)

PartsLoaded ==
  /\ calls # <<>> /\ Head(calls).op = "list"
  /\ view' = [view EXCEPT !.rows = server, !.loading = FALSE]
  /\ calls' = Tail(calls)
  /\ UNCHANGED server

Next ==
  \/ ToggleLowStock \/ CancelEdit \/ HandleUpdateOnHand \/ Updated
  \/ \E p \in Parts \cup NewParts : EditCount(p) \/ PartAdded(p)
  \/ \E c \in Counts : TypeCount(c) \/ HandleAddPart(c)
  \/ ToggleAddForm \/ PartsLoaded

Spec == Init /\ [][Next]_vars

-----------------------------------------------------------------------------
TypeOK ==
  /\ view.rows \in [Parts \cup NewParts -> Counts \cup {None}]
  /\ view.editing \in Parts \cup NewParts \cup {None}
  /\ {view.loading, view.adding, view.low} \subseteq BOOLEAN
  /\ server \in [Parts \cup NewParts -> Counts \cup {None}]
  /\ Len(calls) <= MaxCalls

\* With every call answered the table shows the stored counts, though the list is never
\* fetched again: each answer is applied to the row of its own click, also when the editor
\* moved to another row, or was typed in, while it was under way.
StockShown == calls = <<>> => view.rows = server
=============================================================================
