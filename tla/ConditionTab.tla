---------------------------- MODULE ConditionTab ----------------------------
(***************************************************************************)
(* The condition tab of an asset's page (Equipment360.tsx,                 *)
(* EquipmentConditionTab) over the built-in server, which answers in the   *)
(* order of the calls (client.ts).  A series is what the chart can show:   *)
(* a meter over a time range.  The tab stays mounted when the address      *)
(* names another asset.                                                    *)
(***************************************************************************)
EXTENDS Integers, Sequences

CONSTANTS
  Assets,
  Series,        \* what can be charted
  MaxReadings,   \* bound: readings recorded in a series
  MaxCalls,      \* bound: calls in flight
  None

ConditionAssumption == {MaxReadings, MaxCalls} \subseteq Nat /\ None \notin Series \cup Assets

VARIABLES
  view,          \* the address and the state hooks
  calls,         \* calls in flight, oldest first
  server         \* how many readings each series of each asset has

vars == <<view, calls, server>>

Query(asset, series) == [asset |-> asset, series |-> series]
Queries == {Query(a, s) : a \in Assets, s \in Series}

\* fetchData asks for the meters first, then for the readings; both are of the render it
\* was created in.
Fetch(q) == [op |-> "meters", query |-> q, to |-> None]

\* drawer: the series a reading is typed for; chart: whose readings are drawn, and how many.
Init ==
  /\ \E a \in Assets, s \in Series :
       /\ view = [at |-> Query(a, s), loading |-> TRUE, drawer |-> None, submitting |-> FALSE,
                  chart |-> None]
       /\ calls = <<Fetch(Query(a, s))>>
  /\ server = [q \in Queries |-> 0]

\* The effect: another asset or another series is fetched.
Show(q) ==
  /\ q # view.at /\ Len(calls) < MaxCalls
  /\ view' = [view EXCEPT !.at = q, !.loading = TRUE]
  /\ calls' = Append(calls, Fetch(q))
  /\ UNCHANGED server

SelectSeries(s) == Show(Query(view.at.asset, s))
OpenAsset(a) == Show(Query(a, view.at.series))

\* For people with the permission to record readings.
OpenDrawer ==
  /\ view.drawer = None
  /\ view' = [view EXCEPT !.drawer = view.at.series]
  /\ UNCHANGED <<calls, server>>

PickMeter(s) ==
  /\ view.drawer # None
  /\ view' = [view EXCEPT !.drawer = s]
  /\ UNCHANGED <<calls, server>>

CloseDrawer ==
  /\ view.drawer # None
  /\ view' = [view EXCEPT !.drawer = None]
  /\ UNCHANGED <<calls, server>>

SubmitReading ==
  /\ view.drawer # None /\ ~view.submitting
  /\ Len(calls) < MaxCalls
  /\ server[Query(view.at.asset, view.drawer)] < MaxReadings
  /\ view' = [view EXCEPT !.submitting = TRUE]
  /\ calls' = Append(calls, [op |-> "post", query |-> view.at, to |-> view.drawer])
  /\ UNCHANGED server

Stores(call) == server' = [server EXCEPT ![Query(call.query.asset, call.to)] = @ + 1]

\* The refresh asks again for the series that was selected at the click.
ReadingStored ==
  /\ calls # <<>> /\ Head(calls).op = "post"
  /\ Stores(Head(calls))
  /\ view' = [view EXCEPT !.drawer = None, !.submitting = FALSE, !.loading = TRUE]
  /\ calls' = Append(Tail(calls), Fetch(Head(calls).query))

MetersAnswered ==
  /\ calls # <<>> /\ Head(calls).op = "meters"
  /\ calls' = Append(Tail(calls), [op |-> "readings", query |-> Head(calls).query, to |-> None])
  /\ UNCHANGED <<view, server>>

\* No answer looks at what is selected by now.
ReadingsAnswered ==
  /\ calls # <<>> /\ Head(calls).op = "readings"
  /\ LET query == Head(calls).query
     IN  view' = [view EXCEPT !.chart = [of |-> query, readings |-> server[query]], !.loading = FALSE]
  /\ calls' = Tail(calls)
  /\ UNCHANGED server

Next ==
  \/ \E s \in Series : SelectSeries(s) \/ PickMeter(s)
  \/ \E a \in Assets : OpenAsset(a)
  \/ OpenDrawer \/ CloseDrawer \/ SubmitReading
  \/ ReadingStored \/ MetersAnswered \/ ReadingsAnswered

Spec == Init /\ [][Next]_vars

-----------------------------------------------------------------------------
TypeOK ==
  /\ view.at \in Queries /\ view.drawer \in Series \cup {None}
  /\ {view.loading, view.submitting} \subseteq BOOLEAN
  /\ view.chart # None => view.chart.of \in Queries
  /\ server \in [Queries -> 0..MaxReadings]

\* With every call answered the chart has every reading its series has: a reading recorded
\* while fetches were under way is not missing from the line that is drawn.
NewReadingDrawn == calls = <<>> => view.chart.readings = server[view.chart.of]
=============================================================================
