--------------------------- MODULE KnowledgeGraph ---------------------------
(***************************************************************************)
(* The graph explorer over the backend                                     *)
(* (components/views/knowledge-graph/KnowledgeGraphExplorer.tsx, live.ts): *)
(* a canvas of nodes and edges that several kinds of calls replace or add  *)
(* to.  Answers come in any order, and any call may fail.                  *)
(***************************************************************************)
EXTENDS Integers, FiniteSets

CONSTANTS
  Nodes,         \* nodes of the stored graph
  Links,         \* its edges: a set of pairs
  Found,         \* query -> nodes the search finds
  Hideable,      \* nodes whose type the filter can hide
  Blank,         \* the empty query
  MaxCalls,      \* bound: calls in flight
  None

GraphAssumption ==
  /\ Links \subseteq Nodes \X Nodes /\ Hideable \subseteq Nodes
  /\ Blank \notin DOMAIN Found /\ \A q \in DOMAIN Found : Found[q] \subseteq Nodes
  /\ MaxCalls \in Nat /\ None \notin Nodes

VARIABLES
  view,          \* the state hooks
  calls,         \* calls in flight
  server         \* nothing changes on the server

vars == <<view, calls, server>>

Queries == {Blank} \cup DOMAIN Found

\* nodeCluster: a node, its neighbours, and an edge from it to each of them.
Neighbours(n) == {m \in Nodes : <<n, m>> \in Links \/ <<m, n>> \in Links}
Cluster(n) == [nodes |-> {n} \cup Neighbours(n), edges |-> {<<n, m>> : m \in Neighbours(n)}]

\* seedCanvas: the first cluster that is found, else what the search finds, without edges.
SeedGraphs == {Cluster(n) : n \in Nodes} \cup {[nodes |-> Nodes, edges |-> {}], [nodes |-> {}, edges |-> {}]}

\* search: the query of the debounce or of the call that was not cancelled.
Init ==
  /\ view = [nodes |-> {}, edges |-> {}, selected |-> None, hidden |-> {}, loading |-> TRUE,
             query |-> Blank, pending |-> FALSE, suggestions |-> {}]
  /\ calls = {[op |-> "seed", of |-> None]}
  /\ server = None

Call(op, of) ==
  /\ Cardinality(calls) < MaxCalls
  /\ calls' = calls \cup {[op |-> op, of |-> of]}
  /\ UNCHANGED server

Answered(c) == calls' = calls \ {c} /\ UNCHANGED server
Hooks(v) == view' = v
Local(v) == Hooks(v) /\ UNCHANGED <<calls, server>>

-----------------------------------------------------------------------------
(* What a person does *)

\* checkDeepLink, for the address #knowledge-graph/node/n
CheckDeepLink(n) ==
  /\ Hooks([view EXCEPT !.loading = TRUE])
  /\ Call("link", n)

\* A node whose type is hidden is not drawn, nor are its edges.
Drawn(n) == n \in view.nodes \ view.hidden

OnNodeClick(n) == Drawn(n) /\ Local([view EXCEPT !.selected = n])

CloseDrawer == view.selected # None /\ Local([view EXCEPT !.selected = None])

\* By a double click, or from the drawer of the selected node.
ExpandNeighbors(n) ==
  /\ Drawn(n) \/ n = view.selected
  /\ Hooks([view EXCEPT !.loading = TRUE])
  /\ Call("expand", n)

ToggleNodeType(n) ==
  Local([view EXCEPT !.hidden = IF n \in @ THEN @ \ {n} ELSE @ \cup {n}])

HandleResetCanvas ==
  /\ Hooks([view EXCEPT !.selected = None, !.loading = TRUE])
  /\ Call("seed", None)

\* Mutant: the effect does not cancel.
Type_NotCancelled(q) ==
  /\ q # view.query
  /\ Local([view EXCEPT !.query = q, !.pending = q # Blank,
                        !.suggestions = IF q = Blank THEN {} ELSE @])

\* The effect of the query: what was asked for the last one is cancelled.
Type(q) ==
  /\ q # view.query
  /\ view' = [view EXCEPT !.query = q, !.pending = q # Blank,
                          !.suggestions = IF q = Blank THEN {} ELSE @]
  /\ calls' = {c \in calls : c.op # "search"}
  /\ UNCHANGED server

Debounced ==
  /\ view.pending
  /\ Hooks([view EXCEPT !.pending = FALSE])
  /\ Call("search", view.query)

\* Choosing a suggestion empties the query, which is an effect of its own.
HandleSelectSuggestion(n) ==
  /\ view.query # Blank /\ n \in view.suggestions
  /\ Cardinality(calls) < MaxCalls
  /\ view' = [view EXCEPT !.selected = n, !.query = Blank, !.pending = FALSE,
                          !.suggestions = {}, !.loading = TRUE]
  /\ calls' = {c \in calls : c.op # "search"} \cup {[op |-> "choose", of |-> n]}
  /\ UNCHANGED server

-----------------------------------------------------------------------------
(* Answers *)

Searched(c) ==
  /\ c.op = "search"
  /\ \E found \in {Found[c.of], {}} : Hooks([view EXCEPT !.suggestions = found])
  /\ Answered(c)

\* The canvas is replaced.
Seeded(c) ==
  /\ c.op = "seed"
  /\ \E seed \in SeedGraphs :
       Hooks([view EXCEPT !.nodes = seed.nodes, !.edges = seed.edges, !.loading = FALSE])
  /\ Answered(c)

Linked(c) ==
  /\ c.op = "link"
  /\ Hooks([view EXCEPT !.nodes = Cluster(c.of).nodes, !.edges = Cluster(c.of).edges,
                        !.selected = c.of, !.loading = FALSE])
  /\ Answered(c)

\* Mutant: the cluster of a node that is on the canvas is taken to be there too.
Merged_EdgesFirst(c, selected) ==
  LET cluster == Cluster(c.of)
      new == cluster.edges \ view.edges
  IN  [view EXCEPT !.nodes = IF c.of \in @ THEN @ ELSE @ \cup cluster.nodes,
                   !.edges = @ \cup new, !.selected = selected, !.loading = FALSE]

\* A cluster is merged into the canvas as it is when the answer comes.
Merged(c, selected) ==
  LET cluster == Cluster(c.of)
      nodes == view.nodes \cup cluster.nodes
      new == {e \in cluster.edges : {e[1], e[2]} \subseteq nodes}
  IN  [view EXCEPT !.nodes = nodes, !.edges = @ \cup new,
                   !.selected = selected, !.loading = FALSE]

Expanded(c) == c.op = "expand" /\ Hooks(Merged(c, view.selected)) /\ Answered(c)
Chosen(c) == c.op = "choose" /\ Hooks(Merged(c, c.of)) /\ Answered(c)

\* Mutant: only an answer ends the loading.
Fails_NoFinally(c) ==
  /\ c.op # "search"
  /\ UNCHANGED view
  /\ Answered(c)

\* A call fails: the canvas stays.
Fails(c) ==
  /\ c.op # "search"
  /\ Hooks([view EXCEPT !.loading = FALSE])
  /\ Answered(c)

Next ==
  \/ \E n \in Nodes :
       \/ CheckDeepLink(n) \/ OnNodeClick(n) \/ ExpandNeighbors(n) \/ HandleSelectSuggestion(n)
  \/ \E n \in Hideable : ToggleNodeType(n)
  \/ \E q \in Queries : Type(q)
  \/ CloseDrawer \/ HandleResetCanvas \/ Debounced
  \/ \E c \in calls :
       Searched(c) \/ Seeded(c) \/ Linked(c) \/ Expanded(c) \/ Chosen(c) \/ Fails(c)

Spec == Init /\ [][Next]_vars

-----------------------------------------------------------------------------
TypeOK ==
  /\ view.nodes \subseteq Nodes /\ view.edges \subseteq Nodes \X Nodes
  /\ view.selected \in Nodes \cup {None} /\ view.query \in Queries
  /\ view.suggestions \subseteq Nodes /\ {view.loading, view.pending} \subseteq BOOLEAN

\* Every edge of the canvas has both of its ends there, in whichever order clusters, deep links
\* and resets are answered.
EdgesHaveEnds == \A e \in view.edges : {e[1], e[2]} \subseteq view.nodes

\* The canvas does not stay under its spinner: while it loads a call is under way, though one
\* flag stands for all of them and any of them may fail.
LoadingEnds == view.loading => \E c \in calls : c.op # "search"

\* Once the typing has stopped the suggestions are of the query in the box: an answer for an
\* older one, or one that comes after a choice, is dropped.
SuggestionsAreOfTheQuery ==
  calls = {} /\ ~view.pending
    => view.suggestions \subseteq (IF view.query = Blank THEN {} ELSE Found[view.query])
=============================================================================
