--------------------------- MODULE DocumentLibrary ---------------------------
(***************************************************************************)
(* The document library (DocumentsLibrary.tsx, table and grid) over the    *)
(* documents the built-in server keeps (client.ts): a filtered, sorted and *)
(* paged list, a selection, and the bulk actions on it.  A handler that    *)
(* has waited for its call goes on with the filters and the page of the    *)
(* render it was created in.  The built-in server answers every call after *)
(* the same delay, so answers come in the order of calls.                  *)
(***************************************************************************)
EXTENDS Integers, Sequences, FiniteSetsExt

CONSTANTS
  Docs,          \* ids of documents: a finite set of naturals, in the order of the sort key
  PageSize,
  Filters,       \* the filters people use: pipeline statuses
  MaxCalls       \* bound: calls in flight

LibraryAssumption ==
  Docs \subseteq Nat /\ IsFiniteSet(Docs) /\ PageSize \in Nat \ {0} /\ MaxCalls \in Nat
  /\ Filters \subseteq {"completed", "pending"}

VARIABLES
  view,          \* the state hooks
  calls,         \* calls in flight, oldest first
  server         \* the stored documents: id -> status

vars == <<view, calls, server>>

\* The filters are conditions that must all hold; the pipeline status is the one kept.
NoFilter == ""
Matches(status, filter) == filter \in {NoFilter, status}

\* Upwards or downwards by the sort key.
Sorted(list, asc) ==
  \A i, j \in DOMAIN list : i < j => IF asc THEN list[i] < list[j] ELSE list[i] > list[j]

\* GET /documents: filter, sort, then the page.
Listing(filter, asc) ==
  LET found == {d \in DOMAIN server : Matches(server[d], filter)}
  IN CHOOSE list \in [1 .. Cardinality(found) -> found] : Sorted(list, asc)
PageOf(list, page) ==
  LET rows == SubSeq(list, (page - 1) * PageSize + 1,
                     IF page * PageSize < Len(list) THEN page * PageSize ELSE Len(list))
  IN [i \in DOMAIN rows |-> [id |-> rows[i], status |-> server[rows[i]]]]

TotalPages == Max({1, (view.total + PageSize - 1) \div PageSize})

\* What a call of fetchDocuments asks for.
Query(v) == [op |-> "list", filter |-> v.filter, page |-> v.page, asc |-> v.asc]

\* rows: the documents on the screen.
Init ==
  /\ server = [d \in Docs |-> "completed"]
  /\ view = [filter |-> NoFilter, page |-> 1, asc |-> FALSE, rows |-> <<>>, total |-> 0,
             isLoading |-> TRUE, error |-> FALSE, selected |-> {}, confirm |-> FALSE]
  /\ calls = <<Query(view)>>

\* fetchDocuments raises the loading flag and forgets the last error.
Fetching(v) == [v EXCEPT !.isLoading = TRUE, !.error = FALSE]

\* The effect: the list is fetched again when filter, page or sort order change.
Show(v) ==
  IF Query(v) = Query(view)
  THEN view' = v /\ UNCHANGED calls
  ELSE /\ Len(calls) < MaxCalls
       /\ view' = Fetching(v)
       /\ calls' = Append(calls, Query(v))

SetFilter(filter) ==
  /\ Show([view EXCEPT !.filter = filter, !.page = 1])
  /\ UNCHANGED server

ClearFilters ==
  /\ Show([view EXCEPT !.filter = NoFilter, !.page = 1])
  /\ UNCHANGED server

HandleSort ==
  /\ Show([view EXCEPT !.asc = ~@, !.page = 1])
  /\ UNCHANGED server

PreviousPage ==
  /\ view.page # 1
  /\ Show([view EXCEPT !.page = @ - 1])
  /\ UNCHANGED server

\* Not offered on the last page; past it, it leads back.
NextPage ==
  /\ view.page # TotalPages
  /\ Show([view EXCEPT !.page = Min({TotalPages, @ + 1})])
  /\ UNCHANGED server

\* Rows are only drawn when nothing is loading and the last fetch succeeded.
Drawn == ~view.isLoading /\ ~view.error /\ view.rows # <<>>
Shown == {view.rows[i].id : i \in DOMAIN view.rows}

Retry ==
  /\ view.error /\ ~view.isLoading
  /\ Len(calls) < MaxCalls
  /\ view' = Fetching(view)
  /\ calls' = Append(calls, Query(view))
  /\ UNCHANGED server

ToggleSelectRow(d) ==
  /\ Drawn /\ d \in Shown
  /\ view' = [view EXCEPT !.selected = IF d \in @ THEN @ \ {d} ELSE @ \cup {d}]
  /\ UNCHANGED <<calls, server>>

\* Only the numbers are compared.
ToggleSelectAll ==
  /\ Drawn
  /\ view' = [view EXCEPT !.selected = IF Cardinality(@) = Len(view.rows) THEN {} ELSE Shown]
  /\ UNCHANGED <<calls, server>>

\* Export and the clear button of the bulk bar both end the selection.
EndSelection ==
  /\ view.selected # {}
  /\ view' = [view EXCEPT !.selected = {}]
  /\ UNCHANGED <<calls, server>>

AskToDelete ==
  /\ view.selected # {}
  /\ view' = [view EXCEPT !.confirm = TRUE]
  /\ UNCHANGED <<calls, server>>

CancelDelete ==
  /\ view.confirm
  /\ view' = [view EXCEPT !.confirm = FALSE]
  /\ UNCHANGED <<calls, server>>

\* handleBulkReprocess, handleBulkAddTags and handleBulkDelete.  Nothing disables the
\* buttons while the call is in flight; the dialog stays when the selection ends under it.
Bulk(op) ==
  /\ IF op = "delete" THEN view.confirm ELSE view.selected # {}
  /\ Len(calls) < MaxCalls
  /\ calls' = Append(calls, [op |-> op, ids |-> view.selected, then |-> Query(view)])
  /\ UNCHANGED <<view, server>>

\* POST /documents/bulk-action; the tags a document carries are not kept.
Applied(call) ==
  CASE call.op = "delete" -> [d \in DOMAIN server \ call.ids |-> server[d]]
    [] call.op = "reprocess" ->
         [d \in DOMAIN server |-> IF d \in call.ids THEN "pending" ELSE server[d]]
    [] OTHER -> server

\* The handler goes on: the selection of by now is dropped, the list its render asked for is
\* fetched, and after that, by the effect, the first page when a deletion has changed the page.
BulkAnswered ==
  /\ calls # <<>> /\ Head(calls).op # "list"
  /\ server' = Applied(Head(calls))
  /\ LET call == Head(calls)
         v == [view EXCEPT !.selected = {}, !.confirm = @ /\ call.op # "delete",
                           !.page = IF call.op = "delete" THEN 1 ELSE @]
     IN /\ view' = Fetching(v)
        /\ calls' = Tail(calls) \o <<call.then>>
                      \o (IF v.page = view.page THEN <<>> ELSE <<Query(v)>>)

BulkFails ==
  /\ calls # <<>> /\ Head(calls).op # "list"
  /\ calls' = Tail(calls)
  /\ UNCHANGED <<view, server>>

Listed ==
  /\ calls # <<>> /\ Head(calls).op = "list"
  /\ calls' = Tail(calls)
  /\ LET asked == Head(calls)
         list == Listing(asked.filter, asked.asc)
     IN view' = [view EXCEPT !.rows = PageOf(list, asked.page), !.total = Len(list), !.isLoading = FALSE]
  /\ UNCHANGED server

ListFails ==
  /\ calls # <<>> /\ Head(calls).op = "list"
  /\ calls' = Tail(calls)
  /\ view' = [view EXCEPT !.error = TRUE, !.isLoading = FALSE]
  /\ UNCHANGED server

Next ==
  \/ \E filter \in Filters : SetFilter(filter)
  \/ ClearFilters \/ HandleSort \/ PreviousPage \/ NextPage \/ Retry
  \/ \E d \in Docs : ToggleSelectRow(d)
  \/ ToggleSelectAll \/ EndSelection \/ AskToDelete \/ CancelDelete
  \/ \E op \in {"reprocess", "add-tags", "delete"} : Bulk(op)
  \/ BulkAnswered \/ BulkFails \/ Listed \/ ListFails

Spec == Init /\ [][Next]_vars

-----------------------------------------------------------------------------
TypeOK ==
  /\ view.filter \in Filters \cup {NoFilter} /\ view.page \in Nat \ {0} /\ view.selected \subseteq Docs
  /\ DOMAIN server \subseteq Docs

\* Once every call is answered the rows on the screen are documents that exist, as they are
\* stored: a bulk action leaves neither a deleted document nor an old status behind.
NoGhostRows ==
  (calls = <<>> /\ ~view.error)
    => \A i \in DOMAIN view.rows :
         /\ view.rows[i].id \in DOMAIN server
         /\ view.rows[i].status = server[view.rows[i].id]
=============================================================================
