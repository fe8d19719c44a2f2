--------------------------- MODULE DocumentDetail ---------------------------
(***************************************************************************)
(* One document (DocumentsLibrary.tsx, DocumentDetailsExplorer): the       *)
(* document named by the address, its pages, the review of its extracted   *)
(* entities and its comments.  Following a link to another document keeps  *)
(* the component and all of its state hooks.  Answers come in any order,   *)
(* and none is dropped: the document shown may be that of an older address.*)
(***************************************************************************)
EXTENDS Integers, Sequences, Lists

CONSTANTS
  Docs,          \* ids an address may name
  Existing,      \* those the server has
  Entities,      \* entity ids; documents without details of their own share them
  LastPage,      \* 3 in the code
  MaxTimers,     \* bound: highlights that have not timed out
  MaxCalls,      \* bound: calls in flight
  None

DetailAssumption ==
  /\ Existing \subseteq Docs /\ LastPage \in Nat \ {0} /\ {MaxTimers, MaxCalls} \subseteq Nat
  /\ None \notin Docs \cup Entities

VARIABLES
  view,          \* the state hooks
  calls,         \* documents asked for
  server         \* the documents stored

vars == <<view, calls, server>>

Unreviewed == [e \in Entities |-> "unverified"]

\* doc, details: the document that doc and details were taken from.
Init ==
  /\ \E d \in Docs :
       /\ view = [docId |-> d, doc |-> None, isLoading |-> TRUE, error |-> FALSE, page |-> 1,
                  review |-> Unreviewed, editing |-> None, comments |-> 0,
                  highlight |-> None, timers |-> 0]
       /\ calls = <<d>>
  /\ server = Existing

\* fetchDocumentDetail
Fetch(d) ==
  /\ Len(calls) < MaxCalls
  /\ calls' = Append(calls, d)
  /\ UNCHANGED server

\* The related documents are links; an address may also be typed.
Linked(d) == d # view.docId

\* The effect: another document is fetched when the address changes.
Open(d) ==
  /\ Linked(d)
  /\ view' = [view EXCEPT !.docId = d, !.isLoading = TRUE, !.error = FALSE]
  /\ Fetch(d)

\* What the screen draws: the document, not the spinner and not the error.
Drawn == ~view.isLoading /\ ~view.error /\ view.doc # None

\* The error's retry button, and handleReprocess, which only fetches again.
FetchAgain ==
  /\ ~view.isLoading
  /\ view' = [view EXCEPT !.isLoading = TRUE, !.error = FALSE]
  /\ Fetch(view.docId)

\* The answer brings the details as they were shipped: reviews and comments start again.
Answered(i) ==
  /\ calls' = TakeOut(calls, i)
  /\ LET d == calls[i]
     IN view' = IF d \in server
                THEN [view EXCEPT !.doc = d, !.review = Unreviewed, !.comments = 0,
                                  !.isLoading = FALSE]
                ELSE [view EXCEPT !.error = TRUE, !.isLoading = FALSE]
  /\ UNCHANGED server

PreviousPage ==
  /\ Drawn /\ view.page # 1
  /\ view' = [view EXCEPT !.page = @ - 1]
  /\ UNCHANGED <<calls, server>>

NextPage ==
  /\ Drawn /\ view.page # LastPage
  /\ view' = [view EXCEPT !.page = @ + 1]
  /\ UNCHANGED <<calls, server>>

\* The rail of thumbnails.
ShowPage(page) ==
  /\ Drawn
  /\ view' = [view EXCEPT !.page = page]
  /\ UNCHANGED <<calls, server>>

\* jumpToPageAndHighlight, from the table and from the overlay of the page.
JumpToPageAndHighlight(page, e) ==
  /\ Drawn /\ view.timers < MaxTimers
  /\ view' = [view EXCEPT !.page = page, !.highlight = e, !.timers = @ + 1]
  /\ UNCHANGED <<calls, server>>

\* After 3 s, and for whichever entity is highlighted by then.
HighlightTimeout ==
  /\ view.timers > 0
  /\ view' = [view EXCEPT !.timers = @ - 1, !.highlight = None]
  /\ UNCHANGED <<calls, server>>

\* The buttons of a row are only there while its entity is unverified.
Unverified(e) == Drawn /\ view.review[e] = "unverified"

HandleEntityStatusChange(e, status) ==
  /\ Unverified(e) /\ view.editing # e
  /\ view' = [view EXCEPT !.review[e] = status]
  /\ UNCHANGED <<calls, server>>

StartEditingEntity(e) ==
  /\ Unverified(e)
  /\ view' = [view EXCEPT !.editing = e]
  /\ UNCHANGED <<calls, server>>

SaveEntityCorrection(e) ==
  /\ Drawn /\ view.editing = e
  /\ view' = [view EXCEPT !.review[e] = "corrected", !.editing = None]
  /\ UNCHANGED <<calls, server>>

HandleAddComment ==
  /\ Drawn /\ view.comments = 0
  /\ view' = [view EXCEPT !.comments = 1]
  /\ UNCHANGED <<calls, server>>

Next ==
  \/ \E d \in Docs : Open(d)
  \/ \E i \in DOMAIN calls : Answered(i)
  \/ FetchAgain \/ PreviousPage \/ NextPage \/ HighlightTimeout \/ HandleAddComment
  \/ \E page \in 1 .. LastPage : ShowPage(page)
  \/ \E e \in Entities :
       \/ \E page \in 1 .. LastPage : JumpToPageAndHighlight(page, e)
       \/ \E status \in {"confirmed", "rejected"} : HandleEntityStatusChange(e, status)
       \/ StartEditingEntity(e) \/ SaveEntityCorrection(e)

Spec == Init /\ [][Next]_vars

-----------------------------------------------------------------------------
TypeOK ==
  /\ view.docId \in Docs /\ view.doc \in Existing \cup {None} /\ view.page \in 1 .. LastPage
  /\ view.editing \in Entities \cup {None} /\ view.highlight \in Entities \cup {None}
  /\ view.review \in [Entities -> {"unverified", "confirmed", "rejected", "corrected"}]

\* The spinner has a call under way whose answer takes it away, however fast addresses followed
\* one another.
LoadingEnds == view.isLoading => calls # <<>>
=============================================================================
