--------------------------- MODULE CommandPalette ---------------------------
(***************************************************************************)
(* The command palette of the application shell (AppShell.tsx): a search   *)
(* box whose text is debounced, suggestions fetched for the debounced      *)
(* text, the recent searches, and a highlighted item that the arrow keys,  *)
(* the mouse and Enter work on.  Answers come in any order, and none is    *)
(* dropped: what is shown may be of an older text than the box.            *)
(***************************************************************************)
EXTENDS Integers, Sequences, Lists

CONSTANTS
  Terms,         \* texts a person types, and names of items
  Suggest,       \* Terms \cup {Blank} -> Seq(Terms): what the server suggests
  Blank,         \* the empty search box
  MaxRecents,    \* recent searches kept (5 in the code)
  MaxCalls       \* bound: suggestion calls in flight

PaletteAssumption ==
  /\ Blank \notin Terms
  /\ Suggest \in [Terms \cup {Blank} -> Seq(Terms)]
  /\ MaxRecents \in Nat /\ MaxCalls \in Nat

VARIABLES
  view,          \* the state hooks of the palette
  calls,         \* texts of the suggestion calls in flight
  server         \* what the recent searches in localStorage hold

vars == <<view, calls, server>>

Inputs == Terms \cup {Blank}
NoResults == <<>>

\* results: the texts answered last, as a sequence of at most one text.
Init ==
  /\ view = [open |-> FALSE, search |-> Blank, debounced |-> Blank, results |-> NoResults,
             isLoading |-> FALSE, activeIndex |-> 0]
  /\ calls = <<>>
  /\ server = <<>>

\* getFlattenedItems: recent searches under an empty box, then what was suggested last.
Recents == IF view.search = Blank THEN server ELSE <<>>
Suggested == IF view.results = NoResults THEN <<>> ELSE Suggest[view.results[1]]
Flattened == Recents \o Suggested

\* Mutant: a search that is remembered already is remembered again.
Saved_Twice(term) ==
  LET all == <<term>> \o server
  IN SubSeq(all, 1, IF Len(all) < MaxRecents THEN Len(all) ELSE MaxRecents)

\* saveRecentSearch: what is remembered is distinct, so filtering a term takes out its one
\* occurrence.
Saved(term) ==
  LET all == <<term>> \o Without(server, term)
  IN SubSeq(all, 1, IF Len(all) < MaxRecents THEN Len(all) ELSE MaxRecents)

Toggle ==
  /\ Len(calls) < MaxCalls
  /\ IF view.open
     THEN view' = [view EXCEPT !.open = FALSE] /\ UNCHANGED calls
     ELSE /\ view' = [view EXCEPT !.open = TRUE, !.isLoading = TRUE]
          /\ calls' = Append(calls, view.debounced)
  /\ UNCHANGED server

Type(text) ==
  /\ view.open
  /\ view' = [view EXCEPT !.search = text]
  /\ UNCHANGED <<calls, server>>

\* 300 ms after the last change of the text.
Debounce ==
  /\ view.search # view.debounced
  /\ Len(calls) < MaxCalls
  /\ IF view.open
     THEN /\ view' = [view EXCEPT !.debounced = view.search, !.isLoading = TRUE]
          /\ calls' = Append(calls, view.search)
     ELSE /\ view' = [view EXCEPT !.debounced = view.search]
          /\ UNCHANGED calls
  /\ UNCHANGED server

\* The answer replaces what is shown, whatever is in the box by now.
Answered(i) ==
  /\ calls' = TakeOut(calls, i)
  /\ view' = [view EXCEPT !.results = <<calls[i]>>, !.activeIndex = 0, !.isLoading = FALSE]
  /\ UNCHANGED server

Failed(i) ==
  /\ calls' = TakeOut(calls, i)
  /\ view' = [view EXCEPT !.isLoading = FALSE]
  /\ UNCHANGED server

Wrap == IF Len(Flattened) > 0 THEN Len(Flattened) ELSE 1

ArrowDown ==
  /\ view.open
  /\ view' = [view EXCEPT !.activeIndex = (@ + 1) % Wrap]
  /\ UNCHANGED <<calls, server>>

\* In JavaScript the remainder of a negative number is negative; only 0 of 0 reaches it.
ArrowUp ==
  /\ view.open
  /\ view' = [view EXCEPT !.activeIndex = (@ + Len(Flattened) - 1) % Wrap]
  /\ UNCHANGED <<calls, server>>

\* handleSelectSuggestion and handleSearchFreeText: remember, close, empty the box.
Choose(term) ==
  /\ server' = Saved(term)
  /\ view' = [view EXCEPT !.open = FALSE, !.search = Blank]
  /\ UNCHANGED calls

Enter ==
  /\ view.open
  /\ IF view.activeIndex < Len(Flattened)
     THEN Choose(Flattened[view.activeIndex + 1])
     ELSE view.search # Blank /\ Choose(view.search)

\* The buttons of the list: hovering one highlights it, clicking it chooses it.
Hover(i) ==
  /\ view.open
  /\ view' = [view EXCEPT !.activeIndex = i - 1]
  /\ UNCHANGED <<calls, server>>

Click(i) == view.open /\ Choose(Flattened[i])

ClearRecentSearches ==
  /\ view.open
  /\ Recents # <<>>
  /\ server' = <<>>
  /\ UNCHANGED <<view, calls>>

Next ==
  \/ Toggle \/ Debounce
  \/ \E i \in DOMAIN calls : Answered(i) \/ Failed(i)
  \/ ArrowDown \/ ArrowUp \/ Enter \/ ClearRecentSearches
  \/ \E text \in Inputs : Type(text)
  \/ \E i \in DOMAIN Flattened : Hover(i) \/ Click(i)

Spec == Init /\ [][Next]_vars

-----------------------------------------------------------------------------
\* Recent searches are distinct and never more than the palette keeps.
TypeOK ==
  /\ view.search \in Inputs /\ view.debounced \in Inputs
  /\ view.activeIndex \in Nat
  /\ calls \in Seq(Inputs)
  /\ Len(server) <= MaxRecents
  /\ \A i, j \in DOMAIN server : server[i] = server[j] => i = j

\* A palette that is loading has a call under way whose answer or failure ends it.
LoadingEnds == view.isLoading => calls # <<>>
=============================================================================
