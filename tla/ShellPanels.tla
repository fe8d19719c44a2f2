---------------------------- MODULE ShellPanels ----------------------------
(***************************************************************************)
(* What the shell of the application (AppShell.tsx) opens over a screen:   *)
(* the guided tour, the changelog drawer and the legal pages.  Each is     *)
(* filled by a call to the server.  The built-in server answers every call *)
(* after the same delay, so answers come in the order of calls.            *)
(***************************************************************************)
EXTENDS Integers, Sequences

CONSTANTS
  Steps,         \* number of steps the server's tour has
  Targets,       \* steps whose element is on the screen
  Pages,         \* the legal pages
  MaxCalls,      \* bound: calls in flight
  None

PanelsAssumption ==
  /\ Steps \in Nat /\ Targets \subseteq 0 .. Steps - 1 /\ MaxCalls \in Nat
  /\ None \notin Pages /\ Pages \cap {"changelog", "tour"} = {}

VARIABLES
  view,          \* the state hooks
  calls,         \* calls in flight, oldest first
  server         \* localStorage: the tour has been completed

vars == <<view, calls, server>>

\* shown: the step the spotlight is on.  lit: steps whose element has the highlight class.
Init ==
  /\ view = [help |-> FALSE, changelog |-> FALSE, loadingChangelog |-> FALSE,
             page |-> None, pageLoading |-> FALSE,
             tourActive |-> FALSE, tourSteps |-> 0, idx |-> 0, shown |-> None, lit |-> {}]
  /\ calls = <<>>
  /\ server = FALSE

CanCall == Len(calls) < MaxCalls

ToggleHelp ==
  /\ view' = [view EXCEPT !.help = ~@]
  /\ UNCHANGED <<calls, server>>

\* handleOpenChangelog, from the help menu.
OpenChangelog ==
  /\ view.help /\ CanCall
  /\ view' = [view EXCEPT !.help = FALSE, !.changelog = TRUE, !.loadingChangelog = TRUE]
  /\ calls' = Append(calls, "changelog")
  /\ UNCHANGED server

CloseChangelog ==
  /\ view.changelog
  /\ view' = [view EXCEPT !.changelog = FALSE]
  /\ UNCHANGED <<calls, server>>

ChangelogAnswered(ok) ==
  /\ calls # <<>>
  /\ Head(calls) = "changelog"
  /\ calls' = Tail(calls)
  /\ view' = [view EXCEPT !.loadingChangelog = FALSE]
  /\ UNCHANGED server

\* A legal page of the user menu; the content is fetched each time another page is shown.
OpenPage(page) ==
  /\ view.page = None /\ CanCall
  /\ view' = [view EXCEPT !.page = page, !.pageLoading = TRUE]
  /\ calls' = Append(calls, page)
  /\ UNCHANGED server

ClosePage ==
  /\ view.page # None
  /\ view' = [view EXCEPT !.page = None]
  /\ UNCHANGED <<calls, server>>

\* The answer of any page ends the loading of the one that is open.
PageAnswered ==
  /\ calls # <<>>
  /\ Head(calls) \in Pages
  /\ calls' = Tail(calls)
  /\ view' = [view EXCEPT !.pageLoading = FALSE]
  /\ UNCHANGED server

\* handleRestartTour, from the help menu or another screen's event.
RestartTour ==
  /\ CanCall
  /\ view' = [view EXCEPT !.help = FALSE]
  /\ calls' = Append(calls, "tour")
  /\ UNCHANGED server

TourAnswered(ok) ==
  /\ calls # <<>>
  /\ Head(calls) = "tour"
  /\ calls' = Tail(calls)
  /\ view' = IF ok THEN [view EXCEPT !.tourSteps = Steps, !.idx = 0, !.tourActive = TRUE] ELSE view
  /\ UNCHANGED server

\* 250 ms after a step is shown its element is highlighted.  What the timer's callback
\* returns is not the effect's clean-up, so nothing takes the highlight away.
Spotlight ==
  /\ view.tourActive /\ view.idx < view.tourSteps
  /\ view' = IF view.idx \in Targets
             THEN [view EXCEPT !.shown = view.idx, !.lit = @ \cup {view.idx}]
             ELSE [view EXCEPT !.shown = None]
  /\ UNCHANGED <<calls, server>>

\* The tooltip's buttons.
PreviousStep ==
  /\ view.tourActive /\ view.tourSteps > 0
  /\ view.idx # 0
  /\ view' = [view EXCEPT !.idx = @ - 1]
  /\ UNCHANGED <<calls, server>>

NextStep ==
  /\ view.tourActive /\ view.tourSteps > 0
  /\ view.idx < view.tourSteps - 1
  /\ view' = [view EXCEPT !.idx = @ + 1]
  /\ UNCHANGED <<calls, server>>

SkipTour ==
  /\ view.tourActive /\ view.tourSteps > 0
  /\ view' = [view EXCEPT !.tourActive = FALSE, !.shown = None]
  /\ UNCHANGED <<calls, server>>

FinishTour ==
  /\ view.tourActive /\ view.tourSteps > 0
  /\ view.idx >= view.tourSteps - 1
  /\ view' = [view EXCEPT !.tourActive = FALSE, !.shown = None]
  /\ server' = TRUE
  /\ UNCHANGED calls

Next ==
  \/ ToggleHelp \/ OpenChangelog \/ CloseChangelog \/ ClosePage \/ PageAnswered \/ RestartTour
  \/ Spotlight \/ PreviousStep \/ NextStep \/ SkipTour \/ FinishTour
  \/ \E page \in Pages : OpenPage(page)
  \/ \E ok \in BOOLEAN : ChangelogAnswered(ok) \/ TourAnswered(ok)

Spec == Init /\ [][Next]_vars

-----------------------------------------------------------------------------
TypeOK ==
  /\ view.page \in Pages \cup {None}
  /\ view.shown \in Targets \cup {None} /\ view.lit \subseteq Targets
  /\ calls \in Seq(Pages \cup {"changelog", "tour"})
  /\ server \in BOOLEAN

\* An active tour is on one of its steps, so its tooltip, the only way to leave it, is
\* drawn, however the tour was left and restarted before.
TourOnAStep == view.tourActive => (view.tourSteps = 0 \/ view.idx \in 0 .. view.tourSteps - 1)

\* The drawer and the page stop loading when their last call ends, however it ends.
SpinnersStop == calls = <<>> => ~view.loadingChangelog /\ ~view.pageLoading
=============================================================================
