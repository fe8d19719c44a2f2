----------------------------- MODULE CopilotDemo -----------------------------
(***************************************************************************)
(* The expert copilot with the built-in server (ExpertCopilot.tsx in mock  *)
(* mode): sessions are kept in localStorage, an answer is played into its  *)
(* bubble by an interval, and leaving the screen ends what the intervals   *)
(* can do.                                                                 *)
(***************************************************************************)
EXTENDS Integers, Sequences, Lists

CONSTANTS
  Seeds,         \* number of sessions seeded when nothing is stored (3 in the code)
  MaxSends,      \* bound: questions asked
  MaxSessions    \* bound: sessions ever made

DemoAssumption == MaxSends \in Nat /\ MaxSessions \in Nat /\ Seeds \in 1 .. MaxSessions

VARIABLES
  view,          \* the state hooks
  calls,         \* intervals that play an answer: [id, bubble] in a set
  server         \* localStorage: the sessions as they were saved last

vars == <<view, calls, server>>

\* A session: its questions and bubbles, a bubble as [bubble, isStreaming].
Empty(id) == [id |-> id, pinned |-> FALSE, questions |-> 0, bubbles |-> <<>>]
Seeded == [i \in 1 .. Seeds |-> Empty(i)]

Init ==
  /\ view = [mounted |-> TRUE, sessions |-> Seeded, active |-> 1, asked |-> 0, made |-> Seeds]
  /\ calls = {}
  /\ server = Seeded

SessionIds == {view.sessions[i].id : i \in DOMAIN view.sessions}

\* saveSessions
Save(sessions) == server' = sessions

HandleSelectSession(id) ==
  /\ view.mounted /\ id \in SessionIds
  /\ view' = [view EXCEPT !.active = id]
  /\ UNCHANGED <<calls, server>>

HandleCreateNewSession ==
  /\ view.mounted /\ view.made < MaxSessions
  /\ LET sessions == <<Empty(view.made + 1)>> \o view.sessions
     IN /\ view' = [view EXCEPT !.sessions = sessions, !.active = view.made + 1, !.made = @ + 1]
        /\ Save(sessions)
  /\ UNCHANGED calls

\* Ids are unique, so filtering takes out one session; the last is replaced by a default one.
HandleDeleteSession(id) ==
  /\ view.mounted /\ id \in SessionIds
  /\ LET left == TakeOut(view.sessions, CHOOSE i \in DOMAIN view.sessions : view.sessions[i].id = id)
     IN IF left # <<>>
        THEN /\ view' = [view EXCEPT !.sessions = left, !.active = IF @ = id THEN left[1].id ELSE @]
             /\ Save(left)
        ELSE /\ view.made < MaxSessions
             /\ view' = [view EXCEPT !.sessions = <<Empty(view.made + 1)>>,
                                     !.active = view.made + 1, !.made = @ + 1]
             /\ Save(<<Empty(view.made + 1)>>)
  /\ UNCHANGED calls

HandleTogglePinSession(id) ==
  /\ view.mounted /\ id \in SessionIds
  /\ LET sessions == [i \in DOMAIN view.sessions |->
                        IF view.sessions[i].id = id THEN [view.sessions[i] EXCEPT !.pinned = ~@]
                        ELSE view.sessions[i]]
     IN view' = [view EXCEPT !.sessions = sessions] /\ Save(sessions)
  /\ UNCHANGED calls

\* The sessions with the question, and with the placeholder of its answer after it.
Asked ==
  [i \in DOMAIN view.sessions |->
     IF view.sessions[i].id # view.active THEN view.sessions[i]
     ELSE [view.sessions[i] EXCEPT !.questions = @ + 1]]
Waiting(sessions, bubble) ==
  [i \in DOMAIN sessions |->
     IF sessions[i].id # view.active THEN sessions[i]
     ELSE [sessions[i] EXCEPT !.bubbles = Append(@, bubble)]]

\* handleSend: the question is saved, the placeholder of the answer is only shown.
HandleSend ==
  /\ view.mounted /\ view.active \in SessionIds
  /\ view.asked < MaxSends
  /\ LET k == view.asked + 1
     IN /\ Save(Asked)
        /\ view' = [view EXCEPT !.sessions = Waiting(Asked, [bubble |-> k, isStreaming |-> TRUE]),
                                !.asked = k]
        /\ calls' = calls \cup {[id |-> view.active, bubble |-> k]}

Finished(c) ==
  [i \in DOMAIN view.sessions |->
     IF view.sessions[i].id # c.id THEN view.sessions[i]
     ELSE [view.sessions[i] EXCEPT !.bubbles =
             [k \in DOMAIN @ |-> IF @[k].bubble = c.bubble THEN [@[k] EXCEPT !.isStreaming = FALSE]
                                 ELSE @[k]]]]

\* The interval has played its last word.
AnswerPlayed(c) ==
  /\ c \in calls
  /\ calls' = calls \ {c}
  /\ view' = [view EXCEPT !.sessions = Finished(c)]
  /\ Save(Finished(c))

\* The intervals go on, but what they set on a screen that is gone has no effect.
Leave ==
  /\ view.mounted
  /\ view' = [view EXCEPT !.mounted = FALSE, !.sessions = <<>>]
  /\ calls' = {}
  /\ UNCHANGED server

\* The screen opens with what is stored, without an interval for what was streaming.
Return ==
  /\ ~view.mounted
  /\ view' = [view EXCEPT !.mounted = TRUE, !.sessions = server, !.active = server[1].id]
  /\ UNCHANGED <<calls, server>>

Next ==
  \/ \E id \in SessionIds : \/ HandleSelectSession(id) \/ HandleDeleteSession(id)
                            \/ HandleTogglePinSession(id)
  \/ HandleCreateNewSession \/ HandleSend \/ Leave \/ Return
  \/ \E c \in calls : AnswerPlayed(c)

Spec == Init /\ [][Next]_vars

-----------------------------------------------------------------------------
TypeOK ==
  /\ view.active \in 1 .. MaxSessions
  /\ \A c \in calls : c.id \in 1 .. MaxSessions /\ c.bubble \in 1 .. MaxSends
  /\ \A i \in DOMAIN server : server[i].questions \in 0 .. MaxSends

\* When no answer is being played, what is stored is what is on the screen: no question, answer or
\* session would be different after a reload.
StoredIsShown == (view.mounted /\ calls = {}) => server = view.sessions
=============================================================================
