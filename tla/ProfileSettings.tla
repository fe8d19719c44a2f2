-------------------------- MODULE ProfileSettings --------------------------
(***************************************************************************)
(* The profile (components/views/profile/ProfileSettings.tsx): the forms   *)
(* of the person, the password and the preferences, the list of sessions,  *)
(* and the matrix of notification channels, whose rows are saved as they   *)
(* are clicked and taken back when the save is refused.  The built-in      *)
(* server answers every call after the same delay, so answers come in the  *)
(* order of calls.                                                         *)
(***************************************************************************)
EXTENDS Integers, Sequences, FiniteSets

CONSTANTS
  Events,        \* rows of the matrix
  Sessions,      \* sessions of the account
  Values,        \* what a preference can be set to
  MaxCalls,      \* bound: calls in flight
  None

Tabs == {"profile", "settings", "notifications"}
Fields == {"inApp", "email"}

\* None is no matrix either: it stands for one that is not loaded.
ProfileAssumption ==
  /\ MaxCalls \in Nat /\ Values # {} /\ None \notin Values \cup Events \cup Sessions
  /\ None \notin [Events -> [Fields -> BOOLEAN]]

VARIABLES
  view,          \* the hooks of the page and of the matrix, and the settings store
  calls,         \* calls in flight, oldest first
  server         \* preferences, sessions and rows that are stored

vars == <<view, calls, server>>

Initially == CHOOSE v \in Values : TRUE
Row == [inApp |-> TRUE, email |-> FALSE]
Rows == [e \in Events |-> Row]

\* A save carries the row as it was and as it is to be.
Call(op, of, from, to) == [op |-> op, of |-> of, from |-> from, to |-> to, mine |-> TRUE]
Get(op) == Call(op, None, None, None)

Send(call) ==
  /\ Len(calls) < MaxCalls
  /\ calls' = Append(calls, call)
  /\ UNCHANGED server

\* rows is None until the matrix is loaded.  doubtful: rows of which a save was refused while
\* another save of the row was under way.
Init ==
  /\ view = [tab |-> "profile", sessions |-> {}, password |-> "blank", error |-> FALSE,
             settings |-> Initially, draft |-> Initially, rows |-> None, doubtful |-> {}]
  /\ calls = <<Get("sessions")>>
  /\ server = [settings |-> Initially, sessions |-> Sessions, rows |-> Rows]

\* Each tab is an address of the same page; only the matrix has hooks of its own.
OnRouteChange(t) ==
  /\ t # view.tab
  /\ LET kept == [k \in DOMAIN calls |->
                    IF calls[k].op \in {"rows", "save"} THEN [calls[k] EXCEPT !.mine = FALSE] ELSE calls[k]]
     IN  /\ Len(calls) < MaxCalls
         /\ view' = [view EXCEPT !.tab = t, !.rows = None]
         /\ calls' = IF t = "notifications" THEN Append(kept, Get("rows")) ELSE kept
  /\ UNCHANGED server

-----------------------------------------------------------------------------
(* Password, preferences and sessions *)

\* What is typed passes the checks of the form or does not.
TypePassword(p) ==
  /\ view.tab = "profile" /\ view.password # p
  /\ view' = [view EXCEPT !.password = p]
  /\ UNCHANGED <<calls, server>>

HandlePasswordSave ==
  /\ view.tab = "profile" /\ view.password # "blank"
  /\ view' = [view EXCEPT !.error = view.password = "weak"]
  /\ IF view.password = "weak" THEN UNCHANGED <<calls, server>>
     ELSE Send(Call("password", None, None, None))

\* The fields are emptied, whatever they hold by now.
PasswordChanged ==
  /\ calls # <<>> /\ Head(calls).op = "password"
  /\ calls' = Tail(calls)
  /\ view' = [view EXCEPT !.password = "blank"]
  /\ UNCHANGED server

TypePreference(v) ==
  /\ view.tab = "settings" /\ view.draft # v
  /\ view' = [view EXCEPT !.draft = v]
  /\ UNCHANGED <<calls, server>>

HandleSettingsSave ==
  /\ view.tab = "settings"
  /\ Send(Call("settings", None, None, view.draft))
  /\ UNCHANGED view

\* updateEffectiveSettings with the body that was sent; the effect fills the form from it.
SettingsStored ==
  /\ calls # <<>> /\ Head(calls).op = "settings"
  /\ calls' = Tail(calls)
  /\ server' = [server EXCEPT !.settings = Head(calls).to]
  /\ view' = [view EXCEPT !.settings = Head(calls).to, !.draft = Head(calls).to]

SessionsAnswered ==
  /\ calls # <<>> /\ Head(calls).op = "sessions"
  /\ calls' = Tail(calls)
  /\ view' = [view EXCEPT !.sessions = server.sessions]
  /\ UNCHANGED server

HandleRevokeSession(s) ==
  /\ view.tab = "settings" /\ s \in view.sessions
  /\ Send(Call("revoke", s, None, None))
  /\ UNCHANGED view

Revoked ==
  /\ calls # <<>> /\ Head(calls).op = "revoke"
  /\ calls' = Append(Tail(calls), Get("sessions"))
  /\ server' = [server EXCEPT !.sessions = @ \ {Head(calls).of}]
  /\ UNCHANGED view

-----------------------------------------------------------------------------
(* NotificationsMatrixModule *)

RowsAnswered ==
  /\ calls # <<>> /\ Head(calls).op = "rows"
  /\ calls' = Tail(calls)
  /\ view' = IF Head(calls).mine THEN [view EXCEPT !.rows = server.rows, !.doubtful = {}] ELSE view
  /\ UNCHANGED server

\* The row is changed on the screen at once.
HandleToggle(e, field) ==
  /\ view.tab = "notifications" /\ view.rows # None
  /\ LET to == [view.rows[e] EXCEPT ![field] = ~@]
     IN  /\ view' = [view EXCEPT !.rows[e] = to]
         /\ Send(Call("save", e, view.rows[e], to))

RowStored ==
  /\ calls # <<>> /\ Head(calls).op = "save"
  /\ calls' = Tail(calls)
  /\ server' = [server EXCEPT !.rows[Head(calls).of] = Head(calls).to]
  /\ UNCHANGED view

Overlapped == \E k \in 2 .. Len(calls) : calls[k].op = "save" /\ calls[k].of = Head(calls).of

\* The row is taken back to what it was when this save started.
RowRefused ==
  /\ calls # <<>> /\ Head(calls).op = "save"
  /\ calls' = Tail(calls)
  /\ view' = IF ~Head(calls).mine THEN view
             ELSE [view EXCEPT !.rows[Head(calls).of] = Head(calls).from,
                               !.doubtful = IF Overlapped THEN @ \cup {Head(calls).of} ELSE @]
  /\ UNCHANGED server

Next ==
  \/ \E t \in Tabs : OnRouteChange(t)
  \/ \E p \in {"weak", "strong"} : TypePassword(p)
  \/ HandlePasswordSave \/ PasswordChanged
  \/ \E v \in Values : TypePreference(v)
  \/ HandleSettingsSave \/ SettingsStored \/ SessionsAnswered
  \/ \E s \in Sessions : HandleRevokeSession(s)
  \/ Revoked \/ RowsAnswered \/ RowStored \/ RowRefused
  \/ \E e \in Events, field \in Fields : HandleToggle(e, field)

Spec == Init /\ [][Next]_vars

-----------------------------------------------------------------------------
TypeOK ==
  /\ view.tab \in Tabs /\ view.password \in {"blank", "weak", "strong"}
  /\ {view.settings, view.draft, server.settings} \subseteq Values
  /\ view.sessions \subseteq Sessions
  /\ view.rows \in [Events -> [Fields -> BOOLEAN]] \cup {None}
  /\ server.rows \in [Events -> [Fields -> BOOLEAN]]

\* With every call answered the page shows what is stored: the preferences, the sessions, and
\* the matrix, saves that were refused included.  The exception is a row of which a save was
\* refused while another was under way: that one is taken back to before both.
ShownIsStored ==
  calls = <<>> =>
    /\ view.settings = server.settings
    /\ view.sessions = server.sessions
    /\ view.rows # None
         => \A e \in Events \ view.doubtful : view.rows[e] = server.rows[e]
=============================================================================
