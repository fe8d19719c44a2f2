------------------------------ MODULE Realtime ------------------------------
(***************************************************************************)
(* The console's push connection and its inbox: RealtimeClient of          *)
(* lib/api/ws.ts, stores/notificationStore.ts in live mode, the alerts     *)
(* bell of AppShell.tsx and NotificationsHub.tsx.                          *)
(*                                                                         *)
(* The client remembers one socket.  A socket that is closed reports it    *)
(* later, through onclose, and by then the client may remember another     *)
(* one.  The inbox is replaced by every answer to GET /notifications and   *)
(* extended by every frame that is pushed.                                 *)
(***************************************************************************)
EXTENDS Integers, Sequences, FiniteSets, SequencesExt

CONSTANTS
  Sockets,      \* WebSockets the browser may hold at once
  LastId,       \* bound: notifications the server creates, numbered in order
  MaxMounts,    \* bound: times AppShell is mounted
  NoSocket

ASSUME BoundAssumption == LastId \in Nat /\ MaxMounts \in Nat \ {0}
ASSUME SocketAssumption == NoSocket \notin Sockets

VARIABLES
  ready,        \* readyState of each socket; "none" for one that does not exist
  socket,       \* this.socket
  reconnectTimer,
  closedByUser,
  token,        \* the access token in memory: "none", "fresh" or "stale"
  shell,        \* is AppShell mounted?
  asked,        \* GET /notifications: one per mount
  notifications,
  activeToast,
  inAppToast,   \* the preference of the category
  rows,         \* server: the notifications row of each id; "open" before its transaction commits
  frames,       \* server: frames sent and not yet received, <<socket, id>>
  marks         \* POST /notifications/mark-read on their way

client == <<ready, socket, reconnectTimer, closedByUser>>
inbox == <<notifications, activeToast, inAppToast>>
server == <<rows, frames, marks>>
vars == <<client, token, shell, asked, inbox, server>>

Ids == 1 .. LastId
NoId == 0
AllRead == LastId + 1      \* the body { all: true }
Live == {s \in Sockets : ready[s] \in {"connecting", "open"}}

Committed == {"unread", "read"}

\* The rows of a list whose notification is none of these, in their order.
Without(list, which) ==
  LET kept[n \in 0 .. Len(list)] ==
        IF n = 0 THEN <<>>
        ELSE IF list[n].id \in which THEN kept[n - 1] ELSE Append(kept[n - 1], list[n])
  IN  kept[Len(list)]

\* The server's list, newest first, as mapServerNotification shows it.
Newest == [i \in 1 .. LastId |-> [id |-> LastId + 1 - i, isRead |-> rows[LastId + 1 - i] = "read"]]
Listed == Without(Newest, {id \in Ids : rows[id] \notin Committed})

Shown == {notifications[i].id : i \in DOMAIN notifications}

Init ==
  /\ ready = [s \in Sockets |-> "none"]
  /\ socket = NoSocket
  /\ reconnectTimer = FALSE
  /\ closedByUser = FALSE
  /\ token = "none"
  /\ shell = FALSE
  /\ asked = <<>>
  /\ notifications = <<>>
  /\ activeToast = NoId
  /\ inAppToast = TRUE
  /\ rows = [id \in Ids |-> "none"]
  /\ frames = {}
  /\ marks = {}

-----------------------------------------------------------------------------
(* RealtimeClient *)

\* connect(): nothing to do while the remembered socket lives or before a login.
Connect(tok) ==
  IF tok = "none" \/ socket \in Live
  THEN UNCHANGED <<ready, socket, closedByUser>>
  ELSE \E s \in Sockets :
         /\ ready[s] = "none"
         /\ ready' = [ready EXCEPT ![s] = "connecting"]
         /\ socket' = s
         /\ closedByUser' = FALSE

\* The server accepts a token that has not expired.
Opened(s) ==
  /\ ready[s] = "connecting"
  /\ token = "fresh"
  /\ ready' = [ready EXCEPT ![s] = "open"]
  /\ UNCHANGED <<socket, reconnectTimer, closedByUser, token, shell, asked, inbox, server>>

\* Mutant: onclose gives up once the server has closed a socket that was open.
Forget_OpenOnly(s) ==
  /\ ready' = [ready EXCEPT ![s] = "none"]
  /\ socket' = NoSocket
  /\ reconnectTimer' = (reconnectTimer \/ ~(closedByUser \/ ready[s] = "open"))
  /\ frames' = {f \in frames : f[1] # s}
  /\ UNCHANGED <<closedByUser, token, shell, asked, inbox, rows, marks>>

\* onclose: forgets whatever socket is remembered, its own or not, and asks for
\* a new one unless the user logged out.
Forget(s) ==
  /\ ready' = [ready EXCEPT ![s] = "none"]
  /\ socket' = NoSocket
  /\ reconnectTimer' = (reconnectTimer \/ ~closedByUser)
  /\ frames' = {f \in frames : f[1] # s}
  /\ UNCHANGED <<closedByUser, token, shell, asked, inbox, rows, marks>>

\* The server closes with 4401 before it accepts: the browser sees a handshake that
\* failed and reports 1006, so onclose never gives up on account of the token.
Rejected(s) == ready[s] = "connecting" /\ token # "fresh" /\ Forget(s)

Dropped(s) == s \in Live /\ Forget(s)

\* The close() of disconnect() completes.
Closed(s) == ready[s] = "closing" /\ Forget(s)

Reconnect ==
  /\ reconnectTimer
  /\ reconnectTimer' = FALSE
  /\ Connect(token)
  /\ UNCHANGED <<token, shell, asked, inbox, server>>

\* Mutants: disconnect() keeps the closing socket; it leaves the timer running.
Disconnect_SocketKept ==
  /\ closedByUser' = TRUE
  /\ reconnectTimer' = FALSE
  /\ ready' = [s \in Sockets |-> IF s = socket THEN "closing" ELSE ready[s]]
  /\ UNCHANGED socket

Disconnect_TimerKept ==
  /\ closedByUser' = TRUE
  /\ UNCHANGED reconnectTimer
  /\ ready' = [s \in Sockets |-> IF s = socket THEN "closing" ELSE ready[s]]
  /\ socket' = NoSocket

Disconnect ==
  /\ closedByUser' = TRUE
  /\ reconnectTimer' = FALSE
  /\ ready' = [s \in Sockets |-> IF s = socket THEN "closing" ELSE ready[s]]
  /\ socket' = NoSocket

-----------------------------------------------------------------------------
(* The session, as the shell sees it *)

\* initLive(): asks for the inbox and connects.
InitLive(tok) ==
  /\ Len(asked) < MaxMounts
  /\ shell' = TRUE
  /\ asked' = Append(asked, [at |-> "sent", list |-> <<>>])
  /\ Connect(tok)

Login ==
  /\ ~shell
  /\ token' = "fresh"
  /\ InitLive("fresh")
  /\ UNCHANGED <<reconnectTimer, inbox, server>>

\* A visit to a page outside the shell mounts the shell again.
Remount ==
  /\ shell
  /\ InitLive(token)
  /\ UNCHANGED <<reconnectTimer, token, inbox, server>>

Logout ==
  /\ shell
  /\ Disconnect
  /\ token' = "none"
  /\ shell' = FALSE
  /\ UNCHANGED <<asked, inbox, server>>

\* 'auth-logout' of apiRequest: the shell goes, the client is not told.
Expelled ==
  /\ shell
  /\ token = "stale"
  /\ token' = "none"
  /\ shell' = FALSE
  /\ UNCHANGED <<client, asked, inbox, server>>

Expire == token = "fresh" /\ token' = "stale" /\ UNCHANGED <<client, shell, asked, inbox, server>>
Refresh == token = "stale" /\ token' = "fresh" /\ UNCHANGED <<client, shell, asked, inbox, server>>

-----------------------------------------------------------------------------
(* The inbox *)

\* The server inserts a notification and publishes it before it commits, to every
\* connection that is subscribed by then; what goes wrong with it is swallowed.
Create(id) ==
  /\ rows[id] = "none" /\ \A i \in Ids : i < id => rows[i] # "none"
  /\ rows' = [rows EXCEPT ![id] = "open"]
  /\ \E subscribed \in SUBSET {s \in Sockets : ready[s] = "open"} :
       frames' = frames \cup {<<s, id>> : s \in subscribed}
  /\ UNCHANGED <<client, token, shell, asked, inbox, marks>>

\* Only then is the row there for a query to find, or it is rolled back.
Commit(id) ==
  /\ rows[id] = "open"
  /\ \E outcome \in {"unread", "gone"} : rows' = [rows EXCEPT ![id] = outcome]
  /\ UNCHANGED <<client, token, shell, asked, inbox, frames, marks>>

Show(id) ==
  /\ notifications' = <<[id |-> id, isRead |-> FALSE]>> \o notifications
  /\ activeToast' = IF inAppToast THEN id ELSE activeToast

\* Mutant: the frame is not compared with the list.
Receive_NoDedupe(s, id) ==
  /\ <<s, id>> \in frames
  /\ \A f \in frames : f[1] = s => id <= f[2]
  /\ frames' = frames \ {<<s, id>>}
  /\ Show(id)
  /\ UNCHANGED <<client, token, shell, asked, inAppToast, rows, marks>>

\* The 'notification.new' listener; a socket that is closing delivers nothing.
Receive(s, id) ==
  /\ <<s, id>> \in frames
  /\ \A f \in frames : f[1] = s => id <= f[2]
  /\ frames' = frames \ {<<s, id>>}
  /\ IF id \in Shown \/ ready[s] # "open" THEN UNCHANGED <<notifications, activeToast>> ELSE Show(id)
  /\ UNCHANGED <<client, token, shell, asked, inAppToast, rows, marks>>

\* The rows of the user that are committed, newest first.
ServeInbox(k) ==
  /\ asked[k].at = "sent"
  /\ asked' = [asked EXCEPT ![k] = [at |-> "served", list |-> Listed]]
  /\ UNCHANGED <<client, token, shell, inbox, server>>

\* The answer replaces the list.
Hydrate(k) ==
  /\ asked[k].at = "served"
  /\ asked' = [asked EXCEPT ![k] = [at |-> "done", list |-> <<>>]]
  /\ notifications' = asked[k].list
  /\ UNCHANGED <<client, token, shell, activeToast, inAppToast, server>>

HydrateFails(k) ==
  /\ asked[k].at \in {"sent", "served"}
  /\ asked' = [asked EXCEPT ![k] = [at |-> "done", list |-> <<>>]]
  /\ UNCHANGED <<client, token, shell, inbox, server>>

\* Reading is shown at once and sent without waiting for the outcome.
MarkRead(which, mark) ==
  /\ shell
  /\ notifications' = [i \in DOMAIN notifications |->
                        [notifications[i] EXCEPT !.isRead = @ \/ notifications[i].id \in which]]
  /\ marks' = marks \cup {mark}
  /\ UNCHANGED <<client, token, shell, asked, activeToast, inAppToast, rows, frames>>

MarkAsRead(id) == id \in Shown /\ MarkRead({id}, id)
MarkAllAsRead == MarkRead(Ids, AllRead)

ServeMark(m) ==
  /\ m \in marks
  /\ marks' = marks \ {m}
  /\ rows' = [i \in Ids |-> IF rows[i] = "unread" /\ m \in {i, AllRead} THEN "read" ELSE rows[i]]
  /\ UNCHANGED <<client, token, shell, asked, inbox, frames>>

MarkLost(m) ==
  /\ m \in marks
  /\ marks' = marks \ {m}
  /\ UNCHANGED <<client, token, shell, asked, inbox, rows, frames>>

\* Clearing is local: the rows come back with the next answer.
Clear(which) ==
  /\ shell
  /\ which # {}
  /\ notifications' = Without(notifications, which)
  /\ UNCHANGED <<client, token, shell, asked, activeToast, inAppToast, server>>

DismissToast ==
  /\ activeToast # NoId
  /\ activeToast' = NoId
  /\ UNCHANGED <<client, token, shell, asked, notifications, inAppToast, server>>

UpdatePreference ==
  /\ shell
  /\ inAppToast' = ~inAppToast
  /\ UNCHANGED <<client, token, shell, asked, notifications, activeToast, server>>

-----------------------------------------------------------------------------
Network(s) == Opened(s) \/ Rejected(s) \/ Closed(s)

Next ==
  \/ \E s \in Sockets : Network(s) \/ Dropped(s) \/ \E id \in Ids : Receive(s, id)
  \/ Reconnect
  \/ Login \/ Remount \/ Logout \/ Expelled \/ Expire \/ Refresh
  \/ \E id \in Ids : Create(id) \/ Commit(id)
  \/ \E k \in DOMAIN asked : ServeInbox(k) \/ Hydrate(k) \/ HydrateFails(k)
  \/ \E id \in Ids : MarkAsRead(id) \/ Clear({id})
  \/ MarkAllAsRead \/ Clear(Shown)
  \/ \E m \in Ids \cup {AllRead} : ServeMark(m) \/ MarkLost(m)
  \/ DismissToast \/ UpdatePreference

Spec == Init /\ [][Next]_vars

\* Timers fire and a connection attempt comes to an end.
FairSpec == Spec /\ WF_vars(Reconnect) /\ \A s \in Sockets : WF_vars(Network(s))

-----------------------------------------------------------------------------
Row == [id : Ids, isRead : BOOLEAN]

TypeOK ==
  /\ ready \in [Sockets -> {"none", "connecting", "open", "closing"}]
  /\ socket \in Sockets \cup {NoSocket}
  /\ socket # NoSocket => socket \in Live
  /\ reconnectTimer \in BOOLEAN /\ closedByUser \in BOOLEAN
  /\ token \in {"none", "fresh", "stale"} /\ shell \in BOOLEAN
  /\ asked \in Seq([at : {"sent", "served", "done"}, list : Seq(Row)])
  /\ notifications \in Seq(Row) /\ activeToast \in Ids \cup {NoId} /\ inAppToast \in BOOLEAN
  /\ rows \in [Ids -> Committed \cup {"none", "open", "gone"}] /\ frames \subseteq Sockets \X Ids /\ marks \subseteq Ids \cup {AllRead}

\* A notification is listed once, however many sockets push it and however the
\* pushes and the answers of the server are interleaved (the de-dupe of initLive).
NoDuplicateRows == IsInjective([i \in DOMAIN notifications |-> notifications[i].id])

\* After logout() the client never connects on its own account: no timer is
\* running or will be started by a socket that is still closing.
LoggedOutStaysQuiet == closedByUser => ~reconnectTimer

\* While the user stays signed in a connection that is dropped or refused is tried
\* again (scheduleReconnect and its single timer), a token that has gone stale included.
Reconnects == [](shell => <>(socket \in Live \/ ~shell))

=============================================================================
