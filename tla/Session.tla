------------------------------ MODULE Session ------------------------------
(***************************************************************************)
(* One tab of the console keeping its session alive (lib/api/client.ts,    *)
(* stores/authStore.ts) against the token endpoints of the API.            *)
(*                                                                         *)
(* Every view calls apiRequest, many at a time.  A call refused with 401   *)
(* either starts a refresh of the access token or, if one is under way,    *)
(* waits for it; the refresh token is a cookie of the browser that the     *)
(* server rotates, and a rotated one that comes back revokes the session.  *)
(* A call leaves the browser, is served, and has its answer received in    *)
(* three separate steps, so the calls overtake each other freely.          *)
(***************************************************************************)
EXTENDS Integers, FiniteSets

CONSTANTS
  Calls,          \* calls the views and stores may have in flight
  Me,             \* the GET /auth/me of the startup's checkSession
  RetryMayFail,   \* may a retried call be refused for a reason of its own?
  MaxExpiries,    \* bound: times the access tokens expire
  MaxLosses,      \* bound: fetches that fail
  MaxRevocations, \* bound: sessions ended by the server
  MaxTurned,      \* bound: refreshes turned away
  NoToken

ASSUME MeAssumption == Me \in Calls
ASSUME RetryAssumption == RetryMayFail \in BOOLEAN
ASSUME BudgetAssumption ==
  /\ MaxExpiries \in Nat /\ MaxLosses \in Nat /\ MaxRevocations \in Nat /\ MaxTurned \in Nat
ASSUME TokenAssumption == NoToken \notin Nat

VARIABLES
  token,         \* the access token in memory and in localStorage
  isRefreshing,  \* the module's flag
  call,          \* what each call carries and how far it is
  cookie,        \* the refresh token the browser holds
  isAuthenticated,
  expelled,      \* has 'auth-logout' been dispatched?
  logout,        \* the POST /auth/logout and the refresh token it carries
  current,       \* server: the refresh token that is not revoked, if any
  good,          \* server: the access tokens it accepts
  budget

vars == <<token, isRefreshing, call, cookie, isAuthenticated, expelled, logout,
          current, good, budget>>

\* The tokens of the session are numbered as they are minted, an access token
\* and its refresh token alike.
Token == Nat \cup {NoToken}

\* Where a call is.  The fetch of the request itself: sent, then answered or
\* refused.  waiting: in refreshSubscribers.  Its refresh: refreshing, then
\* refreshed or denied.  Its second fetch: retrying, then retried or bounced.
InRefresh == {"refreshing", "refreshed", "denied"}
InFlight == {"sent", "answered", "refused", "retrying", "retried", "bounced"} \cup InRefresh
Settled == {"done", "error"}
Where == {"idle", "waiting"} \cup InFlight \cup Settled

At(r) == call[r].at
Move(r, at, carries) == call' = [call EXCEPT ![r] = [at |-> at, with |-> carries]]
Expired == good = {}
Refreshing == {r \in Calls : At(r) \in InRefresh}

Init ==
  /\ token = 1
  /\ isRefreshing = FALSE
  /\ call = [r \in Calls |-> IF r = Me THEN [at |-> "sent", with |-> 1]
                                        ELSE [at |-> "idle", with |-> NoToken]]
  /\ cookie = 1
  /\ isAuthenticated = FALSE
  /\ expelled = FALSE
  /\ logout = [at |-> "idle", with |-> NoToken]
  /\ current = 1
  /\ good \in {{}, {1}}
  /\ budget = [expiries |-> 0, losses |-> 0, revocations |-> 0, turned |-> 0]

\* The views are mounted while the startup check is still running.
Mounted == isAuthenticated \/ At(Me) \notin Settled

\* apiRequest: the header is taken from memory when the call is made.
Request(r) ==
  /\ At(r) = "idle"
  /\ Mounted
  /\ Move(r, "sent", token)
  /\ UNCHANGED <<token, isRefreshing, cookie, isAuthenticated, expelled, logout, current, good, budget>>

\* The API authenticates the call.  "answered" is every other answer: data, a
\* refusal of the rate limiter or an error of the application.
Serve(r) ==
  /\ At(r) = "sent"
  /\ Move(r, IF call[r].with \in good THEN "answered" ELSE "refused", call[r].with)
  /\ UNCHANGED <<token, isRefreshing, cookie, isAuthenticated, expelled, logout, current, good, budget>>

\* What the caller does with the outcome: only checkSession touches the session.
Outcome(r, ok) ==
  IF r # Me THEN UNCHANGED <<token, isAuthenticated>>
  ELSE /\ isAuthenticated' = ok
       /\ token' = IF ok THEN token ELSE NoToken

Answered(r) ==
  /\ At(r) = "answered"
  /\ Move(r, "done", NoToken)
  /\ Outcome(r, TRUE)
  /\ UNCHANGED <<isRefreshing, cookie, expelled, logout, current, good, budget>>

\* Mutant: every refused call refreshes for itself.
Refused_NoQueue(r) ==
  /\ At(r) = "refused"
  /\ Move(r, "refreshing", cookie)
  /\ isRefreshing' = TRUE
  /\ UNCHANGED <<token, cookie, isAuthenticated, expelled, logout, current, good, budget>>

\* 401: wait for the refresh that is under way, or start one with the cookie
\* the browser holds now.
Refused(r) ==
  /\ At(r) = "refused"
  /\ IF isRefreshing THEN Move(r, "waiting", NoToken) ELSE Move(r, "refreshing", cookie)
  /\ isRefreshing' = TRUE
  /\ UNCHANGED <<token, cookie, isAuthenticated, expelled, logout, current, good, budget>>

\* Mutant: the refresh token is not rotated.
ServeRefresh_NoRotation(r) ==
  /\ At(r) = "refreshing"
  /\ IF call[r].with = current /\ current # NoToken
     THEN /\ good' = good \cup {current + 1}
          /\ Move(r, "refreshed", current + 1)
     ELSE /\ good' = good
          /\ Move(r, "denied", NoToken)
  /\ UNCHANGED <<token, isRefreshing, cookie, isAuthenticated, expelled, logout, current, budget>>

\* POST /auth/refresh at the server: the current refresh token is rotated, any
\* other one revokes the whole session.
ServeRefresh(r) ==
  /\ At(r) = "refreshing"
  /\ IF call[r].with = current /\ current # NoToken
     THEN /\ current' = current + 1
          /\ good' = good \cup {current + 1}
          /\ Move(r, "refreshed", current + 1)
     ELSE /\ current' = IF call[r].with = NoToken THEN current ELSE NoToken
          /\ good' = IF call[r].with = NoToken THEN good ELSE {}
          /\ Move(r, "denied", NoToken)
  /\ UNCHANGED <<token, isRefreshing, cookie, isAuthenticated, expelled, logout, budget>>

\* The rate limiter answers 429 before the service sees the refresh, or the service
\* fails with 5xx and rolls back: the token is not rotated.  The client tells these
\* answers from a 401 no more than any other that is not ok.
TurnAway(r) ==
  /\ At(r) = "refreshing"
  /\ budget.turned < MaxTurned
  /\ budget' = [budget EXCEPT !.turned = @ + 1]
  /\ Move(r, "denied", NoToken)
  /\ UNCHANGED <<token, isRefreshing, cookie, isAuthenticated, expelled, logout, current, good>>

\* Mutants: the rotated cookie is not kept; the queue is not released.
Refreshed_CookieKept(r) ==
  /\ At(r) = "refreshed"
  /\ token' = call[r].with
  /\ isRefreshing' = FALSE
  /\ call' = [q \in Calls |->
               CASE q = r -> [at |-> "retrying", with |-> token']
                 [] At(q) = "waiting" -> [at |-> "sent", with |-> token']
                 [] OTHER -> call[q]]
  /\ UNCHANGED <<cookie, isAuthenticated, expelled, logout, current, good, budget>>

Refreshed_QueueKept(r) ==
  /\ At(r) = "refreshed"
  /\ token' = call[r].with
  /\ cookie' = call[r].with
  /\ isRefreshing' = FALSE
  /\ Move(r, "retrying", token')
  /\ UNCHANGED <<isAuthenticated, expelled, logout, current, good, budget>>

\* The new pair arrives: onRefreshed makes every waiting call again, and this
\* call is fetched once more.
Refreshed(r) ==
  /\ At(r) = "refreshed"
  /\ token' = call[r].with
  /\ cookie' = call[r].with
  /\ isRefreshing' = FALSE
  /\ call' = [q \in Calls |->
               CASE q = r -> [at |-> "retrying", with |-> token']
                 [] At(q) = "waiting" -> [at |-> "sent", with |-> token']
                 [] OTHER -> call[q]]
  /\ UNCHANGED <<isAuthenticated, expelled, logout, current, good, budget>>

\* Any answer but ok clears the session, and those that wait for it are not told.
Denied(r) ==
  /\ At(r) = "denied"
  /\ Move(r, "error", NoToken)
  /\ token' = NoToken
  /\ isRefreshing' = FALSE
  /\ isAuthenticated' = FALSE
  /\ expelled' = TRUE
  /\ UNCHANGED <<cookie, logout, current, good, budget>>

ServeRetry(r) ==
  /\ At(r) = "retrying"
  /\ \E at \in (IF call[r].with \in good THEN {"retried"} ELSE {"bounced"})
               \cup (IF RetryMayFail THEN {"bounced"} ELSE {}) :
       Move(r, at, call[r].with)
  /\ UNCHANGED <<token, isRefreshing, cookie, isAuthenticated, expelled, logout, current, good, budget>>

Retried(r) ==
  /\ At(r) = "retried"
  /\ Move(r, "done", NoToken)
  /\ Outcome(r, TRUE)
  /\ UNCHANGED <<isRefreshing, cookie, expelled, logout, current, good, budget>>

\* The retry is inside the refresh's own try block: whatever makes it fail, the
\* handler clears the flag.
Bounced(r) ==
  /\ At(r) = "bounced"
  /\ Move(r, "error", NoToken)
  /\ isRefreshing' = FALSE
  /\ Outcome(r, FALSE)
  /\ UNCHANGED <<cookie, expelled, logout, current, good, budget>>

\* A fetch rejects, before or after the server saw it.  In a refresh or a retry
\* the same handler clears the flag.
Lost(r) ==
  /\ At(r) \in InFlight
  /\ budget.losses < MaxLosses
  /\ budget' = [budget EXCEPT !.losses = @ + 1]
  /\ Move(r, "error", NoToken)
  /\ isRefreshing' = (isRefreshing /\ At(r) \in {"sent", "answered", "refused"})
  /\ Outcome(r, FALSE)
  /\ UNCHANGED <<cookie, expelled, logout, current, good>>

\* Access tokens run out.  They live for minutes and a fetch for seconds: the
\* token of a refresh outlives the call that is retried with it.
Expire ==
  /\ budget.expiries < MaxExpiries
  /\ \A r \in Calls : At(r) \notin {"refreshed", "retrying", "retried", "bounced"}
  /\ good # {}
  /\ good' = {}
  /\ budget' = [budget EXCEPT !.expiries = @ + 1]
  /\ UNCHANGED <<token, isRefreshing, call, cookie, isAuthenticated, expelled, logout, current>>

\* The refresh token expires, or an administrator or another device revokes the
\* session.
Revoke ==
  /\ budget.revocations < MaxRevocations
  /\ current # NoToken
  /\ current' = NoToken
  /\ good' = {}
  /\ budget' = [budget EXCEPT !.revocations = @ + 1]
  /\ UNCHANGED <<token, isRefreshing, call, cookie, isAuthenticated, expelled, logout>>

\* logout(): the revocation is sent and not waited for, the state is cleared.
Logout ==
  /\ isAuthenticated
  /\ logout.at = "idle"
  /\ logout' = [at |-> "sent", with |-> cookie]
  /\ token' = NoToken
  /\ isAuthenticated' = FALSE
  /\ UNCHANGED <<isRefreshing, call, cookie, expelled, current, good, budget>>

\* Mutant: only the session of an unrotated token is revoked.
ServeLogout_CurrentOnly ==
  /\ logout.at = "sent"
  /\ logout' = [logout EXCEPT !.at = "served"]
  /\ IF logout.with # current THEN UNCHANGED <<current, good>>
     ELSE /\ current' = NoToken
          /\ good' = {}
  /\ UNCHANGED <<token, isRefreshing, call, cookie, isAuthenticated, expelled, budget>>

\* The session of the presented token is revoked, rotated or not.
ServeLogout ==
  /\ logout.at = "sent"
  /\ logout' = [logout EXCEPT !.at = "served"]
  /\ IF logout.with = NoToken THEN UNCHANGED <<current, good>>
     ELSE /\ current' = NoToken
          /\ good' = {}
  /\ UNCHANGED <<token, isRefreshing, call, cookie, isAuthenticated, expelled, budget>>

LogoutAnswered ==
  /\ logout.at = "served"
  /\ logout' = [logout EXCEPT !.at = "done"]
  /\ cookie' = NoToken
  /\ UNCHANGED <<token, isRefreshing, call, isAuthenticated, expelled, current, good, budget>>

Progress(r) ==
  \/ Serve(r) \/ Answered(r) \/ Refused(r)
  \/ ServeRefresh(r) \/ Refreshed(r) \/ Denied(r)
  \/ ServeRetry(r) \/ Retried(r) \/ Bounced(r)

Next ==
  \/ \E r \in Calls : Request(r) \/ Progress(r) \/ TurnAway(r) \/ Lost(r)
  \/ Expire \/ Revoke
  \/ Logout \/ ServeLogout \/ LogoutAnswered

Spec == Init /\ [][Next]_vars

\* A fetch that is not lost is served and answered.
FairSpec == Spec /\ \A r \in Calls : WF_vars(Progress(r))

-----------------------------------------------------------------------------
TypeOK ==
  /\ token \in Token /\ cookie \in Token /\ current \in Token
  /\ isRefreshing \in BOOLEAN /\ isAuthenticated \in BOOLEAN /\ expelled \in BOOLEAN
  /\ call \in [Calls -> [at : Where, with : Token]]
  /\ logout \in [at : {"idle", "sent", "served", "done"}, with : Token]
  /\ good \subseteq (IF current = NoToken THEN {} ELSE 1 .. current)
  /\ budget \in [expiries : Nat, losses : Nat, revocations : Nat, turned : Nat]

\* Neither the network, nor the user, nor a revocation has ended the session.
Undisturbed == logout.at = "idle" /\ budget.losses = 0 /\ budget.revocations = 0

\* At most one refresh of the tab is under way (isRefreshing and its queue in
\* apiRequest), so the cookie it carries is never presented a second time.
OneRefresh == Undisturbed => \A q, r \in Refreshing : q = r

\* Idling past the expiry of the access token never costs the user the session:
\* the server never takes the tab's own refreshes for a replay and revokes it, and
\* apiRequest dispatches 'auth-logout' only if the user logged out, a fetch was
\* lost, or a refresh was turned away.  The last of these ends the session in the
\* tab and not at the server.
StaysSignedIn == Undisturbed => current # NoToken /\ (expelled => budget.turned > 0)

\* With the session undisturbed and no refresh turned away, every call the views
\* make is answered in the end, through a refresh if need be: none is refused, and
\* none is left behind in refreshSubscribers.
SilentRefresh ==
  [](Undisturbed /\ budget.turned = 0) => \A r \in Calls : (At(r) = "sent") ~> (At(r) = "done")

\* Once the server has handled the logout it accepts no token of this session
\* again, not even one minted by a refresh that was under way at that moment.
LogoutIsFinal == logout.at \in {"served", "done"} /\ logout.with # NoToken => current = NoToken /\ good = {}

=============================================================================
