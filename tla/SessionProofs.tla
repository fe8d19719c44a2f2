---------------------------- MODULE SessionProofs ----------------------------
(***************************************************************************)
(* Theorems about Session: its state keeps its type, a logout that the     *)
(* server has handled is final, and the tab's own refreshes never make the *)
(* server end a session nothing disturbs, whatever the number of calls and *)
(* however they overtake each other.                                       *)
(***************************************************************************)
EXTENDS Session, TLAPS

Call == [at : Where, with : Token]

\* Both fetches of a call, its refresh and the queue are places a call can be.
LEMMA Places ==
  /\ InRefresh \subseteq InFlight
  /\ InFlight \subseteq Where /\ Settled \subseteq Where
  /\ {"idle", "waiting", "sent", "answered", "refused", "retrying", "retried", "bounced",
      "refreshing", "refreshed", "denied", "done", "error"} = Where
  BY DEF InRefresh, InFlight, Where, Settled

LEMMA MoveKeepsType ==
  ASSUME call \in [Calls -> Call], NEW r \in Calls, NEW at \in Where, NEW carries \in Token,
         Move(r, at, carries)
  PROVE  call' \in [Calls -> Call]
  BY DEF Move, Call

LEMMA InitType == Init => TypeOK
<1> SUFFICES ASSUME Init PROVE TypeOK
  OBVIOUS
<1>1. call \in [Calls -> Call]
  BY Places DEF Init, Call, Token
<1>2. 1 # NoToken /\ good \subseteq 1 .. 1
  BY TokenAssumption DEF Init
<1>3. /\ logout \in [at : {"idle", "sent", "served", "done"}, with : Token]
      /\ budget \in [expiries : Nat, losses : Nat, revocations : Nat, turned : Nat]
  BY DEF Init, Token
<1>4. QED
  BY <1>1, <1>2, <1>3 DEF Init, TypeOK, Token, Call

\* The tokens the server accepts stay below the one it minted last.
LEMMA MintedAreGood ==
  ASSUME TypeOK, current # NoToken
  PROVE  current + 1 \in Nat /\ current + 1 # NoToken /\ good \cup {current + 1} \subseteq 1 .. current + 1
<1>1. current \in Nat /\ good \subseteq 1 .. current
  BY DEF TypeOK, Token
<1>2. QED BY <1>1, TokenAssumption

LEMMA StepType == TypeOK /\ [Next]_vars => TypeOK'
<1> SUFFICES ASSUME TypeOK, [Next]_vars PROVE TypeOK'
  OBVIOUS
<1> USE DEF TypeOK
<1>1. NoToken \in Token /\ call \in [Calls -> Call]
  BY DEF Token, Call
<1>2. ASSUME NEW r \in Calls, NEW ok \in BOOLEAN, Outcome(r, ok)
      PROVE  token' \in Token /\ isAuthenticated' \in BOOLEAN
  BY <1>1, <1>2 DEF Outcome
<1>3. ASSUME NEW r \in Calls, Request(r) PROVE TypeOK'
  <2>1. call' \in [Calls -> Call]
    BY <1>1, <1>3, Places, MoveKeepsType DEF Request
  <2>2. QED BY <1>3, <2>1 DEF Request, Call
<1>4. ASSUME NEW r \in Calls, Serve(r) PROVE TypeOK'
  <2>1. call' \in [Calls -> Call]
    BY <1>1, <1>4, Places, MoveKeepsType DEF Serve, Call
  <2>2. QED BY <1>4, <2>1 DEF Serve, Call
<1>5. ASSUME NEW r \in Calls, Answered(r) \/ Retried(r) PROVE TypeOK'
  <2>1. call' \in [Calls -> Call]
    BY <1>1, <1>5, Places, MoveKeepsType DEF Answered, Retried
  <2>2. QED BY <1>2, <1>5, <2>1 DEF Answered, Retried, Call
<1>6. ASSUME NEW r \in Calls, Refused(r) PROVE TypeOK'
  <2>1. call' \in [Calls -> Call]
    BY <1>1, <1>6, Places, MoveKeepsType DEF Refused
  <2>2. QED BY <1>6, <2>1 DEF Refused, Call
<1>7. ASSUME NEW r \in Calls, ServeRefresh(r) PROVE TypeOK'
  <2>1. CASE call[r].with = current /\ current # NoToken
    <3>1. call' \in [Calls -> Call]
      BY <1>1, <1>7, <2>1, Places, MintedAreGood, MoveKeepsType DEF ServeRefresh, Token
    <3>2. QED BY <1>7, <2>1, <3>1, MintedAreGood DEF ServeRefresh, Call, Token
  <2>2. CASE ~(call[r].with = current /\ current # NoToken)
    <3>1. call' \in [Calls -> Call]
      BY <1>1, <1>7, <2>2, Places, MoveKeepsType DEF ServeRefresh
    <3>2. QED BY <1>1, <1>7, <2>2, <3>1 DEF ServeRefresh, Call
  <2>3. QED BY <2>1, <2>2
<1>8. ASSUME NEW r \in Calls, Refreshed(r) PROVE TypeOK'
  <2>1. token' \in Token
    BY <1>8 DEF Refreshed
  <2>2. call' \in [Calls -> Call]
    BY <1>1, <1>8, <2>1, Places DEF Refreshed, Call
  <2>3. QED BY <1>8, <2>1, <2>2 DEF Refreshed, Call
<1>9. ASSUME NEW r \in Calls, Denied(r) PROVE TypeOK'
  <2>1. call' \in [Calls -> Call]
    BY <1>1, <1>9, Places, MoveKeepsType DEF Denied
  <2>2. QED BY <1>1, <1>9, <2>1 DEF Denied, Call
<1>10. ASSUME NEW r \in Calls, ServeRetry(r) PROVE TypeOK'
  <2>1. call' \in [Calls -> Call]
    BY <1>1, <1>10, Places, MoveKeepsType DEF ServeRetry, Call
  <2>2. QED BY <1>10, <2>1 DEF ServeRetry, Call
<1>11. ASSUME NEW r \in Calls, Bounced(r) PROVE TypeOK'
  <2>1. call' \in [Calls -> Call]
    BY <1>1, <1>11, Places, MoveKeepsType DEF Bounced
  <2>2. QED BY <1>2, <1>11, <2>1 DEF Bounced, Call
<1>12. ASSUME NEW r \in Calls, Lost(r) PROVE TypeOK'
  <2>1. call' \in [Calls -> Call]
    BY <1>1, <1>12, Places, MoveKeepsType DEF Lost
  <2>2. budget' \in [expiries : Nat, losses : Nat, revocations : Nat, turned : Nat]
    BY <1>12 DEF Lost
  <2>3. QED BY <1>2, <1>12, <2>1, <2>2 DEF Lost, Call
<1>13. CASE Expire \/ Revoke
  BY <1>1, <1>13 DEF Expire, Revoke
<1>14. CASE Logout \/ ServeLogout \/ LogoutAnswered
  <2>1. CASE Logout
    <3>1. logout' \in [at : {"idle", "sent", "served", "done"}, with : Token]
      BY <2>1 DEF Logout
    <3>2. QED BY <1>1, <2>1, <3>1 DEF Logout
  <2>2. CASE ServeLogout
    <3>1. logout' \in [at : {"idle", "sent", "served", "done"}, with : Token]
      BY <2>2 DEF ServeLogout
    <3>2. QED BY <1>1, <2>2, <3>1 DEF ServeLogout
  <2>3. CASE LogoutAnswered
    <3>1. logout' \in [at : {"idle", "sent", "served", "done"}, with : Token]
      BY <2>3 DEF LogoutAnswered
    <3>2. QED BY <1>1, <2>3, <3>1 DEF LogoutAnswered
  <2>4. QED BY <1>14, <2>1, <2>2, <2>3
<1>15. CASE UNCHANGED vars
  BY <1>15 DEF vars
<1>16. ASSUME NEW r \in Calls, TurnAway(r) PROVE TypeOK'
  <2>1. call' \in [Calls -> Call]
    BY <1>1, <1>16, Places, MoveKeepsType DEF TurnAway
  <2>2. budget' \in [expiries : Nat, losses : Nat, revocations : Nat, turned : Nat]
    BY <1>16 DEF TurnAway
  <2>3. QED BY <1>16, <2>1, <2>2 DEF TurnAway, Call
<1>17. QED
  BY <1>3, <1>4, <1>5, <1>6, <1>7, <1>8, <1>9, <1>10, <1>11, <1>12, <1>13, <1>14, <1>15,
     <1>16
  DEF Next, Progress

\* The state of the tab and of its session keeps its type.
THEOREM TypeCorrect == Spec => []TypeOK
<1>1. QED BY InitType, StepType, PTL DEF Spec
-----------------------------------------------------------------------------
\* Nothing mints a token once there is no refresh token that is not revoked.
LEMMA StepLogout == LogoutIsFinal /\ [Next]_vars => LogoutIsFinal'
<1> SUFFICES ASSUME LogoutIsFinal, [Next]_vars PROVE LogoutIsFinal'
  OBVIOUS
<1> USE DEF LogoutIsFinal
<1>1. ASSUME NEW r \in Calls,
             Request(r) \/ Serve(r) \/ Answered(r) \/ Refused(r) \/ Refreshed(r) \/ Denied(r)
               \/ ServeRetry(r) \/ Retried(r) \/ Bounced(r) \/ TurnAway(r) \/ Lost(r)
      PROVE  LogoutIsFinal'
  BY <1>1 DEF Request, Serve, Answered, Refused, Refreshed, Denied, ServeRetry, Retried, Bounced,
              TurnAway, Lost
<1>2. ASSUME NEW r \in Calls, ServeRefresh(r) PROVE LogoutIsFinal'
  BY <1>2 DEF ServeRefresh
<1>3. CASE Expire \/ Revoke
  BY <1>3 DEF Expire, Revoke
<1>4. CASE Logout
  BY <1>4 DEF Logout
<1>5. CASE ServeLogout
  BY <1>5 DEF ServeLogout
<1>6. CASE LogoutAnswered
  BY <1>6 DEF LogoutAnswered
<1>7. CASE UNCHANGED vars
  BY <1>7 DEF vars
<1>8. QED BY <1>1, <1>2, <1>3, <1>4, <1>5, <1>6, <1>7 DEF Next, Progress

\* Once the server has handled a logout no token of the session is accepted any more, not even
\* one of a refresh that was under way.
THEOREM LogoutFinal == Spec => []LogoutIsFinal
<1>1. Init => LogoutIsFinal
  BY DEF Init, LogoutIsFinal
<1>2. QED BY <1>1, StepLogout, PTL DEF Spec

-----------------------------------------------------------------------------
\* While nothing disturbs the session: the flag stands for the one refresh that is under way,
\* the browser holds the current refresh token unless that refresh is bringing it, and every
\* token that is under way is one the server accepts.  Only a refresh that was turned away
\* is denied.
Safe ==
  /\ (expelled => budget.turned > 0) /\ current # NoToken
  /\ \A q, r \in Refreshing : q = r
  /\ Refreshing # {} => isRefreshing
  /\ (\A r \in Calls : At(r) # "refreshed") => cookie = current
  /\ \A r \in Calls :
       /\ At(r) # "bounced"
       /\ At(r) = "denied" => budget.turned > 0
       /\ At(r) \in {"refreshing", "refreshed"} => call[r].with = current
       /\ At(r) = "refreshed" => current \in good
       /\ At(r) = "retrying" => call[r].with \in good

SafeInv == Undisturbed => Safe

LEMMA StaysDisturbed == TypeOK /\ [Next]_vars /\ ~Undisturbed => ~Undisturbed'
<1> SUFFICES ASSUME TypeOK, [Next]_vars, Undisturbed' PROVE Undisturbed
  OBVIOUS
<1> USE DEF Undisturbed
<1>1. ASSUME NEW r \in Calls, Request(r) \/ Progress(r) PROVE Undisturbed
  BY <1>1 DEF Request, Progress, Serve, Answered, Refused, ServeRefresh, Refreshed, Denied,
              ServeRetry, Retried, Bounced
<1>8. ASSUME NEW r \in Calls, TurnAway(r) PROVE Undisturbed
  <2>1. budget'.losses = budget.losses /\ budget'.revocations = budget.revocations /\ logout' = logout
    BY <1>8 DEF TurnAway, TypeOK
  <2>2. QED BY <2>1
<1>2. ASSUME NEW r \in Calls, Lost(r) PROVE Undisturbed
  BY <1>2 DEF Lost, TypeOK
<1>3. CASE Expire
  BY <1>3 DEF Expire, TypeOK
<1>4. ~Revoke
  <2>1. budget.revocations \in Nat /\ budget = [budget EXCEPT !.revocations = @]
    BY DEF TypeOK
  <2>2. Revoke => budget'.revocations = budget.revocations + 1
    BY <2>1 DEF Revoke
  <2>3. QED BY <2>1, <2>2
<1>5. CASE Logout \/ ServeLogout \/ LogoutAnswered
  BY <1>5 DEF Logout, ServeLogout, LogoutAnswered, TypeOK
<1>6. CASE UNCHANGED vars
  BY <1>6 DEF vars
<1>7. QED BY <1>1, <1>2, <1>3, <1>4, <1>5, <1>6, <1>8 DEF Next

\* Steps of the tab and of the server that concern one call and no refresh.
LEMMA SafePlain ==
  ASSUME ~RetryMayFail, TypeOK, Safe, NEW r \in Calls,
         Request(r) \/ Serve(r) \/ Answered(r) \/ Retried(r) \/ ServeRetry(r)
  PROVE  Safe'
<1> DEFINE plain == {"sent", "answered", "refused", "retried", "done"}
<1>1. \E at \in plain, carries \in Token : Move(r, at, carries)
  BY DEF Request, Serve, Answered, Retried, ServeRetry, TypeOK, Token, Safe, At
<1>2. \A q \in Calls : call'[q] = call[q] \/ (q = r /\ call'[q].at \in plain)
  BY <1>1 DEF Move, TypeOK
<1>3. At(r) \notin {"refreshing", "refreshed"}
  BY DEF Request, Serve, Answered, Retried, ServeRetry
<1>4. UNCHANGED <<isRefreshing, expelled, cookie, current, good, budget>>
  BY DEF Request, Serve, Answered, Retried, ServeRetry
<1>5. Refreshing' \subseteq Refreshing
  BY <1>2 DEF Refreshing, InRefresh, At
<1>6. \A q \in Calls : At(q)' = "refreshed" <=> At(q) = "refreshed"
  BY <1>2, <1>3 DEF At
<1>7. QED BY <1>2, <1>3, <1>4, <1>5, <1>6 DEF Safe, At

LEMMA SafeRefused ==
  ASSUME TypeOK, Safe, NEW r \in Calls, Refused(r) PROVE Safe'
<1>1. CASE isRefreshing
  <2>1. /\ \A q \in Calls : call'[q] = IF q = r THEN [at |-> "waiting", with |-> NoToken] ELSE call[q]
        /\ At(r) = "refused"
    BY <1>1 DEF Refused, Move, TypeOK
  <2>2. Refreshing' \subseteq Refreshing
    BY <2>1 DEF Refreshing, InRefresh, At
  <2>3. \A q \in Calls : At(q)' = "refreshed" <=> At(q) = "refreshed"
    BY <2>1 DEF At
  <2>4. UNCHANGED <<expelled, cookie, current, good, budget>> /\ isRefreshing'
    BY DEF Refused
  <2>5. QED BY <2>1, <2>2, <2>3, <2>4 DEF Safe, At
<1>2. CASE ~isRefreshing
  <2>1. Refreshing = {} /\ cookie = current
    BY <1>2 DEF Safe, Refreshing, InRefresh
  <2>2. \A q \in Calls : call'[q] = IF q = r THEN [at |-> "refreshing", with |-> cookie] ELSE call[q]
    BY <1>2 DEF Refused, Move, TypeOK
  <2>3. UNCHANGED <<expelled, cookie, current, good, budget>> /\ isRefreshing'
    BY DEF Refused
  <2>4. Refreshing' \subseteq {r}
    BY <2>1, <2>2 DEF Refreshing, InRefresh, At
  <2>5. QED BY <2>1, <2>2, <2>3, <2>4 DEF Safe, At
<1>3. QED BY <1>1, <1>2

LEMMA SafeServeRefresh ==
  ASSUME TypeOK, Safe, NEW r \in Calls, ServeRefresh(r) PROVE Safe'
<1>1. At(r) = "refreshing" /\ call[r].with = current /\ current # NoToken
  BY DEF ServeRefresh, Safe
<1>2. /\ current' = current + 1 /\ good' = good \cup {current + 1}
      /\ \A q \in Calls :
           call'[q] = IF q = r THEN [at |-> "refreshed", with |-> current + 1] ELSE call[q]
  BY <1>1 DEF ServeRefresh, Move, TypeOK
<1>3. current + 1 # NoToken
  BY <1>1, MintedAreGood
<1>4. Refreshing = {r} /\ Refreshing' = {r}
  BY <1>1, <1>2 DEF Safe, Refreshing, InRefresh, At
<1>5. UNCHANGED <<isRefreshing, expelled, cookie, budget>>
  BY DEF ServeRefresh
<1>6. \A q \in Calls \ {r} : At(q) \notin InRefresh
  BY <1>4 DEF Refreshing
<1>7. QED BY <1>1, <1>2, <1>3, <1>4, <1>5, <1>6 DEF Safe, At, InRefresh

LEMMA SafeRefreshed ==
  ASSUME TypeOK, Safe, NEW r \in Calls, Refreshed(r) PROVE Safe'
<1>1. At(r) = "refreshed" /\ call[r].with = current /\ current \in good
  BY DEF Refreshed, Safe
<1>2. /\ token' = current /\ cookie' = current
      /\ UNCHANGED <<expelled, current, good, budget>>
      /\ \A q \in Calls :
           call'[q] = CASE q = r -> [at |-> "retrying", with |-> current]
                        [] At(q) = "waiting" -> [at |-> "sent", with |-> current]
                        [] OTHER -> call[q]
  BY <1>1 DEF Refreshed
<1>3. \A q \in Calls \ {r} : At(q) \notin InRefresh
  BY <1>1 DEF Safe, Refreshing, InRefresh
<1>4. \A q \in Calls : call'[q] = call[q] \/ call'[q].at = "sent"
                        \/ (q = r /\ call'[q] = [at |-> "retrying", with |-> current])
  BY <1>2
<1>5. \A q \in Calls : At(q)' \notin InRefresh
  BY <1>1, <1>2, <1>3, <1>4 DEF At, InRefresh
<1>6. Refreshing' = {}
  BY <1>5 DEF Refreshing, At
<1>7. \A q \in Calls : At(q)' \notin {"refreshing", "refreshed", "denied", "bounced"}
  BY <1>4, <1>5 DEF At, InRefresh, Safe
<1>8. \A q \in Calls : At(q)' = "retrying" => call'[q].with \in good
  BY <1>1, <1>4 DEF At, Safe
<1>9. QED BY <1>1, <1>2, <1>6, <1>7, <1>8 DEF Safe, At

\* A refresh that is turned away rotates nothing, and its failure ends the one refresh.
LEMMA SafeTurnAway ==
  ASSUME TypeOK, Safe, NEW r \in Calls, TurnAway(r) PROVE Safe'
<1>1. \A q \in Calls : call'[q] = IF q = r THEN [at |-> "denied", with |-> NoToken] ELSE call[q]
  BY DEF TurnAway, Move, TypeOK
<1>2. At(r) = "refreshing" /\ UNCHANGED <<isRefreshing, expelled, cookie, current, good>>
  BY DEF TurnAway
<1>3. budget'.turned > 0
  <2>1. budget.turned \in Nat /\ budget'.turned = budget.turned + 1
    BY DEF TurnAway, TypeOK
  <2>2. QED BY <2>1
<1>4. Refreshing' = Refreshing
  BY <1>1, <1>2 DEF Refreshing, InRefresh, At
<1>5. \A q \in Calls : At(q)' = "refreshed" <=> At(q) = "refreshed"
  BY <1>1, <1>2 DEF At
<1>6. QED BY <1>1, <1>2, <1>3, <1>4, <1>5 DEF Safe, At

LEMMA SafeDenied ==
  ASSUME TypeOK, Safe, NEW r \in Calls, Denied(r) PROVE Safe'
<1>1. \A q \in Calls : call'[q] = IF q = r THEN [at |-> "error", with |-> NoToken] ELSE call[q]
  BY DEF Denied, Move, TypeOK
<1>2. At(r) = "denied" /\ budget.turned > 0 /\ UNCHANGED <<cookie, current, good, budget>>
  BY DEF Denied, Safe
<1>3. \A q \in Calls : At(q) \in InRefresh => q = r
  BY <1>2 DEF Safe, Refreshing, InRefresh
<1>4. \A q \in Calls : At(q)' \notin InRefresh
  BY <1>1, <1>3 DEF InRefresh, At
<1>5. Refreshing' = {}
  BY <1>4 DEF Refreshing
<1>6. cookie = current
  BY <1>2, <1>3 DEF Safe, InRefresh
<1>7. QED BY <1>1, <1>2, <1>4, <1>5, <1>6 DEF Safe, At, InRefresh

\* An undisturbed session stays safe.  Expiring takes no token of a refresh or a retry.
LEMMA StepSafe == ~RetryMayFail /\ TypeOK /\ SafeInv /\ [Next]_vars => SafeInv'
<1> SUFFICES ASSUME ~RetryMayFail, TypeOK, SafeInv, [Next]_vars, Undisturbed' PROVE Safe'
  BY DEF SafeInv
<1>1. Undisturbed /\ Safe
  BY StaysDisturbed DEF SafeInv
<1>2. ASSUME NEW r \in Calls, Request(r) \/ Progress(r) PROVE Safe'
  <2>1. ~Bounced(r)
    BY <1>1 DEF Bounced, Safe
  <2>2. QED
    BY <1>1, <1>2, <2>1, SafePlain, SafeRefused, SafeServeRefresh, SafeRefreshed, SafeDenied
    DEF Progress
<1>9. ASSUME NEW r \in Calls, TurnAway(r) PROVE Safe'
  BY <1>1, <1>9, SafeTurnAway
<1>3. ASSUME NEW r \in Calls PROVE ~Lost(r)
  <2>1. budget.losses \in Nat
    BY DEF TypeOK
  <2>2. Lost(r) => budget'.losses = budget.losses + 1
    BY DEF Lost, TypeOK
  <2>3. QED BY <2>1, <2>2 DEF Undisturbed
<1>4. CASE Expire
  <2>1. budget'.turned = budget.turned
    BY <1>4 DEF Expire, TypeOK
  <2>2. QED BY <1>1, <1>4, <2>1 DEF Expire, Safe, At, Refreshing
<1>5. ~Revoke
  <2>1. budget.revocations \in Nat
    BY DEF TypeOK
  <2>2. Revoke => budget'.revocations = budget.revocations + 1
    BY DEF Revoke, TypeOK
  <2>3. QED BY <2>1, <2>2 DEF Undisturbed
<1>6. ~Logout /\ ~ServeLogout /\ ~LogoutAnswered
  <2>1. Logout => logout'.at = "sent"
    BY DEF Logout
  <2>2. QED BY <1>1, <2>1 DEF ServeLogout, LogoutAnswered, Undisturbed
<1>7. CASE UNCHANGED vars
  BY <1>1, <1>7 DEF vars, Safe, At, Refreshing
<1>8. QED BY <1>2, <1>3, <1>4, <1>5, <1>6, <1>7, <1>9 DEF Next

LEMMA InitSafe == Init => SafeInv
<1> SUFFICES ASSUME Init PROVE Safe
  BY DEF SafeInv
<1>1. \A r \in Calls : At(r) \in {"sent", "idle"}
  BY DEF Init, At
<1>2. Refreshing = {}
  BY <1>1 DEF Refreshing, InRefresh
<1>3. QED BY <1>1, <1>2, TokenAssumption DEF Init, Safe

\* If a retried call is only refused for its token, there is one refresh at a time.
THEOREM RefreshesOnce == ~RetryMayFail => (Spec => []OneRefresh)
<1> SUFFICES ASSUME ~RetryMayFail PROVE Spec => []OneRefresh
  OBVIOUS
<1>1. TypeOK /\ SafeInv /\ [Next]_vars => TypeOK' /\ SafeInv'
  BY StepType, StepSafe
<1>2. SafeInv => OneRefresh
  BY DEF SafeInv, Safe, OneRefresh
<1>3. QED BY InitType, InitSafe, <1>1, <1>2, PTL DEF Spec

\* And then the server never takes the tab's refreshes for a replay, so idling past the expiry
\* of the access token never costs the user the session; the tab alone forgets it, and only
\* when a refresh was turned away by the rate limiter or by a failure of the server.
THEOREM NeverTakenForReplay == ~RetryMayFail => (Spec => []StaysSignedIn)
<1> SUFFICES ASSUME ~RetryMayFail PROVE Spec => []StaysSignedIn
  OBVIOUS
<1>1. TypeOK /\ SafeInv /\ [Next]_vars => TypeOK' /\ SafeInv'
  BY StepType, StepSafe
<1>2. SafeInv => StaysSignedIn
  BY DEF SafeInv, Safe, StaysSignedIn
<1>3. QED BY InitType, InitSafe, <1>1, <1>2, PTL DEF Spec
=============================================================================
