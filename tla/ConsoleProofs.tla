---------------------------- MODULE ConsoleProofs ----------------------------
(***************************************************************************)
(* Theorems about the screens under the router.  Each is proved of the     *)
(* screen's own module first, for the state it has while it is mounted,    *)
(* and carried to Console by the lemmas of the router.  Here are the       *)
(* orders that decisions raise, the canvas of the graph, what ends         *)
(* everything that is drawn as under way, and the document library;        *)
(* ScreensProofs and RecordsProofs have the theorems about single screens. *)
(***************************************************************************)
EXTENDS Console, Lists, SequenceTheorems, FiniteSetTheorems, TLAPS

-----------------------------------------------------------------------------
\* The router: a visit stays on its route, starts in an initial state of its screen and
\* takes that screen's steps.
LEMMA RouteStays == [Next]_vars => route' = route
  BY DEF Next, vars

LEMMA AssetMounted == Init /\ route = "asset" => Asset!Init
  BY DEF Init, Mounted

LEMMA AssetStep == [Next]_vars /\ route = "asset" => [Asset!Next]_<<view, calls, server>>
  BY DEF Next, vars

-----------------------------------------------------------------------------
(* Lists *)

Distinct(s) == \A i, j \in DOMAIN s : s[i] = s[j] => i = j

\* Taking one element out of a sequence without repetitions.
LEMMA TakenOut ==
  ASSUME NEW S, NEW s \in Seq(S), NEW i \in 1 .. Len(s)
  PROVE  LET t == TakeOut(s, i)
         IN /\ t \in Seq(S) /\ Len(t) = Len(s) - 1
            /\ \A k \in 1 .. i - 1 : t[k] = s[k]
            /\ \A k \in i .. Len(s) - 1 : t[k] = s[k + 1]
<1> DEFINE left == SubSeq(s, 1, i - 1)
           right == SubSeq(s, i + 1, Len(s))
           n == Len(s)
<1>1. /\ left \in Seq(S) /\ Len(left) = i - 1 /\ \A k \in 1 .. i - 1 : left[k] = s[k]
      /\ right \in Seq(S) /\ Len(right) = n - i /\ \A k \in 1 .. n - i : right[k] = s[k + i]
  OBVIOUS
<1>2. n \in Nat /\ i \in 1 .. n
  OBVIOUS
<1> HIDE DEF left, right, n
<1>3. /\ left \o right \in Seq(S) /\ Len(left \o right) = Len(left) + Len(right)
      /\ \A k \in 1 .. Len(left) + Len(right) :
           (left \o right)[k] = IF k <= Len(left) THEN left[k] ELSE right[k - Len(left)]
  BY <1>1, ConcatProperties
<1>4. Len(left) + Len(right) = n - 1
  BY <1>1, <1>2
<1>5. ASSUME NEW k \in 1 .. i - 1 PROVE (left \o right)[k] = s[k]
  <2>1. k \in 1 .. Len(left) + Len(right) /\ k <= Len(left)
    BY <1>1, <1>2, <1>4
  <2>2. QED BY <1>1, <1>3, <2>1
<1>6. ASSUME NEW k \in i .. n - 1 PROVE (left \o right)[k] = s[k + 1]
  <2>1. k \in 1 .. Len(left) + Len(right) /\ ~(k <= Len(left))
    BY <1>1, <1>2, <1>4
  <2>2. k - Len(left) \in 1 .. n - i /\ (k - Len(left)) + i = k + 1
    BY <1>1, <1>2
  <2>3. QED BY <1>1, <1>3, <2>1, <2>2
<1>7. TakeOut(s, i) = left \o right
  BY DEF TakeOut, left, right
<1>8. QED BY <1>3, <1>4, <1>5, <1>6, <1>7 DEF n

LacksOne(s, t, i) ==
  /\ Len(t) = Len(s) - 1
  /\ \A k \in 1 .. i - 1 : t[k] = s[k]
  /\ \A k \in i .. Len(s) - 1 : t[k] = s[k + 1]

\* It leaves the others, once each.
LEMMA OthersLeft ==
  ASSUME NEW S, NEW s \in Seq(S), NEW t \in Seq(S), NEW i \in 1 .. Len(s), Distinct(s),
         LacksOne(s, t, i)
  PROVE  /\ Distinct(t)
         /\ \A k \in DOMAIN t : t[k] # s[i] /\ \E j \in DOMAIN s : t[k] = s[j]
         /\ Elements(t) = Elements(s) \ {s[i]}
<1>1. PICK n \in Nat : n = Len(s) /\ DOMAIN s = 1 .. n /\ DOMAIN t = 1 .. n - 1 /\ i \in 1 .. n
  BY DEF LacksOne
<1>2. \A k \in 1 .. n - 1 : /\ k < i => t[k] = s[k] /\ k \in 1 .. n
                            /\ ~(k < i) => t[k] = s[k + 1] /\ k + 1 \in 1 .. n
  BY <1>1 DEF LacksOne
<1>3. \A j, k \in 1 .. n : s[j] = s[k] => j = k
  BY <1>1 DEF Distinct
<1>4. ASSUME NEW j \in 1 .. n - 1, NEW k \in 1 .. n - 1, t[j] = t[k] PROVE j = k
  BY <1>1, <1>2, <1>3, <1>4
<1>5. ASSUME NEW k \in 1 .. n - 1 PROVE t[k] # s[i] /\ \E j \in 1 .. n : t[k] = s[j]
  BY <1>1, <1>2, <1>3
<1>6. ASSUME NEW j \in 1 .. n, j # i PROVE \E k \in 1 .. n - 1 : t[k] = s[j]
  <2>1. CASE j < i
    <3>1. j \in 1 .. n - 1
      BY <1>1, <2>1
    <3>2. QED BY <1>2, <2>1, <3>1
  <2>2. CASE j > i
    <3>1. j - 1 \in 1 .. n - 1 /\ ~(j - 1 < i) /\ (j - 1) + 1 = j
      BY <1>1, <2>2
    <3>2. QED BY <1>2, <3>1
  <2>3. QED BY <1>1, <1>6, <2>1, <2>2
<1>7. Distinct(t)
  BY <1>1, <1>4 DEF Distinct
<1>8. \A k \in DOMAIN t : t[k] # s[i] /\ \E j \in DOMAIN s : t[k] = s[j]
  BY <1>1, <1>5
<1>9. \A j \in DOMAIN s : s[j] # s[i] => \E k \in DOMAIN t : t[k] = s[j]
  BY <1>1, <1>6
<1>10. Elements(t) = Elements(s) \ {s[i]}
  BY <1>8, <1>9 DEF Elements
<1>11. QED BY <1>7, <1>8, <1>10

LEMMA OneLeft ==
  ASSUME NEW S, NEW s \in Seq(S), NEW i \in 1 .. Len(s), Distinct(s)
  PROVE  LET t == TakeOut(s, i)
         IN /\ t \in Seq(S) /\ Len(t) <= Len(s) /\ Distinct(t)
            /\ Elements(t) = Elements(s) \ {s[i]}
<1>1. PICK t : t = TakeOut(s, i)
  OBVIOUS
<1>2. t \in Seq(S) /\ LacksOne(s, t, i)
  BY <1>1, TakenOut DEF LacksOne
<1>3. Distinct(t) /\ Elements(t) = Elements(s) \ {s[i]}
  BY <1>2, OthersLeft
<1>4. Len(t) <= Len(s)
  BY <1>2 DEF LacksOne
<1>5. QED BY <1>1, <1>2, <1>3, <1>4

\* Without leaves a list without repetitions all its other elements.
LEMMA WithoutOne ==
  ASSUME NEW S, NEW s \in Seq(S), Distinct(s), NEW e
  PROVE  LET t == Without(s, e)
         IN /\ t \in Seq(S) /\ Len(t) <= Len(s) /\ Distinct(t)
            /\ Elements(t) = Elements(s) \ {e}
<1>1. CASE e \notin Elements(s)
  <2>1. Without(s, e) = s
    BY <1>1 DEF Without
  <2>2. Elements(s) = Elements(s) \ {e} /\ Len(s) <= Len(s)
    BY <1>1
  <2>3. QED BY <2>1, <2>2
<1>2. CASE e \in Elements(s)
  <2>1. PICK i \in DOMAIN s : i = (CHOOSE k \in DOMAIN s : s[k] = e) /\ s[i] = e
    BY <1>2 DEF Elements
  <2>2. Without(s, e) = TakeOut(s, i) /\ i \in 1 .. Len(s)
    BY <1>2, <2>1 DEF Without
  <2>3. QED BY <2>1, <2>2, OneLeft
<1>3. QED BY <1>1, <1>2

-----------------------------------------------------------------------------
(* AssetPage *)

AssetInv == Asset!TypeOK /\ Asset!OneOrderPerRecommendation

LEMMA AssetInit == Asset!PageAssumption /\ Asset!Init => AssetInv
  BY DEF Asset!PageAssumption, Asset!Init, AssetInv, Asset!TypeOK, Asset!OneOrderPerRecommendation

\* An order that is raised by hand, or an issue, is counted for its asset: nothing that the
\* decisions are about changes.
LEMMA AssetForms ==
  ASSUME Asset!PageAssumption, AssetInv, Asset!HandleCreateWoSubmit \/ Asset!HandleReportIssueSubmit
  PROVE  AssetInv'
<1> USE DEF Asset!PageAssumption, AssetInv, Asset!TypeOK, Asset!OneOrderPerRecommendation
<1>1. CASE Asset!HandleCreateWoSubmit
  <2> USE <1>1 DEF Asset!HandleCreateWoSubmit
  <2>1. view.address \in Assets /\ view.orders[view.address] + 1 \in 0 .. MaxOrders
    OBVIOUS
  <2>2. view'.orders = [view.orders EXCEPT ![view.address] = @ + 1]
    OBVIOUS
  <2>3. view'.orders \in [Assets -> 0 .. MaxOrders]
    BY <2>1, <2>2
  <2>4. view' = [view EXCEPT !.orders = view'.orders, !.titled = FALSE, !.modal = None]
    BY <2>2
  <2> HIDE <1>1 DEF Asset!HandleCreateWoSubmit
  <2>5. QED BY <2>3, <2>4
<1>2. CASE Asset!HandleReportIssueSubmit
  <2> USE <1>2 DEF Asset!HandleReportIssueSubmit
  <2>1. view.address \in Assets /\ view.issues[view.address] + 1 \in 0 .. MaxOrders
    OBVIOUS
  <2>2. view'.issues = [view.issues EXCEPT ![view.address] = @ + 1]
    OBVIOUS
  <2>3. view'.issues \in [Assets -> 0 .. MaxOrders]
    BY <2>1, <2>2
  <2>4. view' = [view EXCEPT !.issues = view'.issues, !.titled = FALSE, !.modal = None]
    BY <2>2
  <2> HIDE <1>2 DEF Asset!HandleReportIssueSubmit
  <2>5. QED BY <2>3, <2>4
<1>3. QED BY <1>1, <1>2

LEMMA AssetDecides ==
  ASSUME Asset!PageAssumption, AssetInv,
         NEW action \in {"accepted", "dismissed"}, Asset!HandlePredictionAction(action)
  PROVE  AssetInv'
<1> USE DEF Asset!PageAssumption, AssetInv, Asset!TypeOK, Asset!OneOrderPerRecommendation
<1>1. view.address \in Assets /\ view.dispatched[view.address] = None
  BY DEF Asset!HandlePredictionAction, Asset!CanDecide
<1>2. CASE action = "accepted"
  <2>1. view.orders[view.address] + 1 \in 0 .. MaxOrders /\ view.recommended[view.address] = 0
    BY <1>1, <1>2 DEF Asset!HandlePredictionAction
  <2>2. /\ view'.dispatched = [view.dispatched EXCEPT ![view.address] = "accepted"]
        /\ view'.orders = [view.orders EXCEPT ![view.address] = @ + 1]
        /\ view'.recommended = [view.recommended EXCEPT ![view.address] = @ + 1]
    BY <1>1, <1>2 DEF Asset!HandlePredictionAction
  <2>3. view' = [view EXCEPT !.dispatched = view'.dispatched, !.orders = view'.orders,
                             !.recommended = view'.recommended]
    BY <1>2, <2>2 DEF Asset!HandlePredictionAction
  <2>4. /\ view'.dispatched \in [Assets -> {None, "accepted", "dismissed"}]
        /\ view'.orders \in [Assets -> 0 .. MaxOrders]
        /\ view'.recommended \in [Assets -> Nat]
    BY <1>1, <2>1, <2>2
  <2>5. Asset!TypeOK'
    BY <2>3, <2>4
  <2>6. Asset!OneOrderPerRecommendation'
    BY <1>1, <2>1, <2>2
  <2>7. QED BY <2>5, <2>6
<1>3. CASE action = "dismissed"
  <2>1. view' = [view EXCEPT !.dispatched = [@ EXCEPT ![view.address] = "dismissed"]]
    BY <1>1, <1>3 DEF Asset!HandlePredictionAction
  <2>2. QED BY <1>1, <2>1
<1>4. QED BY <1>2, <1>3

LEMMA AssetKeeps ==
  ASSUME Asset!PageAssumption, AssetInv, [Asset!Next]_<<view, calls, server>>
  PROVE  AssetInv'
<1> USE DEF Asset!PageAssumption, AssetInv, Asset!TypeOK, Asset!OneOrderPerRecommendation
<1>1. ASSUME NEW a \in Assets \cup {None}, Asset!Open(a) PROVE AssetInv'
  BY <1>1 DEF Asset!Open
<1>2. ASSUME NEW modal \in {"order", "issue"}, Asset!OpenModal(modal) PROVE AssetInv'
  BY <1>2 DEF Asset!OpenModal
<1>3. CASE Asset!Type \/ Asset!CloseModal
  BY <1>3 DEF Asset!Type, Asset!CloseModal
<1>4. CASE Asset!HandleCreateWoSubmit \/ Asset!HandleReportIssueSubmit
  BY <1>4, AssetForms
<1>5. ASSUME NEW action \in {"accepted", "dismissed"}, Asset!HandlePredictionAction(action)
      PROVE  AssetInv'
  BY <1>5, AssetDecides
<1>6. CASE UNCHANGED <<view, calls, server>>
  BY <1>6
<1>7. QED BY <1>1, <1>2, <1>3, <1>4, <1>5, <1>6 DEF Asset!Next

-----------------------------------------------------------------------------
(* MaintenanceDesk *)

LEMMA DeskMounted == Init /\ route = "planning" => Desk!Init
  BY DEF Init, Mounted

LEMMA DeskStep == [Next]_vars /\ route = "planning" => [Desk!Next]_<<view, calls, server>>
  BY DEF Next, vars

DeskInv == Desk!TypeOK /\ Desk!OneOrderPerPrediction

LEMMA DeskInit == Desk!DeskAssumption /\ Desk!Init => DeskInv
<1> SUFFICES ASSUME Desk!DeskAssumption, Desk!Init PROVE DeskInv
  OBVIOUS
<1>1. 0 \in 0 .. MaxOrders
  BY DEF Desk!DeskAssumption
<1>2. view \in Desk!Hooks /\ ~view.confirming
  BY DEF Desk!Init, Desk!Tab, Desk!Tabs, Desk!Hooks
<1>3. server \in Desk!Stored
  BY <1>1 DEF Desk!Init, Desk!Stored
<1>4. Desk!OneOrderPerPrediction
  BY DEF Desk!Init, Desk!OneOrderPerPrediction, Desk!Sources
<1>5. QED BY <1>2, <1>3, <1>4 DEF DeskInv, Desk!TypeOK, Desk!Init

\* Steps of the hooks alone.
LEMMA DeskHooks ==
  ASSUME DeskInv, view' \in Desk!Hooks, view'.confirming => view'.rca # None,
         UNCHANGED <<calls, server>>
  PROVE  DeskInv'
  BY DEF DeskInv, Desk!TypeOK, Desk!OneOrderPerPrediction

\* An analysis: its orders are counted for the failure and the action, never for a prediction.
LEMMA DeskRca ==
  ASSUME Desk!DeskAssumption, DeskInv,
         \/ \E f \in Failures : Desk!StartRca(f)
         \/ \E a \in Actions : Desk!ConvertToWorkOrder(a)
         \/ Desk!LeaveRca \/ Desk!AskToPublish \/ Desk!PublishRca
  PROVE  DeskInv'
<1>0. view \in Desk!Hooks /\ (view.confirming => view.rca # None) /\ server \in Desk!Stored
  BY DEF DeskInv, Desk!TypeOK
<1>1. ASSUME NEW a \in Actions, Desk!ConvertToWorkOrder(a) PROVE DeskInv'
  <2> DEFINE source == <<view.rca, a>>
  <2>1. source \in Desk!Sources \ Predictions
    BY <1>0, <1>1 DEF Desk!ConvertToWorkOrder, Desk!Sources, Desk!DeskAssumption, Desk!Hooks
  <2>2. server.orders[source] + 1 \in 0 .. MaxOrders
    BY <1>0, <1>1, <2>1 DEF Desk!ConvertToWorkOrder, Desk!DeskAssumption, Desk!Stored
  <2>3. /\ server' = [server EXCEPT !.orders = server'.orders]
        /\ server'.orders = [server.orders EXCEPT ![source] = @ + 1]
    BY <1>0, <1>1 DEF Desk!ConvertToWorkOrder, Desk!Stored
  <2>4. view' \in Desk!Hooks /\ view'.confirming = view.confirming /\ view'.rca = view.rca
    BY <1>0, <1>1 DEF Desk!ConvertToWorkOrder, Desk!Hooks
  <2> HIDE DEF source
  <2>5. server'.orders \in [Desk!Sources -> 0 .. MaxOrders]
    BY <1>0, <2>1, <2>2, <2>3 DEF Desk!Stored
  <2>6. server' \in Desk!Stored /\ server'.predictions = server.predictions
    BY <1>0, <2>3, <2>5 DEF Desk!Stored
  <2>7. \A p \in Predictions : server'.orders[p] = server.orders[p]
    BY <1>0, <2>1, <2>3 DEF Desk!Stored, Desk!Sources
  <2>8. calls' = calls
    BY <1>1 DEF Desk!ConvertToWorkOrder
  <2>9. QED
    BY <1>0, <2>4, <2>6, <2>7, <2>8 DEF DeskInv, Desk!TypeOK, Desk!OneOrderPerPrediction
<1>2. ASSUME NEW f \in Failures, Desk!StartRca(f) PROVE DeskInv'
  <2>1. view' \in Desk!Hooks /\ view'.rca = f
    BY <1>0, <1>2 DEF Desk!StartRca, Desk!Hooks
  <2>2. f # None
    BY DEF Desk!DeskAssumption
  <2>3. QED BY <1>2, <2>1, <2>2, DeskHooks DEF Desk!StartRca
<1>3. CASE Desk!LeaveRca
  <2>1. view' \in Desk!Hooks /\ ~view'.confirming
    BY <1>0, <1>3 DEF Desk!LeaveRca, Desk!Tab, Desk!Tabs, Desk!Hooks
  <2>2. QED BY <1>3, <2>1, DeskHooks DEF Desk!LeaveRca
<1>4. CASE Desk!AskToPublish
  <2>1. view' \in Desk!Hooks /\ view'.rca = view.rca
    BY <1>0, <1>4 DEF Desk!AskToPublish, Desk!Hooks
  <2>2. QED BY <1>4, <2>1, DeskHooks DEF Desk!AskToPublish
<1>5. CASE Desk!PublishRca
  <2>1. view' \in Desk!Hooks /\ ~view'.confirming /\ calls' = calls
    BY <1>0, <1>5 DEF Desk!PublishRca, Desk!Hooks
  <2>2. view.rca \in Failures
    BY <1>0, <1>5 DEF Desk!PublishRca, Desk!Hooks
  <2>3. server' = [server EXCEPT !.published = @ \cup {view.rca}]
    BY <1>5 DEF Desk!PublishRca
  <2>4. /\ server' \in Desk!Stored
        /\ server'.predictions = server.predictions /\ server'.orders = server.orders
    BY <1>0, <2>2, <2>3 DEF Desk!Stored
  <2>5. QED BY <2>1, <2>4 DEF DeskInv, Desk!TypeOK, Desk!OneOrderPerPrediction
<1>6. QED BY <1>1, <1>2, <1>3, <1>4, <1>5

LEMMA DeskPredictions ==
  ASSUME Desk!DeskAssumption, DeskInv, NEW p \in Predictions,
         \/ Desk!OpenSnooze(p) \/ Desk!OpenDismiss(p) \/ Desk!Snooze(p)
         \/ Desk!Dismiss(p) \/ Desk!AcceptPrediction(p)
  PROVE  DeskInv'
<1>0. view \in Desk!Hooks /\ (view.confirming => view.rca # None) /\ server \in Desk!Stored
  BY DEF DeskInv, Desk!TypeOK
<1>1. ASSUME NEW snoozing \in Predictions \cup {None}, NEW dismissing \in Predictions \cup {None},
             view' = [view EXCEPT !.snoozing = snoozing, !.dismissing = dismissing]
      PROVE  view' \in Desk!Hooks /\ (view'.confirming => view'.rca # None)
  BY <1>0, <1>1 DEF Desk!Hooks
<1>2. view = [view EXCEPT !.snoozing = view.snoozing, !.dismissing = view.dismissing]
      /\ view.snoozing \in Predictions \cup {None} /\ view.dismissing \in Predictions \cup {None}
  BY <1>0 DEF Desk!Hooks
<1>3. CASE Desk!OpenSnooze(p) \/ Desk!OpenDismiss(p)
  <2>1. \E snoozing, dismissing \in Predictions \cup {None} :
          view' = [view EXCEPT !.snoozing = snoozing, !.dismissing = dismissing]
    <3>1. CASE Desk!OpenSnooze(p)
      <4>1. view' = [view EXCEPT !.snoozing = IF view.snoozing = p THEN None ELSE p, !.dismissing = None]
        BY <1>0, <3>1 DEF Desk!OpenSnooze, Desk!Hooks
      <4>2. QED BY <4>1
    <3>2. CASE Desk!OpenDismiss(p)
      <4>1. view' = [view EXCEPT !.snoozing = None, !.dismissing = IF view.dismissing = p THEN None ELSE p]
        BY <1>0, <3>2 DEF Desk!OpenDismiss, Desk!Hooks
      <4>2. QED BY <4>1
    <3>3. QED BY <1>3, <3>1, <3>2
  <2>2. QED BY <1>1, <1>3, <2>1, DeskHooks DEF Desk!OpenSnooze, Desk!OpenDismiss
<1>4. CASE Desk!Snooze(p) \/ Desk!Dismiss(p)
  <2>1. \E snoozing, dismissing \in Predictions \cup {None} :
          view' = [view EXCEPT !.snoozing = snoozing, !.dismissing = dismissing]
    <3>1. CASE Desk!Snooze(p)
      <4>1. view' = [view EXCEPT !.snoozing = None, !.dismissing = view.dismissing]
        BY <1>0, <3>1 DEF Desk!Snooze, Desk!Hooks
      <4>2. QED BY <1>2, <4>1
    <3>2. CASE Desk!Dismiss(p)
      <4>1. view' = [view EXCEPT !.snoozing = view.snoozing, !.dismissing = None]
        BY <1>0, <3>2 DEF Desk!Dismiss, Desk!Hooks
      <4>2. QED BY <1>2, <4>1
    <3>3. QED BY <1>4, <3>1, <3>2
  <2>2. PICK status \in {"snoozed", "dismissed"} : server' = [server EXCEPT !.predictions[p] = status]
    BY <1>4 DEF Desk!Snooze, Desk!Dismiss
  <2>3. /\ server'.orders = server.orders /\ server' \in Desk!Stored
        /\ server'.predictions = [server.predictions EXCEPT ![p] = status]
    BY <1>0, <2>2 DEF Desk!Stored
  <2>4. server.predictions[p] = "active" /\ calls' = calls
    BY <1>4 DEF Desk!Snooze, Desk!Dismiss, Desk!Active
  <2>5. Desk!OneOrderPerPrediction'
    BY <1>0, <2>3, <2>4 DEF DeskInv, Desk!OneOrderPerPrediction, Desk!Stored
  <2>6. QED BY <1>1, <2>1, <2>3, <2>4, <2>5 DEF DeskInv, Desk!TypeOK
<1>5. CASE Desk!AcceptPrediction(p)
  <2>1. p \in Desk!Sources /\ server.orders[p] = 0 /\ 1 \in 0 .. MaxOrders
    BY <1>5 DEF Desk!AcceptPrediction, Desk!Active, Desk!Sources, Desk!DeskAssumption, DeskInv,
                Desk!OneOrderPerPrediction
  <2>2. /\ server' = [server EXCEPT !.orders = server'.orders, !.predictions = server'.predictions]
        /\ server'.orders = [server.orders EXCEPT ![p] = @ + 1]
        /\ server'.predictions = [server.predictions EXCEPT ![p] = "accepted"]
        /\ view' = view /\ calls' = calls
    BY <1>0, <1>5 DEF Desk!AcceptPrediction, Desk!Stored
  <2>3. /\ server'.orders \in [Desk!Sources -> 0 .. MaxOrders]
        /\ server'.predictions \in [Predictions -> {"active", "snoozed", "dismissed", "accepted"}]
    BY <1>0, <2>1, <2>2 DEF Desk!Stored
  <2>4. server' \in Desk!Stored
    BY <1>0, <2>2, <2>3 DEF Desk!Stored
  <2>5. Predictions \subseteq Desk!Sources
    BY DEF Desk!Sources
  <2>6. Desk!OneOrderPerPrediction'
    BY <1>0, <2>1, <2>2, <2>5 DEF DeskInv, Desk!OneOrderPerPrediction, Desk!Stored
  <2>7. QED BY <2>2, <2>4, <2>6 DEF DeskInv, Desk!TypeOK
<1>6. QED BY <1>3, <1>4, <1>5

LEMMA DeskSchedule ==
  ASSUME Desk!DeskAssumption, DeskInv,
         \/ \E tab \in Desk!Tabs : Desk!Switch(tab)
         \/ \E j \in PmJobs : Desk!SelectEvent(j)
         \/ \E d \in Dates : Desk!PickDate(d)
         \/ Desk!Reschedule \/ Desk!Optimize \/ \E c \in calls : Desk!Optimized(c)
  PROVE  DeskInv'
<1>0. /\ view \in Desk!Hooks /\ (view.confirming => view.rca # None) /\ server \in Desk!Stored
      /\ calls \subseteq Desk!Timeouts
  BY DEF DeskInv, Desk!TypeOK
<1>1. ASSUME view' \in Desk!Hooks, view'.confirming => view'.rca # None, calls' \subseteq Desk!Timeouts,
             NEW schedule \in [PmJobs -> Dates], server' = [server EXCEPT !.schedule = schedule]
      PROVE  DeskInv'
  <2>1. /\ server' \in Desk!Stored
        /\ server'.predictions = server.predictions /\ server'.orders = server.orders
    BY <1>0, <1>1 DEF Desk!Stored
  <2>2. QED BY <1>1, <2>1 DEF DeskInv, Desk!TypeOK, Desk!OneOrderPerPrediction
<1>2. server.schedule \in [PmJobs -> Dates] /\ server = [server EXCEPT !.schedule = server.schedule]
  BY <1>0 DEF Desk!Stored
<1>3. ASSUME NEW tab \in Desk!Tabs, Desk!Switch(tab) PROVE DeskInv'
  <2>1. view' \in Desk!Hooks /\ ~view'.confirming
    BY <1>0, <1>3 DEF Desk!Switch, Desk!Tab, Desk!Hooks
  <2>2. calls' \subseteq Desk!Timeouts /\ server' = server
    BY <1>0, <1>3 DEF Desk!Switch, Desk!Timeouts
  <2>3. QED BY <1>1, <1>2, <2>1, <2>2
<1>4. ASSUME NEW j \in PmJobs, Desk!SelectEvent(j) PROVE DeskInv'
  <2>1. view' \in Desk!Hooks /\ view'.confirming = view.confirming /\ view'.rca = view.rca
    BY <1>0, <1>4 DEF Desk!SelectEvent, Desk!Hooks
  <2>2. QED BY <1>0, <1>4, <2>1, DeskHooks DEF Desk!SelectEvent
<1>5. ASSUME NEW d \in Dates, Desk!PickDate(d) PROVE DeskInv'
  <2>1. view' \in Desk!Hooks /\ view'.confirming = view.confirming /\ view'.rca = view.rca
    BY <1>0, <1>5 DEF Desk!PickDate, Desk!Hooks
  <2>2. QED BY <1>0, <1>5, <2>1, DeskHooks DEF Desk!PickDate
<1>6. CASE Desk!Reschedule
  <2>1. view.selected \in PmJobs /\ view.date \in Dates
    BY <1>0, <1>6 DEF Desk!Reschedule, Desk!Hooks
  <2>2. server' = [server EXCEPT !.schedule = [server.schedule EXCEPT ![view.selected] = view.date]]
    BY <1>0, <1>6 DEF Desk!Reschedule, Desk!Stored
  <2>3. [server.schedule EXCEPT ![view.selected] = view.date] \in [PmJobs -> Dates]
    BY <1>2, <2>1
  <2>4. view' = view /\ calls' = calls
    BY <1>6 DEF Desk!Reschedule
  <2>5. QED BY <1>0, <1>1, <2>2, <2>3, <2>4
<1>7. CASE Desk!Optimize
  <2>1. view' \in Desk!Hooks /\ view'.confirming = view.confirming /\ view'.rca = view.rca
    BY <1>0, <1>7 DEF Desk!Optimize, Desk!Hooks
  <2>2. [schedule |-> server.schedule, mine |-> TRUE] \in Desk!Timeouts
    BY <1>2 DEF Desk!Timeouts
  <2>3. calls' \subseteq Desk!Timeouts /\ server' = server
    BY <1>0, <1>7, <2>2 DEF Desk!Optimize
  <2>4. QED BY <1>0, <1>1, <1>2, <2>1, <2>3
<1>8. ASSUME NEW c \in calls, Desk!Optimized(c) PROVE DeskInv'
  <2> DEFINE schedule == [j \in PmJobs |-> IF Proposed[j] = None THEN c.schedule[j] ELSE Proposed[j]]
  <2>1. schedule \in [PmJobs -> Dates]
    BY <1>0 DEF Desk!DeskAssumption, Desk!Timeouts
  <2>2. server' = [server EXCEPT !.schedule = schedule] /\ calls' \subseteq Desk!Timeouts
    BY <1>0, <1>8 DEF Desk!Optimized
  <2>3. view' \in Desk!Hooks /\ view'.confirming = view.confirming /\ view'.rca = view.rca
    BY <1>0, <1>8 DEF Desk!Optimized, Desk!Hooks
  <2> HIDE DEF schedule
  <2>4. QED BY <1>0, <1>1, <2>1, <2>2, <2>3
<1>9. QED BY <1>3, <1>4, <1>5, <1>6, <1>7, <1>8

LEMMA DeskKeeps ==
  ASSUME Desk!DeskAssumption, DeskInv, [Desk!Next]_<<view, calls, server>>
  PROVE  DeskInv'
<1>1. CASE UNCHANGED <<view, calls, server>>
  BY <1>1 DEF DeskInv, Desk!TypeOK, Desk!OneOrderPerPrediction
<1>2. ASSUME NEW p \in Predictions,
             \/ Desk!OpenSnooze(p) \/ Desk!OpenDismiss(p) \/ Desk!Snooze(p)
             \/ Desk!Dismiss(p) \/ Desk!AcceptPrediction(p)
      PROVE  DeskInv'
  BY <1>2, DeskPredictions
<1>3. QED BY <1>1, <1>2, DeskRca, DeskSchedule DEF Desk!Next

-----------------------------------------------------------------------------
(* Compliance *)

LEMMA ComplianceMounted == Init /\ route = "compliance" => Regulations!Init
  BY DEF Init, Mounted

LEMMA ComplianceStep ==
  [Next]_vars /\ route = "compliance" => [Regulations!Next]_<<view, calls, server>>
  BY DEF Next, vars

\* The hub's copy of the gaps is the stored one: the only writes are handleUpdateGaps' and the
\* remediation's, of both at once.
HubRecord(v) ==
  v = [tab |-> v.tab, reg |-> v.reg, gap |-> v.gap, drill |-> v.drill, panel |-> v.panel,
       regs |-> v.regs, gaps |-> v.gaps, packages |-> v.packages]

StoreRecord(s) ==
  s = [regs |-> s.regs, gaps |-> s.gaps, packages |-> s.packages, orders |-> s.orders]

GapsInv ==
  /\ HubRecord(view) /\ StoreRecord(server)
  /\ view.gaps = server.gaps
  /\ server.gaps \in [Gaps -> Regulations!Statuses]
  /\ server.orders \in [Gaps -> Nat]
  /\ Regulations!RemediationDispatched

LEMMA GapsInit == Regulations!Init => GapsInv
  BY DEF Regulations!Init, Regulations!Hub, Regulations!Stored, Regulations!OpenGaps,
         Regulations!Statuses, GapsInv, HubRecord, StoreRecord, Regulations!RemediationDispatched

\* Steps that touch neither the gaps nor their orders.
LEMMA OtherPanels ==
  ASSUME GapsInv, HubRecord(view'), StoreRecord(server'),
         view'.gaps = view.gaps, server'.gaps = server.gaps, server'.orders = server.orders
  PROVE  GapsInv'
  BY DEF GapsInv, Regulations!RemediationDispatched, HubRecord, StoreRecord

LEMMA HubRouted ==
  ASSUME GapsInv, NEW tab, NEW reg, NEW gap, NEW drill,
         Regulations!Route(tab, reg, gap, [view EXCEPT !.drill = drill])
  PROVE  GapsInv'
<1>1. HubRecord(view') /\ view'.gaps = view.gaps /\ server' = server
  BY DEF GapsInv, HubRecord, Regulations!Route
<1>2. QED BY <1>1, OtherPanels DEF GapsInv, StoreRecord

LEMMA HubRoutes ==
  ASSUME GapsInv,
         \/ \E t \in Regulations!Tabs : Regulations!SwitchTab(t)
         \/ \E r : Regulations!OpenRegulation(r)
         \/ \E g : Regulations!OpenGap(g)
         \/ \E g : Regulations!OpenRow(g)
         \/ \E d \in BOOLEAN : Regulations!HandleHeatmapDrilldown(d)
         \/ Regulations!LeaveGap
  PROVE  GapsInv'
<1>1. view = [view EXCEPT !.drill = view.drill]
  BY DEF GapsInv, HubRecord
<1>2. \A tab, reg, gap : Regulations!Route(tab, reg, gap, view) => GapsInv'
  BY <1>1, HubRouted
<1>3. ASSUME NEW t \in Regulations!Tabs, Regulations!SwitchTab(t) PROVE GapsInv'
  BY <1>2, <1>3, HubRouted DEF Regulations!SwitchTab
<1>4. CASE \E r : Regulations!OpenRegulation(r)
  BY <1>2, <1>4 DEF Regulations!OpenRegulation
<1>5. CASE \E g : Regulations!OpenGap(g) \/ Regulations!OpenRow(g)
  BY <1>2, <1>5 DEF Regulations!OpenGap, Regulations!OpenRow
<1>6. ASSUME NEW d \in BOOLEAN, Regulations!HandleHeatmapDrilldown(d) PROVE GapsInv'
  BY <1>6, HubRouted DEF Regulations!HandleHeatmapDrilldown
<1>7. CASE Regulations!LeaveGap
  BY <1>2, <1>7 DEF Regulations!LeaveGap
<1>8. QED BY <1>3, <1>4, <1>5, <1>6, <1>7

\* Hooks of a panel, the intervals started there, and this screen opened again.
LEMMA PanelHooks ==
  ASSUME GapsInv, NEW panel, Regulations!Hooks(panel), UNCHANGED server
  PROVE  GapsInv'
<1>1. HubRecord(view') /\ view'.gaps = view.gaps
  BY DEF GapsInv, HubRecord, Regulations!Hooks
<1>2. QED BY <1>1, OtherPanels DEF GapsInv, StoreRecord

LEMMA PanelSteps ==
  ASSUME GapsInv,
         \/ Regulations!HandleAcknowledgeAlert \/ Regulations!HandleStartImport
         \/ Regulations!CancelImport \/ Regulations!HandleExecuteImport
         \/ \E s : Regulations!FilterStatus(s)
         \/ \E form : Regulations!ToggleForm(form)
         \/ Regulations!Type \/ Regulations!HandleStartCompilation
         \/ Regulations!CloseWizard \/ Regulations!HandleRunCompilation
  PROVE  GapsInv'
<1>1. UNCHANGED server /\ \E panel : Regulations!Hooks(panel)
  BY DEF Regulations!HandleAcknowledgeAlert, Regulations!HandleStartImport,
         Regulations!CancelImport, Regulations!HandleExecuteImport, Regulations!FilterStatus,
         Regulations!ToggleForm, Regulations!Type, Regulations!HandleStartCompilation,
         Regulations!CloseWizard, Regulations!HandleRunCompilation, Regulations!Local
<1>2. QED BY <1>1, PanelHooks

LEMMA RegistrySteps ==
  ASSUME GapsInv,
         \/ Regulations!Reopen \/ Regulations!LeaveRegulation
         \/ \E r : Regulations!SelectClause(r)
         \/ \E s : Regulations!HandleUpdateMappingStatus(s)
         \/ \E c : Regulations!Imported(c) \/ Regulations!Compiled(c)
  PROVE  GapsInv'
<1> USE DEF GapsInv, HubRecord, StoreRecord
<1>1. CASE Regulations!Reopen
  BY <1>1, OtherPanels DEF Regulations!Reopen, Regulations!Hub
<1>2. CASE Regulations!LeaveRegulation \/ \E r : Regulations!SelectClause(r)
  <2>1. HubRecord(view') /\ view'.gaps = view.gaps /\ server' = server
    BY <1>2 DEF Regulations!LeaveRegulation, Regulations!SelectClause
  <2>2. QED BY <2>1, OtherPanels
<1>3. ASSUME NEW s, Regulations!HandleUpdateMappingStatus(s) PROVE GapsInv'
  <2>1. /\ HubRecord(view') /\ view'.gaps = view.gaps /\ StoreRecord(server')
        /\ server'.gaps = server.gaps /\ server'.orders = server.orders
    BY <1>3 DEF Regulations!HandleUpdateMappingStatus
  <2>2. QED BY <2>1, OtherPanels
<1>4. ASSUME NEW c, Regulations!Imported(c) PROVE GapsInv'
  <2>1. /\ StoreRecord(server') /\ server'.gaps = server.gaps /\ server'.orders = server.orders
    BY <1>4 DEF Regulations!Imported
  <2>2. HubRecord(view') /\ view'.gaps = view.gaps
    BY <1>4 DEF Regulations!Imported
  <2>3. QED BY <2>1, <2>2, OtherPanels
<1>5. ASSUME NEW c, Regulations!Compiled(c) PROVE GapsInv'
  <2>1. /\ HubRecord(view') /\ view'.gaps = view.gaps /\ StoreRecord(server')
        /\ server'.gaps = server.gaps /\ server'.orders = server.orders
    BY <1>5 DEF Regulations!Compiled
  <2>2. QED BY <2>1, OtherPanels
<1>6. QED BY <1>1, <1>2, <1>3, <1>4, <1>5

\* The gap of the address gets a status, and an order with the status "Remediating".
LEMMA GapHandlers ==
  ASSUME GapsInv,
         \/ Regulations!HandleCreateRemediation \/ Regulations!HandleAcceptRiskSubmit
         \/ Regulations!HandleAssignOwnerSubmit
  PROVE  GapsInv'
<1>0. /\ HubRecord(view) /\ StoreRecord(server) /\ view.gaps = server.gaps
      /\ server.gaps \in [Gaps -> Regulations!Statuses] /\ server.orders \in [Gaps -> Nat]
      /\ \A g \in Gaps : server.gaps[g] = "Remediating" => server.orders[g] > 0
  BY DEF GapsInv, Regulations!RemediationDispatched
<1>1. CASE Regulations!HandleCreateRemediation
  <2>1. view.gap \in Gaps
    BY <1>1 DEF Regulations!HandleCreateRemediation, Regulations!Detail
  <2>2. /\ HubRecord(view') /\ StoreRecord(server') /\ view'.gaps = server'.gaps
        /\ server'.gaps = [server.gaps EXCEPT ![view.gap] = "Remediating"]
        /\ server'.orders = [server.orders EXCEPT ![view.gap] = @ + 1]
    BY <1>0, <1>1 DEF Regulations!HandleCreateRemediation, HubRecord, StoreRecord
  <2>3. server.orders[view.gap] + 1 \in Nat /\ server.orders[view.gap] + 1 > 0
    BY <1>0, <2>1
  <2>4. /\ server'.orders \in [Gaps -> Nat]
        /\ \A g \in Gaps : server'.gaps[g] = "Remediating" => server'.orders[g] > 0
    BY <1>0, <2>1, <2>2, <2>3
  <2>5. server'.gaps \in [Gaps -> Regulations!Statuses]
    BY <1>0, <2>1, <2>2 DEF Regulations!Statuses
  <2>6. QED BY <2>2, <2>4, <2>5 DEF GapsInv, Regulations!RemediationDispatched
<1>2. ASSUME NEW status \in {"Risk Accepted", view.gaps[view.gap]}, NEW panel,
             Regulations!Detail, Regulations!UpdateGap(status, panel)
      PROVE  GapsInv'
  <2>1. view.gap \in Gaps
    BY <1>2 DEF Regulations!Detail
  <2>2. /\ HubRecord(view') /\ StoreRecord(server') /\ view'.gaps = server'.gaps
        /\ server'.gaps = [server.gaps EXCEPT ![view.gap] = status]
        /\ server'.orders = server.orders
    BY <1>0, <1>2 DEF Regulations!UpdateGap, HubRecord, StoreRecord
  <2>3. \A g \in Gaps : server'.gaps[g] = "Remediating" => server'.orders[g] > 0
    BY <1>0, <2>1, <2>2
  <2>4. status \in Regulations!Statuses
    BY <1>0, <2>1 DEF Regulations!Statuses
  <2>5. server'.gaps \in [Gaps -> Regulations!Statuses]
    BY <1>0, <2>1, <2>2, <2>4
  <2>6. server'.orders \in [Gaps -> Nat]
    BY <1>0, <2>2
  <2>7. QED BY <2>2, <2>3, <2>5, <2>6 DEF GapsInv, Regulations!RemediationDispatched
<1>3. CASE Regulations!HandleAcceptRiskSubmit \/ Regulations!HandleAssignOwnerSubmit
  BY <1>2, <1>3 DEF Regulations!HandleAcceptRiskSubmit, Regulations!HandleAssignOwnerSubmit
<1>4. QED BY <1>1, <1>3

LEMMA GapsKeep ==
  ASSUME GapsInv, [Regulations!Next]_<<view, calls, server>>
  PROVE  GapsInv'
<1>1. CASE UNCHANGED <<view, calls, server>>
  BY <1>1 DEF GapsInv, HubRecord, StoreRecord, Regulations!RemediationDispatched
<1>2. QED BY <1>1, HubRoutes, PanelSteps, RegistrySteps, GapHandlers DEF Regulations!Next

-----------------------------------------------------------------------------
\* A prediction or a recommendation raises one order if it is accepted and none otherwise, and
\* a gap that is being remediated has one, whichever assets, tabs and gaps are visited in
\* between, however many orders are raised by hand and whatever the intervals write back.
THEOREM OrdersMatch == Spec => []OrdersMatchDecisions
<1> DEFINE Inv == /\ route = "asset" => AssetInv
                  /\ route = "planning" => DeskInv
                  /\ route = "compliance" => GapsInv
<1>1. Init => Inv
  BY ConsoleAssumption, AssetMounted, AssetInit, DeskMounted, DeskInit, ComplianceMounted, GapsInit
<1>2. Inv /\ [Next]_vars => Inv'
  <2> SUFFICES ASSUME Inv, [Next]_vars PROVE Inv'
    OBVIOUS
  <2>1. route = "asset" => AssetInv'
    BY ConsoleAssumption, AssetStep, AssetKeeps
  <2>2. route = "planning" => DeskInv'
    BY ConsoleAssumption, DeskStep, DeskKeeps
  <2>3. route = "compliance" => GapsInv'
    BY ComplianceStep, GapsKeep
  <2>4. QED BY <2>1, <2>2, <2>3, RouteStays
<1>3. Inv => OrdersMatchDecisions
  BY DEF AssetInv, DeskInv, GapsInv, OrdersMatchDecisions
<1>4. QED BY <1>1, <1>2, <1>3, PTL DEF Spec

-----------------------------------------------------------------------------
(* KnowledgeGraph *)

LEMMA GraphMounted == Init /\ route = "knowledge-graph" => Graph!Init
  BY DEF Init, Mounted

LEMMA GraphStep ==
  [Next]_vars /\ route = "knowledge-graph" => [Graph!Next]_<<view, calls, server>>
  BY DEF Next, vars

CanvasRecord(v) ==
  v = [nodes |-> v.nodes, edges |-> v.edges, selected |-> v.selected, hidden |-> v.hidden,
       loading |-> v.loading, query |-> v.query, pending |-> v.pending,
       suggestions |-> v.suggestions]

CanvasInv == CanvasRecord(view) /\ Graph!EdgesHaveEnds

LEMMA CanvasInit == Graph!Init => CanvasInv
  BY DEF Graph!Init, CanvasInv, CanvasRecord, Graph!EdgesHaveEnds

\* A cluster has both ends of its edges, and so has what the canvas is started from.
LEMMA ClusterHasEnds ==
  /\ \A n : \A e \in Graph!Cluster(n).edges : {e[1], e[2]} \subseteq Graph!Cluster(n).nodes
  /\ \A seed \in Graph!SeedGraphs : \A e \in seed.edges : {e[1], e[2]} \subseteq seed.nodes
<1>1. \A n : \A e \in Graph!Cluster(n).edges : {e[1], e[2]} \subseteq Graph!Cluster(n).nodes
  BY DEF Graph!Cluster
<1>2. QED BY <1>1 DEF Graph!SeedGraphs

LEMMA CanvasKept ==
  ASSUME CanvasInv, CanvasRecord(view'), view'.nodes = view.nodes, view'.edges = view.edges
  PROVE  CanvasInv'
  BY DEF CanvasInv, Graph!EdgesHaveEnds, CanvasRecord

\* What a person does, the suggestions, and a call that fails leave the nodes and the edges.
LEMMA CanvasQuiet ==
  ASSUME CanvasInv,
         \/ \E n \in Nodes : \/ Graph!CheckDeepLink(n) \/ Graph!OnNodeClick(n)
                             \/ Graph!ExpandNeighbors(n) \/ Graph!HandleSelectSuggestion(n)
         \/ \E n \in Hideable : Graph!ToggleNodeType(n)
         \/ \E q \in Graph!Queries : Graph!Type(q)
         \/ Graph!CloseDrawer \/ Graph!HandleResetCanvas \/ Graph!Debounced
         \/ \E c \in calls : Graph!Searched(c) \/ Graph!Fails(c)
  PROVE  CanvasInv'
<1> USE DEF CanvasInv, CanvasRecord, Graph!Hooks, Graph!Local
<1>1. ASSUME NEW n, \/ Graph!CheckDeepLink(n) \/ Graph!OnNodeClick(n)
                    \/ Graph!ExpandNeighbors(n) \/ Graph!HandleSelectSuggestion(n)
      PROVE  CanvasRecord(view') /\ view'.nodes = view.nodes /\ view'.edges = view.edges
  BY <1>1 DEF Graph!CheckDeepLink, Graph!OnNodeClick, Graph!ExpandNeighbors,
              Graph!HandleSelectSuggestion
<1>2. ASSUME NEW n, Graph!ToggleNodeType(n) \/ Graph!Type(n)
      PROVE  CanvasRecord(view') /\ view'.nodes = view.nodes /\ view'.edges = view.edges
  BY <1>2 DEF Graph!ToggleNodeType, Graph!Type
<1>3. ASSUME Graph!CloseDrawer \/ Graph!HandleResetCanvas \/ Graph!Debounced
      PROVE  CanvasRecord(view') /\ view'.nodes = view.nodes /\ view'.edges = view.edges
  BY <1>3 DEF Graph!CloseDrawer, Graph!HandleResetCanvas, Graph!Debounced
<1>4. ASSUME NEW c, Graph!Searched(c) \/ Graph!Fails(c)
      PROVE  CanvasRecord(view') /\ view'.nodes = view.nodes /\ view'.edges = view.edges
  BY <1>4 DEF Graph!Searched, Graph!Fails
<1> HIDE DEF CanvasInv, CanvasRecord, Graph!Hooks, Graph!Local
<1>5. QED BY <1>1, <1>2, <1>3, <1>4, CanvasKept

LEMMA CanvasMerged ==
  ASSUME CanvasInv, NEW c, NEW selected, view' = Graph!Merged(c, selected)
  PROVE  CanvasInv'
<1> DEFINE nodes == view.nodes \cup Graph!Cluster(c.of).nodes
           edges == view.edges \cup
                    {e \in Graph!Cluster(c.of).edges : {e[1], e[2]} \subseteq nodes}
<1>1. view' = [view EXCEPT !.nodes = nodes, !.edges = edges, !.selected = selected,
                           !.loading = FALSE]
  BY DEF Graph!Merged, CanvasInv, CanvasRecord
<1>2. \A e \in edges : {e[1], e[2]} \subseteq nodes
  BY DEF CanvasInv, Graph!EdgesHaveEnds
<1> HIDE DEF nodes, edges
<1>3. CanvasRecord(view') /\ view'.nodes = nodes /\ view'.edges = edges
  BY <1>1 DEF CanvasInv, CanvasRecord
<1>4. QED BY <1>2, <1>3 DEF CanvasInv, Graph!EdgesHaveEnds

LEMMA CanvasKeeps ==
  ASSUME CanvasInv, [Graph!Next]_<<view, calls, server>>
  PROVE  CanvasInv'
<1>1. CASE UNCHANGED <<view, calls, server>>
  BY <1>1 DEF CanvasInv, CanvasRecord, Graph!EdgesHaveEnds
<1>2. ASSUME NEW c, Graph!Expanded(c) \/ Graph!Chosen(c) PROVE CanvasInv'
  BY <1>2, CanvasMerged DEF Graph!Expanded, Graph!Chosen, Graph!Hooks
<1>3. ASSUME NEW c, Graph!Seeded(c) \/ Graph!Linked(c) PROVE CanvasInv'
  <2>1. PICK canvas, selected :
          /\ view' = [view EXCEPT !.nodes = canvas.nodes, !.edges = canvas.edges,
                                  !.selected = selected, !.loading = FALSE]
          /\ \A e \in canvas.edges : {e[1], e[2]} \subseteq canvas.nodes
    <3>1. CASE Graph!Linked(c)
      BY <3>1, ClusterHasEnds DEF Graph!Linked, Graph!Hooks
    <3>2. CASE Graph!Seeded(c)
      <4>1. PICK seed \in Graph!SeedGraphs :
              view' = [view EXCEPT !.nodes = seed.nodes, !.edges = seed.edges, !.loading = FALSE]
        BY <3>2 DEF Graph!Seeded, Graph!Hooks
      <4>2. view' = [view EXCEPT !.nodes = seed.nodes, !.edges = seed.edges,
                                 !.selected = view.selected, !.loading = FALSE]
        BY <4>1 DEF CanvasInv, CanvasRecord
      <4>3. QED BY <4>2, ClusterHasEnds
    <3>3. QED BY <1>3, <3>1, <3>2
  <2>2. CanvasRecord(view') /\ view'.nodes = canvas.nodes /\ view'.edges = canvas.edges
    BY <2>1 DEF CanvasInv, CanvasRecord
  <2>3. QED BY <2>1, <2>2 DEF CanvasInv, Graph!EdgesHaveEnds
<1>4. QED BY <1>1, <1>2, <1>3, CanvasQuiet DEF Graph!Next

\* Every edge of the canvas has both of its ends on it, whatever graph is stored and in
\* whichever order expansions, deep links, choices and resets are made and answered.
THEOREM EdgesEnd == Spec => []EdgesHaveEnds
<1> DEFINE Inv == route = "knowledge-graph" => CanvasInv
<1>1. Init => Inv
  BY GraphMounted, CanvasInit
<1>2. Inv /\ [Next]_vars => Inv'
  BY RouteStays, GraphStep, CanvasKeeps
<1>3. Inv => EdgesHaveEnds
  BY DEF CanvasInv, EdgesHaveEnds
<1>4. QED BY <1>1, <1>2, <1>3, PTL DEF Spec

-----------------------------------------------------------------------------
(* Lists, and calls that are answered in the order they were made *)

\* An answer leaves the call made last where it is, unless it is the answer to that one.
LEMMA LastStays ==
  ASSUME NEW S, NEW list \in Seq(S), list # <<>>
  PROVE  /\ Tail(list) \in Seq(S)
         /\ \/ Tail(list) = <<>> /\ Head(list) = list[Len(list)]
            \/ Tail(list) # <<>> /\ Tail(list)[Len(Tail(list))] = list[Len(list)]
<1> DEFINE rest == Tail(list)
<1>1. Len(list) \in Nat \ {0} /\ Head(list) = list[1]
  BY EmptySeq
<1>2. rest \in Seq(S) /\ Len(rest) = Len(list) - 1 /\ \A i \in 1 .. Len(rest) : rest[i] = list[i + 1]
  BY HeadTailProperties
<1> HIDE DEF rest
<1>3. CASE Len(list) = 1
  <2>1. rest = <<>>
    BY <1>2, <1>3
  <2>2. QED BY <1>1, <1>2, <1>3, <2>1 DEF rest
<1>4. CASE Len(list) > 1
  <2>1. Len(rest) \in 1 .. Len(rest) /\ Len(rest) + 1 = Len(list)
    BY <1>1, <1>2, <1>4
  <2>2. rest # <<>> /\ rest[Len(rest)] = list[Len(list)]
    BY <1>2, <2>1
  <2>3. QED BY <1>2, <2>2 DEF rest
<1>5. QED BY <1>1, <1>3, <1>4

LEMMA LastAdded ==
  ASSUME NEW S, NEW list \in Seq(S), NEW c \in S
  PROVE  /\ Append(list, c) \in Seq(S) /\ Append(list, c) # <<>>
         /\ Append(list, c)[Len(Append(list, c))] = c
  OBVIOUS

\* An element in front of a list.
LEMMA InFront ==
  ASSUME NEW S, NEW list \in Seq(S), NEW s \in S
  PROVE  /\ <<s>> \o list \in Seq(S) /\ DOMAIN (<<s>> \o list) = 1 .. Len(list) + 1
         /\ \A i \in DOMAIN (<<s>> \o list) :
              (<<s>> \o list)[i] = s \/ \E j \in DOMAIN list : (<<s>> \o list)[i] = list[j]
         /\ (<<s>> \o list)[1] = s
         /\ \A j \in DOMAIN list : (<<s>> \o list)[j + 1] = list[j]
<1>1. <<s>> \in Seq(S) /\ Len(<<s>>) = 1 /\ <<s>>[1] = s
  OBVIOUS
<1> DEFINE one == <<s>>
<1> HIDE DEF one
<1>2. /\ one \o list \in Seq(S) /\ DOMAIN (one \o list) = 1 .. 1 + Len(list)
      /\ \A i \in 1 .. 1 + Len(list) : (one \o list)[i] = IF i <= 1 THEN one[i] ELSE list[i - 1]
  BY <1>1, ConcatProperties DEF one
<1>3. DOMAIN list = 1 .. Len(list) /\ Len(list) \in Nat
  OBVIOUS
<1>4. \A i \in 2 .. 1 + Len(list) : i - 1 \in DOMAIN list /\ (one \o list)[i] = list[i - 1]
  BY <1>2, <1>3
<1>5. (one \o list)[1] = s
  BY <1>1, <1>2, <1>3 DEF one
<1>6. \A i \in 1 .. 1 + Len(list) :
        (one \o list)[i] = s \/ \E j \in DOMAIN list : (one \o list)[i] = list[j]
  <2> SUFFICES ASSUME NEW i \in 1 .. 1 + Len(list)
               PROVE (one \o list)[i] = s \/ \E j \in DOMAIN list : (one \o list)[i] = list[j]
    OBVIOUS
  <2>1. i = 1 \/ i \in 2 .. 1 + Len(list)
    BY <1>3
  <2>2. QED BY <1>4, <1>5, <2>1
<1>7. \A j \in DOMAIN list : (one \o list)[j + 1] = list[j]
  <2> SUFFICES ASSUME NEW j \in DOMAIN list PROVE (one \o list)[j + 1] = list[j]
    OBVIOUS
  <2>1. j + 1 \in 2 .. 1 + Len(list) /\ (j + 1) - 1 = j
    BY <1>3
  <2>2. QED BY <1>4, <2>1
<1>8. QED BY <1>2, <1>3, <1>5, <1>6, <1>7 DEF one

Has(list, B) == \E i \in DOMAIN list : list[i] \in B

\* Every A of the list has a B at its place or after it.
Followed(list, A, B) ==
  \A i \in DOMAIN list : list[i] \in A => \E j \in DOMAIN list : i <= j /\ list[j] \in B

LEMMA HasAppended ==
  ASSUME NEW S, NEW list \in Seq(S), NEW c \in S, NEW B
  PROVE  Has(Append(list, c), B) <=> Has(list, B) \/ c \in B
<1> DEFINE longer == Append(list, c)
<1>1. /\ DOMAIN longer = 1 .. Len(list) + 1 /\ DOMAIN list = 1 .. Len(list) /\ Len(list) \in Nat
      /\ longer[Len(list) + 1] = c /\ \A i \in DOMAIN list : longer[i] = list[i]
  OBVIOUS
<1> HIDE DEF longer
<1>2. Has(longer, B) <=> Has(list, B) \/ c \in B
  <2>1. DOMAIN list \subseteq DOMAIN longer /\ Len(list) + 1 \in DOMAIN longer
        /\ \A i \in DOMAIN longer : i = Len(list) + 1 \/ i \in DOMAIN list
    BY <1>1
  <2>2. QED BY <1>1, <2>1 DEF Has
<1>3. QED BY <1>2 DEF longer

LEMMA FollowedAppended ==
  ASSUME NEW S, NEW list \in Seq(S), NEW c \in S, NEW A, NEW B,
         c \in B \/ (c \notin A /\ Followed(list, A, B))
  PROVE  Followed(Append(list, c), A, B)
<1> DEFINE longer == Append(list, c)
<1>1. /\ DOMAIN longer = 1 .. Len(list) + 1 /\ DOMAIN list = 1 .. Len(list) /\ Len(list) \in Nat
      /\ longer[Len(list) + 1] = c /\ \A i \in DOMAIN list : longer[i] = list[i]
  OBVIOUS
<1> HIDE DEF longer
<1>2. CASE c \in B
  <2>1. Len(list) + 1 \in DOMAIN longer /\ \A i \in DOMAIN longer : i <= Len(list) + 1
    BY <1>1
  <2>2. Followed(longer, A, B)
    BY <1>1, <1>2, <2>1 DEF Followed
  <2>3. QED BY <2>2 DEF longer
<1>3. CASE c \notin A /\ Followed(list, A, B)
  BY <1>1, <1>3 DEF Followed, longer
<1>4. QED BY <1>2, <1>3

\* What is left when the head was taken off.
LEMMA Shortened ==
  ASSUME NEW S, NEW list \in Seq(S), list # <<>>, NEW A, NEW B
  PROVE  /\ Tail(list) \in Seq(S) /\ Head(list) \in S /\ Len(Tail(list)) = Len(list) - 1
         /\ Has(list, B) <=> Head(list) \in B \/ Has(Tail(list), B)
         /\ Followed(list, A, B) => Followed(Tail(list), A, B)
         /\ Followed(list, A, B) /\ Head(list) \in A /\ Head(list) \notin B => Has(Tail(list), B)
<1> DEFINE rest == Tail(list)
           first == Head(list)
<1>1. Len(list) \in Nat \ {0} /\ first = list[1] /\ first \in S
  BY EmptySeq, HeadTailProperties
<1>2. rest \in Seq(S) /\ Len(rest) = Len(list) - 1 /\ \A i \in 1 .. Len(rest) : rest[i] = list[i + 1]
  BY HeadTailProperties
<1>3. DOMAIN rest = 1 .. Len(rest) /\ DOMAIN list = 1 .. Len(list)
  BY <1>2
<1> HIDE DEF rest, first
<1>4. \A i \in DOMAIN list : i # 1 => i - 1 \in DOMAIN rest /\ rest[i - 1] = list[i]
  BY <1>1, <1>2, <1>3
<1>5. \A i \in DOMAIN rest : i + 1 \in DOMAIN list /\ list[i + 1] = rest[i]
  BY <1>1, <1>2, <1>3
<1>6. Has(list, B) <=> first \in B \/ Has(rest, B)
  <2>1. ASSUME Has(list, B) PROVE first \in B \/ Has(rest, B)
    BY <1>1, <1>4, <2>1 DEF Has
  <2>2. 1 \in DOMAIN list
    BY <1>1, <1>3
  <2>3. ASSUME first \in B \/ Has(rest, B) PROVE Has(list, B)
    BY <1>1, <1>5, <2>2, <2>3 DEF Has
  <2>4. QED BY <2>1, <2>3
<1>7. ASSUME Followed(list, A, B) PROVE Followed(rest, A, B)
  <2> SUFFICES ASSUME NEW i \in DOMAIN rest, rest[i] \in A
               PROVE  \E j \in DOMAIN rest : i <= j /\ rest[j] \in B
    BY DEF Followed
  <2>1. PICK j \in DOMAIN list : i + 1 <= j /\ list[j] \in B
    BY <1>5, <1>7 DEF Followed
  <2>2. i \in Nat /\ j \in Nat /\ j # 1
    BY <1>1, <1>2, <1>3, <2>1
  <2>3. j - 1 \in DOMAIN rest /\ i <= j - 1 /\ rest[j - 1] \in B
    BY <1>4, <2>1, <2>2
  <2>4. QED BY <2>3
<1>8. ASSUME Followed(list, A, B), first \in A, first \notin B PROVE Has(rest, B)
  <2>1. Has(list, B)
    BY <1>1, <1>3, <1>8 DEF Followed, Has
  <2>2. QED BY <1>6, <1>8, <2>1
<1>9. QED BY <1>1, <1>2, <1>6, <1>7, <1>8 DEF rest, first

-----------------------------------------------------------------------------
(* The search box of the graph, and its spinner *)

NoSearch(pending) == \A c \in pending : c.op # "search"

\* The search under way is of the query in the box, and the suggestions of a query that was
\* answered are its own.
SearchInv ==
  /\ CanvasRecord(view)
  /\ \A c \in calls : c.op = "search" => c.of = view.query
  /\ view.query = Blank => ~view.pending /\ view.suggestions = {} /\ NoSearch(calls)
  /\ view.query # Blank /\ ~view.pending /\ NoSearch(calls)
       => view.suggestions \subseteq Found[view.query]
  /\ Graph!LoadingEnds

LEMMA SearchInit == Graph!Init => SearchInv
<1> SUFFICES ASSUME Graph!Init PROVE SearchInv
  OBVIOUS
<1>1. CanvasRecord(view) /\ view.query = Blank /\ ~view.pending /\ view.suggestions = {}
  BY DEF Graph!Init, CanvasRecord
<1>2. calls = {[op |-> "seed", of |-> None]}
  BY DEF Graph!Init
<1>3. QED BY <1>1, <1>2 DEF SearchInv, NoSearch, Graph!LoadingEnds

\* The hooks of the search stay as they are.
BoxKept ==
  /\ CanvasRecord(view') /\ view'.query = view.query /\ view'.pending = view.pending
  /\ view'.suggestions = view.suggestions

\* A call that is no search begins, and the canvas loads.
LEMMA SearchCalls ==
  ASSUME SearchInv,
         \/ Graph!HandleResetCanvas
         \/ \E n \in Nodes : Graph!CheckDeepLink(n) \/ Graph!ExpandNeighbors(n)
  PROVE  SearchInv'
<1>1. CanvasRecord(view)
  BY DEF SearchInv
<1>2. PICK op \in {"seed", "link", "expand"}, n \in Nodes \cup {None} : calls' = calls \cup {[op |-> op, of |-> n]}
  BY DEF Graph!HandleResetCanvas, Graph!CheckDeepLink, Graph!ExpandNeighbors, Graph!Call
<1>3. BoxKept
  BY <1>1 DEF BoxKept, CanvasRecord, Graph!HandleResetCanvas, Graph!CheckDeepLink,
              Graph!ExpandNeighbors, Graph!Hooks
<1>4. [op |-> op, of |-> n].op # "search" /\ [op |-> op, of |-> n] \in calls'
  BY <1>2
<1>5. NoSearch(calls') <=> NoSearch(calls)
  BY <1>2, <1>4 DEF NoSearch
<1>6. Graph!LoadingEnds'
  BY <1>4 DEF Graph!LoadingEnds
<1>7. \A c \in calls' : c.op = "search" => c.of = view'.query
  BY <1>2, <1>3, <1>4 DEF SearchInv, BoxKept
<1>8. QED BY <1>3, <1>5, <1>6, <1>7 DEF SearchInv, BoxKept

\* Steps of the person that call nothing and load nothing.
LEMMA SearchQuiet ==
  ASSUME SearchInv,
         \/ Graph!CloseDrawer
         \/ \E n \in Nodes : Graph!OnNodeClick(n)
         \/ \E n \in Hideable : Graph!ToggleNodeType(n)
  PROVE  SearchInv'
<1>1. CanvasRecord(view)
  BY DEF SearchInv
<1>2. BoxKept /\ view'.loading = view.loading /\ UNCHANGED calls
  BY <1>1 DEF BoxKept, CanvasRecord, Graph!CloseDrawer, Graph!OnNodeClick, Graph!ToggleNodeType,
              Graph!Local, Graph!Hooks
<1>3. QED BY <1>2 DEF SearchInv, BoxKept, Graph!LoadingEnds

LEMMA SearchTyped ==
  ASSUME SearchInv, NEW q, Graph!Type(q)
  PROVE  SearchInv'
<1>1. CanvasRecord(view)
  BY DEF SearchInv
<1>2. /\ \/ q = Blank /\ view' = [view EXCEPT !.query = q, !.pending = FALSE, !.suggestions = {}]
         \/ q # Blank /\ view' = [view EXCEPT !.query = q, !.pending = TRUE,
                                              !.suggestions = view.suggestions]
      /\ calls' = {c \in calls : c.op # "search"}
  BY <1>1 DEF Graph!Type, CanvasRecord
<1>3. /\ CanvasRecord(view') /\ view'.query = q /\ view'.loading = view.loading
      /\ q = Blank => ~view'.pending /\ view'.suggestions = {}
      /\ q # Blank => view'.pending
  BY <1>1, <1>2 DEF CanvasRecord
<1>4. NoSearch(calls')
  BY <1>2 DEF NoSearch
<1>5. QED BY <1>2, <1>3, <1>4 DEF SearchInv, NoSearch, Graph!LoadingEnds

LEMMA SearchDebounced ==
  ASSUME SearchInv, Graph!Debounced
  PROVE  SearchInv'
<1>1. CanvasRecord(view) /\ view.query # Blank
  BY DEF SearchInv, Graph!Debounced
<1>2. view' = [view EXCEPT !.pending = FALSE]
      /\ calls' = calls \cup {[op |-> "search", of |-> view.query]}
  BY DEF Graph!Debounced, Graph!Hooks, Graph!Call
<1>3. CanvasRecord(view') /\ view'.query = view.query /\ view'.loading = view.loading
  BY <1>1, <1>2 DEF CanvasRecord
<1>4. ~NoSearch(calls')
  <2>1. [op |-> "search", of |-> view.query] \in calls'
    BY <1>2
  <2>2. QED BY <2>1 DEF NoSearch
<1>5. \A c \in calls' : c.op = "search" => c.of = view'.query
  BY <1>2, <1>3 DEF SearchInv
<1>6. QED BY <1>1, <1>2, <1>3, <1>4, <1>5 DEF SearchInv, Graph!LoadingEnds

LEMMA SearchSelected ==
  ASSUME SearchInv, NEW n, Graph!HandleSelectSuggestion(n)
  PROVE  SearchInv'
<1>1. CanvasRecord(view)
  BY DEF SearchInv
<1>2. /\ view' = [view EXCEPT !.selected = n, !.query = Blank, !.pending = FALSE,
                              !.suggestions = {}, !.loading = TRUE]
      /\ calls' = {c \in calls : c.op # "search"} \cup {[op |-> "choose", of |-> n]}
  BY DEF Graph!HandleSelectSuggestion
<1>3. CanvasRecord(view') /\ view'.query = Blank /\ ~view'.pending /\ view'.suggestions = {}
  BY <1>1, <1>2 DEF CanvasRecord
<1>4. NoSearch(calls') /\ \E c \in calls' : c.op # "search"
  <2>1. [op |-> "choose", of |-> n] \in calls' /\ [op |-> "choose", of |-> n].op # "search"
    BY <1>2
  <2>2. QED BY <1>2, <2>1 DEF NoSearch
<1>5. QED BY <1>3, <1>4 DEF SearchInv, NoSearch, Graph!LoadingEnds

LEMMA SearchAnswered ==
  ASSUME SearchInv, NEW c \in calls, Graph!Searched(c)
  PROVE  SearchInv'
<1>1. CanvasRecord(view) /\ c.op = "search" /\ c.of = view.query /\ calls' = calls \ {c}
  BY DEF SearchInv, Graph!Searched, Graph!Answered
<1>2. PICK found \in {Found[c.of], {}} : view' = [view EXCEPT !.suggestions = found]
  BY DEF Graph!Searched, Graph!Hooks
<1>3. /\ CanvasRecord(view') /\ view'.query = view.query /\ view'.pending = view.pending
      /\ view'.loading = view.loading /\ view'.suggestions \subseteq Found[view.query]
  BY <1>1, <1>2 DEF CanvasRecord
<1>4. view.query # Blank
  BY <1>1 DEF SearchInv, NoSearch
<1>5. Graph!LoadingEnds'
  BY <1>1, <1>3 DEF SearchInv, Graph!LoadingEnds
<1>6. QED BY <1>1, <1>3, <1>4, <1>5 DEF SearchInv

\* The other answers, and the failures, end the loading and leave the box alone.
LEMMA SearchSpared ==
  ASSUME SearchInv, NEW c \in calls, c.op # "search", calls' = calls \ {c},
         BoxKept, ~view'.loading
  PROVE  SearchInv'
<1>1. NoSearch(calls') <=> NoSearch(calls)
  BY DEF NoSearch
<1>2. QED BY <1>1 DEF SearchInv, BoxKept, Graph!LoadingEnds

LEMMA SearchSeeded ==
  ASSUME SearchInv, NEW c \in calls, Graph!Seeded(c)
  PROVE  SearchInv'
<1>1. CanvasRecord(view)
  BY DEF SearchInv
<1>2. PICK seed \in Graph!SeedGraphs :
        view' = [view EXCEPT !.nodes = seed.nodes, !.edges = seed.edges, !.loading = FALSE]
  BY Zenon DEF Graph!Seeded, Graph!Hooks
<1>3. BoxKept /\ ~view'.loading
  BY <1>1, <1>2 DEF BoxKept, CanvasRecord
<1>4. c.op # "search" /\ calls' = calls \ {c}
  BY DEF Graph!Seeded, Graph!Answered
<1>5. QED BY <1>3, <1>4, SearchSpared

LEMMA SearchOthers ==
  ASSUME SearchInv, NEW c \in calls,
         Graph!Linked(c) \/ Graph!Expanded(c) \/ Graph!Chosen(c) \/ Graph!Fails(c)
  PROVE  SearchInv'
<1>1. CanvasRecord(view)
  BY DEF SearchInv
<1>2. c.op # "search" /\ calls' = calls \ {c}
  BY DEF Graph!Linked, Graph!Expanded, Graph!Chosen, Graph!Fails, Graph!Answered
<1>3. BoxKept /\ ~view'.loading
  <2>1. CASE Graph!Linked(c) \/ Graph!Fails(c)
    BY <1>1, <2>1 DEF BoxKept, CanvasRecord, Graph!Linked, Graph!Fails, Graph!Hooks
  <2>2. ASSUME NEW selected, view' = Graph!Merged(c, selected)
        PROVE  BoxKept /\ ~view'.loading
    BY <1>1, <2>2 DEF BoxKept, CanvasRecord, Graph!Merged
  <2>3. QED BY <2>1, <2>2 DEF Graph!Expanded, Graph!Chosen, Graph!Hooks
<1>4. QED BY <1>2, <1>3, SearchSpared

LEMMA SearchKeeps ==
  ASSUME SearchInv, [Graph!Next]_<<view, calls, server>>
  PROVE  SearchInv'
<1>1. CASE UNCHANGED <<view, calls, server>>
  BY <1>1 DEF SearchInv, CanvasRecord, NoSearch, Graph!LoadingEnds
<1>2. CASE Graph!Next
  BY <1>2, SearchCalls, SearchQuiet, SearchTyped, SearchDebounced, SearchSelected,
     SearchAnswered, SearchSeeded, SearchOthers DEF Graph!Next
<1>3. QED BY <1>1, <1>2

-----------------------------------------------------------------------------
(* The shell's panels *)

LEMMA PanelsMounted == Init /\ route = "panels" => Panels!Init
  BY DEF Init, Mounted

LEMMA PanelsStep == [Next]_vars /\ route = "panels" => [Panels!Next]_<<view, calls, server>>
  BY DEF Next, vars

PanelsRecord(v) ==
  v = [help |-> v.help, changelog |-> v.changelog, loadingChangelog |-> v.loadingChangelog,
       page |-> v.page, pageLoading |-> v.pageLoading, tourActive |-> v.tourActive,
       tourSteps |-> v.tourSteps, idx |-> v.idx, shown |-> v.shown, lit |-> v.lit]

\* A panel that loads has a call of its own kind under way.
PanelsInv ==
  /\ PanelsRecord(view) /\ calls \in Seq(Pages \cup {"changelog", "tour"})
  /\ view.loadingChangelog => Has(calls, {"changelog"})
  /\ view.pageLoading => Has(calls, Pages)
  /\ view.tourSteps \in Nat
  /\ Panels!TourOnAStep

LEMMA PanelsInit == Panels!Init => PanelsInv
<1> SUFFICES ASSUME Panels!Init PROVE PanelsInv
  OBVIOUS
<1>1. PanelsRecord(view) /\ ~view.loadingChangelog /\ ~view.pageLoading /\ ~view.tourActive
      /\ view.tourSteps = 0
  BY DEF Panels!Init, PanelsRecord
<1>2. calls \in Seq(Pages \cup {"changelog", "tour"})
  BY DEF Panels!Init
<1>3. QED BY <1>1, <1>2 DEF PanelsInv, Panels!TourOnAStep

\* The tour as it is.
TourKept(v) ==
  v.tourActive = view.tourActive /\ v.tourSteps = view.tourSteps /\ v.idx = view.idx

LEMMA PanelsOpen ==
  ASSUME PanelsInv,
         \/ Panels!ToggleHelp \/ Panels!OpenChangelog \/ Panels!CloseChangelog \/ Panels!ClosePage
         \/ Panels!RestartTour \/ \E page \in Pages : Panels!OpenPage(page)
  PROVE  PanelsInv'
<1>1. PanelsRecord(view) /\ calls \in Seq(Pages \cup {"changelog", "tour"})
  BY DEF PanelsInv
<1>2. ASSUME PanelsRecord(view'), TourKept(view'), UNCHANGED calls,
             view'.loadingChangelog = view.loadingChangelog, view'.pageLoading = view.pageLoading
      PROVE  PanelsInv'
  BY <1>2 DEF PanelsInv, TourKept, Panels!TourOnAStep
<1>3. CASE Panels!ToggleHelp \/ Panels!CloseChangelog \/ Panels!ClosePage
  <2>1. /\ PanelsRecord(view') /\ TourKept(view') /\ UNCHANGED calls
        /\ view'.loadingChangelog = view.loadingChangelog /\ view'.pageLoading = view.pageLoading
    BY <1>1, <1>3 DEF PanelsRecord, TourKept, Panels!ToggleHelp, Panels!CloseChangelog, Panels!ClosePage
  <2>2. QED BY <1>2, <2>1
<1>4. CASE Panels!OpenChangelog
  <2>1. view' = [view EXCEPT !.help = FALSE, !.changelog = TRUE, !.loadingChangelog = TRUE]
        /\ calls' = Append(calls, "changelog")
    BY <1>4 DEF Panels!OpenChangelog
  <2>2. PanelsRecord(view') /\ TourKept(view') /\ view'.loadingChangelog = TRUE
        /\ view'.pageLoading = view.pageLoading
    BY <1>1, <2>1 DEF PanelsRecord, TourKept
  <2>3. /\ Has(calls', {"changelog"}) /\ (Has(calls, Pages) => Has(calls', Pages))
        /\ calls' \in Seq(Pages \cup {"changelog", "tour"})
    BY <1>1, <2>1, HasAppended
  <2>4. QED BY <2>2, <2>3 DEF PanelsInv, TourKept, Panels!TourOnAStep
<1>5. ASSUME NEW page \in Pages, Panels!OpenPage(page) PROVE PanelsInv'
  <2>1. view' = [view EXCEPT !.page = page, !.pageLoading = TRUE] /\ calls' = Append(calls, page)
    BY <1>5 DEF Panels!OpenPage
  <2>2. PanelsRecord(view') /\ TourKept(view') /\ view'.pageLoading = TRUE
        /\ view'.loadingChangelog = view.loadingChangelog
    BY <1>1, <2>1 DEF PanelsRecord, TourKept
  <2>3. /\ Has(calls', Pages) /\ (Has(calls, {"changelog"}) => Has(calls', {"changelog"}))
        /\ calls' \in Seq(Pages \cup {"changelog", "tour"})
    BY <1>1, <2>1, HasAppended
  <2>4. QED BY <2>2, <2>3 DEF PanelsInv, TourKept, Panels!TourOnAStep
<1>6. CASE Panels!RestartTour
  <2>1. view' = [view EXCEPT !.help = FALSE] /\ calls' = Append(calls, "tour")
    BY <1>6 DEF Panels!RestartTour
  <2>2. PanelsRecord(view') /\ TourKept(view') /\ view'.pageLoading = view.pageLoading
        /\ view'.loadingChangelog = view.loadingChangelog
    BY <1>1, <2>1 DEF PanelsRecord, TourKept
  <2>3. /\ Has(calls, Pages) => Has(calls', Pages)
        /\ Has(calls, {"changelog"}) => Has(calls', {"changelog"})
        /\ calls' \in Seq(Pages \cup {"changelog", "tour"})
    BY <1>1, <2>1, HasAppended
  <2>4. QED BY <2>2, <2>3 DEF PanelsInv, TourKept, Panels!TourOnAStep
<1>7. QED BY <1>3, <1>4, <1>5, <1>6

\* The call that is answered is the oldest; those of another kind are still there.
LEMMA PanelsAnswered ==
  ASSUME Panels!PanelsAssumption, PanelsInv,
         \/ Panels!PageAnswered
         \/ \E ok \in BOOLEAN : Panels!ChangelogAnswered(ok) \/ Panels!TourAnswered(ok)
  PROVE  PanelsInv'
<1>1. PanelsRecord(view) /\ calls \in Seq(Pages \cup {"changelog", "tour"})
  BY DEF PanelsInv
<1>2. calls # <<>> /\ calls' = Tail(calls)
  BY DEF Panels!PageAnswered, Panels!ChangelogAnswered, Panels!TourAnswered
<1>3. /\ calls' \in Seq(Pages \cup {"changelog", "tour"})
      /\ Head(calls) \notin Pages /\ Has(calls, Pages) => Has(calls', Pages)
      /\ Head(calls) # "changelog" /\ Has(calls, {"changelog"}) => Has(calls', {"changelog"})
  BY <1>1, <1>2, Shortened
<1>4. Pages \cap {"changelog", "tour"} = {} /\ TourSteps \in Nat
  BY DEF Panels!PanelsAssumption
<1>5. CASE Panels!PageAnswered
  <2>1. view' = [view EXCEPT !.pageLoading = FALSE] /\ Head(calls) \in Pages
    BY <1>5 DEF Panels!PageAnswered
  <2>2. PanelsRecord(view') /\ TourKept(view') /\ ~view'.pageLoading
        /\ view'.loadingChangelog = view.loadingChangelog
    BY <1>1, <2>1 DEF PanelsRecord, TourKept
  <2>3. QED BY <1>3, <1>4, <2>1, <2>2 DEF PanelsInv, TourKept, Panels!TourOnAStep
<1>6. ASSUME NEW ok \in BOOLEAN, Panels!ChangelogAnswered(ok) PROVE PanelsInv'
  <2>1. view' = [view EXCEPT !.loadingChangelog = FALSE] /\ Head(calls) = "changelog"
    BY <1>6 DEF Panels!ChangelogAnswered
  <2>2. PanelsRecord(view') /\ TourKept(view') /\ ~view'.loadingChangelog
        /\ view'.pageLoading = view.pageLoading
    BY <1>1, <2>1 DEF PanelsRecord, TourKept
  <2>3. QED BY <1>3, <1>4, <2>1, <2>2 DEF PanelsInv, TourKept, Panels!TourOnAStep
<1>7. ASSUME NEW ok \in BOOLEAN, Panels!TourAnswered(ok) PROVE PanelsInv'
  <2>1. Head(calls) = "tour" /\
        \/ view' = view
        \/ view' = [view EXCEPT !.tourSteps = TourSteps, !.idx = 0, !.tourActive = TRUE]
    BY <1>7 DEF Panels!TourAnswered
  <2>2. /\ PanelsRecord(view') /\ view'.pageLoading = view.pageLoading
        /\ view'.loadingChangelog = view.loadingChangelog
        /\ TourKept(view') \/ (view'.tourSteps = TourSteps /\ view'.idx = 0)
    BY <1>1, <2>1 DEF PanelsRecord, TourKept
  <2>3. view'.tourSteps \in Nat /\ Panels!TourOnAStep'
    BY <1>4, <2>2 DEF PanelsInv, TourKept, Panels!TourOnAStep
  <2>4. QED BY <1>3, <1>4, <2>1, <2>2, <2>3 DEF PanelsInv
<1>8. QED BY <1>5, <1>6, <1>7

LEMMA PanelsTour ==
  ASSUME PanelsInv,
         \/ Panels!Spotlight \/ Panels!PreviousStep \/ Panels!NextStep
         \/ Panels!SkipTour \/ Panels!FinishTour
  PROVE  PanelsInv'
<1>1. PanelsRecord(view) /\ UNCHANGED calls
  BY DEF PanelsInv, Panels!Spotlight, Panels!PreviousStep, Panels!NextStep, Panels!SkipTour,
         Panels!FinishTour
<1>2. PanelsRecord(view') /\ view'.loadingChangelog = view.loadingChangelog
      /\ view'.pageLoading = view.pageLoading /\ view'.tourSteps = view.tourSteps
  BY <1>1 DEF PanelsRecord, Panels!Spotlight, Panels!PreviousStep, Panels!NextStep,
              Panels!SkipTour, Panels!FinishTour
<1>3. Panels!TourOnAStep'
  <2>1. CASE Panels!Spotlight
    <3>1. view'.idx = view.idx /\ view'.tourActive = view.tourActive
      BY <1>1, <2>1 DEF PanelsRecord, Panels!Spotlight
    <3>2. QED BY <1>2, <3>1 DEF PanelsInv, Panels!TourOnAStep
  <2>2. CASE Panels!SkipTour \/ Panels!FinishTour
    BY <1>1, <2>2 DEF PanelsRecord, Panels!SkipTour, Panels!FinishTour, Panels!TourOnAStep
  <2>3. CASE Panels!PreviousStep \/ Panels!NextStep
    <3>1. view.idx \in 0 .. view.tourSteps - 1 /\ view.tourSteps \in Nat
      BY <2>3 DEF PanelsInv, Panels!TourOnAStep, Panels!PreviousStep, Panels!NextStep
    <3>2. PICK idx \in {view.idx - 1, view.idx + 1} : view'.idx = idx /\ idx \in 0 .. view.tourSteps - 1
      BY <1>1, <2>3, <3>1 DEF PanelsRecord, Panels!PreviousStep, Panels!NextStep
    <3>3. QED BY <1>2, <3>2 DEF Panels!TourOnAStep
  <2>4. QED BY <2>1, <2>2, <2>3
<1>4. QED BY <1>1, <1>2, <1>3 DEF PanelsInv

LEMMA PanelsKeep ==
  ASSUME Panels!PanelsAssumption, PanelsInv, [Panels!Next]_<<view, calls, server>>
  PROVE  PanelsInv'
<1>1. CASE UNCHANGED <<view, calls, server>>
  BY <1>1 DEF PanelsInv, PanelsRecord, Panels!TourOnAStep
<1>2. CASE Panels!Next
  BY <1>2, PanelsOpen, PanelsAnswered, PanelsTour DEF Panels!Next
<1>3. QED BY <1>1, <1>2

LEMMA PanelsEnd == PanelsInv => Panels!SpinnersStop /\ Panels!TourOnAStep
<1>1. calls = <<>> => ~Has(calls, {"changelog"}) /\ ~Has(calls, Pages)
  BY DEF Has
<1>2. QED BY <1>1 DEF PanelsInv, Panels!SpinnersStop
-----------------------------------------------------------------------------
(* The dashboard's tiles *)

LEMMA HomeMounted == Init /\ route = "dashboard" => Home!Init
  BY DEF Init, Mounted

LEMMA HomeStep == [Next]_vars /\ route = "dashboard" => [Home!Next]_<<view, calls, server>>
  BY DEF Next, vars

HomeRecord(v) ==
  v = [loading |-> v.loading, gen |-> v.gen, tiles |-> v.tiles, loadingJobs |-> v.loadingJobs,
       jobs |-> v.jobs, polls |-> v.polls, refreshes |-> v.refreshes, complete |-> v.complete,
       loadingSeed |-> v.loadingSeed, handlers |-> v.handlers]

\* A tile that is drawn and loading has the call of this drawing of the page.
TilesInv ==
  /\ HomeRecord(view) /\ view.tiles \in [Widgets -> {"loading", "data", "empty"}]
  /\ Home!TilesSettle

LEMMA TilesInit == Home!Init => TilesInv
<1> SUFFICES ASSUME Home!Init PROVE TilesInv
  OBVIOUS
<1>1. HomeRecord(view) /\ view.tiles = [w \in Widgets |-> "loading"] /\ view.gen = 0
  BY DEF Home!Init, HomeRecord, Home!Tiles
<1>2. \A w \in Widgets : [op |-> "widget", widget |-> w, gen |-> 0] \in calls
  BY DEF Home!Init, Home!WidgetCalls
<1>3. QED BY <1>1, <1>2 DEF TilesInv, Home!TilesSettle

\* The tiles stay, or the page shows its skeleton, and no call of a tile ends.
LEMMA TilesStay ==
  ASSUME TilesInv, HomeRecord(view'), view'.tiles = view.tiles, view'.gen = view.gen,
         ~view'.loading => ~view.loading,
         \A c \in calls : c.op = "widget" => c \in calls'
  PROVE  TilesInv'
  BY DEF TilesInv, Home!TilesSettle

\* Every tile is drawn anew, with a call of its own.
LEMMA TilesDrawn ==
  ASSUME HomeRecord(view'), view'.tiles = Home!Tiles, Home!WidgetCalls(view'.gen) \subseteq calls'
  PROVE  TilesInv'
<1>1. view'.tiles \in [Widgets -> {"loading", "data", "empty"}]
  BY DEF Home!Tiles
<1>2. \A w \in Widgets : [op |-> "widget", widget |-> w, gen |-> view'.gen] \in calls'
  BY DEF Home!WidgetCalls
<1>3. QED BY <1>1, <1>2 DEF TilesInv, Home!TilesSettle

LEMMA TileAnswered ==
  ASSUME TilesInv, NEW c \in calls, NEW ok \in BOOLEAN, Home!WidgetAnswered(c, ok)
  PROVE  TilesInv'
<1>1. HomeRecord(view) /\ view.tiles \in [Widgets -> {"loading", "data", "empty"}]
      /\ calls' = calls \ {c}
  BY DEF TilesInv, Home!WidgetAnswered
<1>2. CASE c.gen = view.gen /\ ~view.loading
  <2>1. PICK tile \in {"data", "empty"} : tile = IF ok THEN "data" ELSE "empty"
    OBVIOUS
  <2>2. view' = [view EXCEPT !.tiles = [view.tiles EXCEPT ![c.widget] = tile]]
    BY <1>1, <1>2, <2>1 DEF HomeRecord, Home!WidgetAnswered
  <2>3. /\ HomeRecord(view') /\ view'.tiles = [view.tiles EXCEPT ![c.widget] = tile]
        /\ view'.gen = view.gen /\ view'.loading = view.loading
    BY <1>1, <2>2 DEF HomeRecord
  <2>4. view'.tiles \in [Widgets -> {"loading", "data", "empty"}]
    BY <1>1, <2>3
  <2>5. ASSUME NEW w \in Widgets, ~view'.loading, view'.tiles[w] = "loading"
        PROVE  [op |-> "widget", widget |-> w, gen |-> view'.gen] \in calls'
    <3>1. w # c.widget /\ view.tiles[w] = "loading"
      BY <1>1, <2>3, <2>5
    <3>2. [op |-> "widget", widget |-> w, gen |-> view.gen] \in calls
      BY <2>3, <2>5, <3>1 DEF TilesInv, Home!TilesSettle
    <3>3. [op |-> "widget", widget |-> w, gen |-> view.gen] # c
      BY <3>1
    <3>4. QED BY <1>1, <2>3, <3>2, <3>3
  <2>6. QED BY <2>3, <2>4, <2>5 DEF TilesInv, Home!TilesSettle
<1>3. CASE ~(c.gen = view.gen /\ ~view.loading)
  <2>1. view' = view
    BY <1>3 DEF Home!WidgetAnswered
  <2>2. ASSUME NEW w \in Widgets, ~view.loading, view.tiles[w] = "loading"
        PROVE  [op |-> "widget", widget |-> w, gen |-> view.gen] \in calls'
    <3>1. [op |-> "widget", widget |-> w, gen |-> view.gen] \in calls
      BY <2>2 DEF TilesInv, Home!TilesSettle
    <3>2. [op |-> "widget", widget |-> w, gen |-> view.gen] # c
      BY <1>3, <2>2
    <3>3. QED BY <1>1, <3>1, <3>2
  <2>3. QED BY <1>1, <2>1, <2>2 DEF TilesInv, Home!TilesSettle
<1>4. QED BY <1>2, <1>3

LEMMA TilesKeep ==
  ASSUME TilesInv, [Home!Next]_<<view, calls, server>>
  PROVE  TilesInv'
<1>0. HomeRecord(view)
  BY DEF TilesInv
<1>1. CASE UNCHANGED <<view, calls, server>>
  BY <1>1 DEF TilesInv, HomeRecord, Home!TilesSettle
<1>2. ASSUME NEW c \in calls, NEW ok \in BOOLEAN, Home!JobsAnswered(c, ok) PROVE TilesInv'
  <2>1. /\ HomeRecord(view') /\ view'.tiles = view.tiles /\ view'.gen = view.gen
        /\ view'.loading = view.loading
    BY <1>0, <1>2 DEF HomeRecord, Home!JobsAnswered
  <2>2. \A d \in calls : d.op = "widget" => d \in calls'
    BY <1>2 DEF Home!JobsAnswered
  <2>3. QED BY <2>1, <2>2, TilesStay
<1>3. ASSUME NEW i, \/ Home!LoadSampleData(i) \/ Home!SeedDemo(i) \/ Home!SeedFails(i)
                    \/ Home!StoreMilestones(i)
      PROVE  TilesInv'
  <2>1. /\ HomeRecord(view') /\ view'.tiles = view.tiles /\ view'.gen = view.gen
        /\ view'.loading = view.loading /\ UNCHANGED calls
    BY <1>0, <1>3 DEF HomeRecord, Home!LoadSampleData, Home!SeedDemo, Home!SeedFails,
                      Home!StoreMilestones
  <2>2. QED BY <2>1, TilesStay
<1>4. CASE Home!PollJobs \/ Home!TriggerRefresh \/ Home!HandleDismiss \/ Home!CheckMilestones
  <2>1. /\ HomeRecord(view') /\ view'.tiles = view.tiles /\ view'.gen = view.gen
        /\ ~view'.loading => ~view.loading
    BY <1>0, <1>4 DEF HomeRecord, Home!PollJobs, Home!TriggerRefresh, Home!HandleDismiss,
                      Home!CheckMilestones
  <2>2. calls \subseteq calls'
    BY <1>4 DEF Home!PollJobs, Home!TriggerRefresh, Home!HandleDismiss, Home!CheckMilestones
  <2>3. QED BY <2>1, <2>2, TilesStay
<1>5. CASE Home!RefreshEnds
  <2>1. HomeRecord(view') /\ view'.tiles = Home!Tiles /\ view'.gen = view.gen + 1
    BY <1>0, <1>5 DEF HomeRecord, Home!RefreshEnds
  <2>2. Home!WidgetCalls(view.gen + 1) \subseteq calls'
    BY <1>5 DEF Home!RefreshEnds
  <2>3. QED BY <2>1, <2>2, TilesDrawn
<1>6. CASE Home!Reload
  <2>1. HomeRecord(view') /\ view'.tiles = Home!Tiles /\ view'.gen = 0
    BY <1>0, <1>6 DEF HomeRecord, Home!Reload, Home!Opened
  <2>2. Home!WidgetCalls(0) \subseteq calls'
    BY <1>6 DEF Home!Reload
  <2>3. QED BY <2>1, <2>2, TilesDrawn
<1>7. QED BY <1>1, <1>2, <1>3, <1>4, <1>5, <1>6, TileAnswered DEF Home!Next

-----------------------------------------------------------------------------
(* The optimisation's button *)

\* Of the optimisations under way one at most belongs to the tab that is shown, and that is the
\* schedule's while the button is not at rest.
ButtonInv ==
  /\ DeskInv /\ Desk!SpinnerHasTimer
  /\ view.optimize # "idle" => view.tab = "schedule"
  /\ view.rca # None => view.tab = "failures"
  /\ \A c, d \in calls : c.mine /\ d.mine => c = d

LEMMA ButtonInit == Desk!DeskAssumption /\ Desk!Init => ButtonInv
<1> SUFFICES ASSUME Desk!DeskAssumption, Desk!Init PROVE ButtonInv
  OBVIOUS
<1>1. DeskInv /\ calls = {}
  BY DeskInit DEF Desk!Init
<1>2. view.optimize = "idle" /\ view.rca = None
  BY DEF Desk!Init, Desk!Tab
<1>3. QED BY <1>1, <1>2 DEF ButtonInv, Desk!SpinnerHasTimer

\* Steps that leave the button and the timeouts alone.
LEMMA ButtonStays ==
  ASSUME ButtonInv, DeskInv', view'.optimize = view.optimize, view'.tab = view.tab,
         view'.rca # None => view.rca # None \/ view.tab = "failures", UNCHANGED calls
  PROVE  ButtonInv'
  BY DEF ButtonInv, Desk!SpinnerHasTimer

LEMMA ButtonLeft ==
  ASSUME ButtonInv, DeskInv',
         Desk!LeaveRca \/ \E tab \in Desk!Tabs : Desk!Switch(tab)
  PROVE  ButtonInv'
<1>0. calls \subseteq Desk!Timeouts
  BY DEF ButtonInv, DeskInv, Desk!TypeOK
<1>1. view'.optimize = "idle" /\ view'.rca = None
  BY DEF Desk!Switch, Desk!LeaveRca, Desk!Tab
<1>2. \A c \in calls' : ~c.mine
  <2>1. CASE Desk!LeaveRca
    BY <2>1 DEF ButtonInv, Desk!LeaveRca, Desk!SpinnerHasTimer
  <2>2. CASE \E tab \in Desk!Tabs : Desk!Switch(tab)
    BY <1>0, <2>2 DEF Desk!Switch, Desk!Timeouts
  <2>3. QED BY <2>1, <2>2
<1>3. QED BY <1>1, <1>2 DEF ButtonInv, Desk!SpinnerHasTimer

LEMMA ButtonRuns ==
  ASSUME ButtonInv, DeskInv', Desk!Optimize \/ \E c \in calls : Desk!Optimized(c)
  PROVE  ButtonInv'
<1>0. /\ view \in Desk!Hooks /\ Desk!SpinnerHasTimer
      /\ view.optimize # "idle" => view.tab = "schedule"
      /\ view.rca # None => view.tab = "failures"
      /\ \A c, d \in calls : c.mine /\ d.mine => c = d
  BY DEF ButtonInv, DeskInv, Desk!TypeOK
<1>1. CASE Desk!Optimize
  <2>1. view' = [view EXCEPT !.optimize = "loading"] /\ view.tab = "schedule"
        /\ calls' = calls \cup {[schedule |-> server.schedule, mine |-> TRUE]}
    BY <1>1 DEF Desk!Optimize, Desk!OnSchedule
  <2>2. \A c \in calls : ~c.mine
    BY <1>0, <1>1 DEF Desk!Optimize, Desk!SpinnerHasTimer
  <2>3. view'.optimize = "loading" /\ view'.tab = view.tab /\ view'.rca = view.rca
    BY <1>0, <2>1 DEF Desk!Hooks
  <2>4. /\ [schedule |-> server.schedule, mine |-> TRUE].mine
        /\ [schedule |-> server.schedule, mine |-> TRUE] \in calls'
        /\ \A c, d \in calls' : c.mine /\ d.mine => c = d
    BY <2>1, <2>2
  <2>5. QED BY <1>0, <2>1, <2>3, <2>4 DEF ButtonInv, Desk!SpinnerHasTimer
<1>2. ASSUME NEW c \in calls, Desk!Optimized(c) PROVE ButtonInv'
  <2>1. calls' = calls \ {c} /\ view' = [view EXCEPT !.optimize = IF c.mine THEN "applied" ELSE @]
    BY <1>2 DEF Desk!Optimized
  <2>2. /\ view'.optimize = IF c.mine THEN "applied" ELSE view.optimize
        /\ view'.tab = view.tab /\ view'.rca = view.rca
    BY <1>0, <2>1 DEF Desk!Hooks
  <2>3. CASE c.mine
    <3>1. view.optimize = "loading"
      BY <1>0, <2>3 DEF Desk!SpinnerHasTimer
    <3>2. \A d \in calls' : ~d.mine
      BY <1>0, <2>1, <2>3
    <3>3. QED BY <1>0, <2>2, <2>3, <3>1, <3>2 DEF ButtonInv, Desk!SpinnerHasTimer
  <2>4. CASE ~c.mine
    <3>1. (\E d \in calls' : d.mine) <=> \E d \in calls : d.mine
      BY <2>1, <2>4
    <3>2. QED BY <1>0, <2>1, <2>2, <2>4, <3>1 DEF ButtonInv, Desk!SpinnerHasTimer
  <2>5. QED BY <2>3, <2>4
<1>3. QED BY <1>1, <1>2

LEMMA ButtonKeeps ==
  ASSUME Desk!DeskAssumption, ButtonInv, [Desk!Next]_<<view, calls, server>>
  PROVE  ButtonInv'
<1>0. view \in Desk!Hooks /\ DeskInv'
  BY DeskKeeps DEF ButtonInv, DeskInv, Desk!TypeOK
<1>1. CASE UNCHANGED <<view, calls, server>>
  BY <1>0, <1>1, ButtonStays
<1>2. ASSUME NEW f, Desk!StartRca(f) PROVE ButtonInv'
  <2>1. view.tab = "failures" /\ view'.tab = view.tab /\ view'.optimize = view.optimize
        /\ UNCHANGED calls
    BY <1>0, <1>2 DEF Desk!Hooks, Desk!StartRca
  <2>2. QED BY <1>0, <2>1, ButtonStays
<1>3. ASSUME NEW x, \/ Desk!ConvertToWorkOrder(x) \/ Desk!AskToPublish \/ Desk!PublishRca
                    \/ Desk!OpenSnooze(x) \/ Desk!OpenDismiss(x) \/ Desk!Snooze(x)
                    \/ Desk!Dismiss(x) \/ Desk!AcceptPrediction(x)
      PROVE  ButtonInv'
  <2>1. view'.tab = view.tab /\ view'.optimize = view.optimize /\ view'.rca = view.rca
        /\ UNCHANGED calls
    BY <1>0, <1>3 DEF Desk!Hooks, Desk!ConvertToWorkOrder, Desk!AskToPublish, Desk!PublishRca,
                      Desk!OpenSnooze, Desk!OpenDismiss, Desk!Snooze, Desk!Dismiss,
                      Desk!AcceptPrediction
  <2>2. QED BY <1>0, <2>1, ButtonStays
<1>4. ASSUME NEW x, Desk!SelectEvent(x) \/ Desk!PickDate(x) \/ Desk!Reschedule
      PROVE  ButtonInv'
  <2>1. view'.tab = view.tab /\ view'.optimize = view.optimize /\ view'.rca = view.rca
        /\ UNCHANGED calls
    BY <1>0, <1>4 DEF Desk!Hooks, Desk!SelectEvent, Desk!PickDate, Desk!Reschedule
  <2>2. QED BY <1>0, <2>1, ButtonStays
<1>5. QED BY <1>0, <1>1, <1>2, <1>3, <1>4, ButtonLeft, ButtonRuns DEF Desk!Next

-----------------------------------------------------------------------------
(* The branches of the registry *)

LEMMA RegistryMounted == Init /\ route = "equipment" => Registry!Init
  BY DEF Init, Mounted

LEMMA RegistryStep == [Next]_vars /\ route = "equipment" => [Registry!Next]_<<view, calls, server>>
  BY DEF Next, vars

RegistryRecord(v) ==
  v = [address |-> v.address, expanded |-> v.expanded, loading |-> v.loading,
       loaded |-> v.loaded, branch |-> v.branch, filter |-> v.filter, scanning |-> v.scanning,
       step |-> v.step]

NodeTimer(n) == [for |-> "node", of |-> n]

\* A branch under its spinner has a timer, and nothing above the units ever loads.
BranchesInv ==
  /\ RegistryRecord(view) /\ calls \in [Registry!Timers -> Nat]
  /\ view.expanded \subseteq view.loaded /\ "area" \in view.loaded
  /\ view.loading \subseteq Units
  /\ \A n \in view.loading : calls[NodeTimer(n)] > 0

LEMMA NodeTimers == \A n \in Units : NodeTimer(n) \in Registry!Timers
  BY DEF NodeTimer, Registry!Timers

LEMMA BranchesInit == Registry!Init => BranchesInv
<1> SUFFICES ASSUME Registry!Init PROVE BranchesInv
  OBVIOUS
<1>1. RegistryRecord(view) /\ view.expanded = {"area"} /\ view.loaded = {"area"} /\ view.loading = {}
  BY DEF Registry!Init, RegistryRecord
<1>2. calls \in [Registry!Timers -> Nat]
  BY DEF Registry!Init
<1>3. QED BY <1>1, <1>2 DEF BranchesInv

\* The tree stays as it is, and its timers too.
LEMMA BranchesStay ==
  ASSUME BranchesInv, RegistryRecord(view'), view'.expanded = view.expanded,
         view'.loaded = view.loaded, view'.loading = view.loading,
         calls' \in [Registry!Timers -> Nat], \A n \in Units : calls'[NodeTimer(n)] >= calls[NodeTimer(n)]
  PROVE  BranchesInv'
<1>1. \A n \in view.loading : n \in Units /\ NodeTimer(n) \in Registry!Timers
  BY NodeTimers DEF BranchesInv
<1>2. \A n \in view.loading : calls'[NodeTimer(n)] > 0
  BY <1>1 DEF BranchesInv
<1>3. QED BY <1>2 DEF BranchesInv

\* A timer more or a timer less.
LEMMA TimersCount ==
  ASSUME calls \in [Registry!Timers -> Nat], NEW t \in Registry!Timers,
         Registry!Start(t) \/ Registry!Due(t)
  PROVE  /\ calls' \in [Registry!Timers -> Nat]
         /\ \A u \in Registry!Timers : u # t => calls'[u] = calls[u]
         /\ Registry!Start(t) => calls'[t] = calls[t] + 1
<1>1. calls[t] \in Nat
  OBVIOUS
<1>2. CASE Registry!Start(t)
  <2>1. calls' = [calls EXCEPT ![t] = calls[t] + 1]
    BY <1>2 DEF Registry!Start
  <2>2. calls[t] + 1 \in Nat
    BY <1>1
  <2>3. QED BY <2>1, <2>2
<1>3. CASE Registry!Due(t) /\ ~Registry!Start(t)
  <2>1. calls' = [calls EXCEPT ![t] = calls[t] - 1] /\ calls[t] - 1 \in Nat
    BY <1>1, <1>3 DEF Registry!Due
  <2>2. QED BY <1>3, <2>1
<1>4. QED BY <1>2, <1>3

LEMMA BranchClicked ==
  ASSUME BranchesInv, NEW n \in Registry!TreeNodes, Registry!HandleTreeNodeClick(n)
  PROVE  BranchesInv'
<1>0. /\ RegistryRecord(view) /\ calls \in [Registry!Timers -> Nat] /\ "area" \in view.loaded
      /\ view.expanded \subseteq view.loaded /\ view.loading \subseteq Units
      /\ \A m \in view.loading : calls[NodeTimer(m)] > 0
  BY DEF BranchesInv
<1>1. ASSUME NEW expanded, expanded \subseteq view.loaded, UNCHANGED calls,
             view' = [view EXCEPT !.branch = n, !.expanded = expanded]
      PROVE  BranchesInv'
  <2>1. /\ RegistryRecord(view') /\ view'.expanded = expanded /\ view'.loaded = view.loaded
        /\ view'.loading = view.loading
    BY <1>0, <1>1 DEF RegistryRecord
  <2>2. QED BY <1>0, <1>1, <2>1 DEF BranchesInv
<1>2. CASE /\ n \in view.expanded
           /\ view' = [view EXCEPT !.branch = n, !.expanded = view.expanded \ {n}]
           /\ UNCHANGED calls
  BY <1>0, <1>1, <1>2
<1>3. CASE /\ n \in view.loaded
           /\ view' = [view EXCEPT !.branch = n, !.expanded = view.expanded \cup {n}]
           /\ UNCHANGED calls
  <2>1. view.expanded \cup {n} \subseteq view.loaded
    BY <1>0, <1>3
  <2>2. QED BY <1>1, <1>3, <2>1
<1>4. CASE /\ n \notin view.loaded
           /\ view' = [view EXCEPT !.branch = n, !.loading = view.loading \cup {n}]
           /\ Registry!Start(NodeTimer(n))
  <2>1. n \in Units
    BY <1>0, <1>4 DEF Registry!TreeNodes
  <2>2. /\ calls' \in [Registry!Timers -> Nat] /\ calls'[NodeTimer(n)] = calls[NodeTimer(n)] + 1
        /\ \A u \in Registry!Timers : u # NodeTimer(n) => calls'[u] = calls[u]
    BY <1>0, <1>4, <2>1, NodeTimers, TimersCount
  <2>3. /\ RegistryRecord(view') /\ view'.expanded = view.expanded /\ view'.loaded = view.loaded
        /\ view'.loading = view.loading \cup {n}
    BY <1>0, <1>4 DEF RegistryRecord
  <2>4. ASSUME NEW m \in view'.loading PROVE calls'[NodeTimer(m)] > 0
    <3>1. NodeTimer(m) \in Registry!Timers /\ calls[NodeTimer(n)] \in Nat
      BY <1>0, <2>1, <2>3, NodeTimers
    <3>2. CASE NodeTimer(m) = NodeTimer(n)
      BY <2>2, <3>1, <3>2
    <3>3. CASE NodeTimer(m) # NodeTimer(n)
      <4>1. m \in view.loading
        BY <2>3, <3>3
      <4>2. QED BY <1>0, <2>2, <3>1, <3>3, <4>1
    <3>4. QED BY <3>2, <3>3
  <2>5. QED BY <1>0, <2>1, <2>2, <2>3, <2>4 DEF BranchesInv
<1>5. QED BY <1>2, <1>3, <1>4 DEF Registry!HandleTreeNodeClick, NodeTimer

LEMMA BranchLoaded ==
  ASSUME BranchesInv, NEW n \in Units, Registry!NodeLoaded(n)
  PROVE  BranchesInv'
<1>0. /\ RegistryRecord(view) /\ calls \in [Registry!Timers -> Nat] /\ "area" \in view.loaded
      /\ view.expanded \subseteq view.loaded /\ view.loading \subseteq Units
      /\ \A m \in view.loading : calls[NodeTimer(m)] > 0
  BY DEF BranchesInv
<1>1. /\ Registry!Due(NodeTimer(n))
      /\ view' = [view EXCEPT !.loading = view.loading \ {n}, !.loaded = view.loaded \cup {n},
                              !.expanded = view.expanded \cup {n}]
  BY <1>0 DEF Registry!NodeLoaded, NodeTimer, RegistryRecord
<1>2. /\ calls' \in [Registry!Timers -> Nat]
      /\ \A u \in Registry!Timers : u # NodeTimer(n) => calls'[u] = calls[u]
  BY <1>0, <1>1, NodeTimers, TimersCount
<1>3. /\ RegistryRecord(view') /\ view'.expanded = view.expanded \cup {n}
      /\ view'.loaded = view.loaded \cup {n} /\ view'.loading = view.loading \ {n}
  BY <1>0, <1>1 DEF RegistryRecord
<1>4. ASSUME NEW m \in view'.loading PROVE calls'[NodeTimer(m)] > 0
  <2>1. m # n /\ m \in view.loading /\ m \in Units
    BY <1>0, <1>3
  <2>2. NodeTimer(m) # NodeTimer(n) /\ NodeTimer(m) \in Registry!Timers
    BY <2>1, NodeTimers DEF NodeTimer
  <2>3. QED BY <1>0, <1>2, <2>1, <2>2
<1>5. QED BY <1>0, <1>2, <1>3, <1>4 DEF BranchesInv

\* The addresses and the filters.
LEMMA BranchesRouted ==
  ASSUME BranchesInv,
         \/ \E a : Registry!Open(a) \/ Registry!OpenLeaf(a) \/ Registry!OpenRow(a)
         \/ \E u : Registry!SetFilter(u)
         \/ Registry!ResetFilters \/ Registry!CloseScanner
  PROVE  BranchesInv'
<1>1. RegistryRecord(view) /\ calls \in [Registry!Timers -> Nat]
  BY DEF BranchesInv
<1>2. ASSUME NEW a, Registry!Open(a) \/ Registry!SetFilter(a) \/ Registry!ResetFilters \/ Registry!CloseScanner
      PROVE  BranchesInv'
  <2>1. /\ RegistryRecord(view') /\ view'.expanded = view.expanded
        /\ view'.loaded = view.loaded /\ view'.loading = view.loading /\ UNCHANGED calls
    BY <1>1, <1>2 DEF RegistryRecord, Registry!Open, Registry!SetFilter, Registry!ResetFilters,
                      Registry!CloseScanner
  <2>2. \A n \in Units : calls[NodeTimer(n)] \in Nat
    BY <1>1, NodeTimers
  <2>3. QED BY <1>1, <2>1, <2>2, BranchesStay
<1>3. QED BY <1>2 DEF Registry!OpenLeaf, Registry!OpenRow

\* The scanner's timers are of other kinds.
LEMMA BranchesScanned ==
  ASSUME BranchesInv,
         \/ Registry!HandleMobileQrTrigger \/ Registry!CameraReady
         \/ \E a \in Assets : Registry!HandleQrSelectScanMock(a) \/ Registry!Scanned(a)
  PROVE  BranchesInv'
<1>1. RegistryRecord(view) /\ calls \in [Registry!Timers -> Nat]
  BY DEF BranchesInv
<1>2. /\ RegistryRecord(view') /\ view'.expanded = view.expanded
      /\ view'.loaded = view.loaded /\ view'.loading = view.loading
  BY <1>1 DEF RegistryRecord, Registry!HandleMobileQrTrigger, Registry!CameraReady,
              Registry!HandleQrSelectScanMock, Registry!Scanned
<1>3. \E t \in Registry!Timers : t.for # "node" /\ (Registry!Start(t) \/ Registry!Due(t))
  <2>1. [for |-> "camera", of |-> None] \in Registry!Timers
        /\ \A a \in Assets : [for |-> "scan", of |-> a] \in Registry!Timers
    BY DEF Registry!Timers
  <2>2. QED BY <2>1 DEF Registry!HandleMobileQrTrigger, Registry!CameraReady,
               Registry!HandleQrSelectScanMock, Registry!Scanned
<1>4. PICK t \in Registry!Timers : t.for # "node" /\ (Registry!Start(t) \/ Registry!Due(t))
  BY <1>3
<1>5. /\ calls' \in [Registry!Timers -> Nat]
      /\ \A u \in Registry!Timers : u # t => calls'[u] = calls[u]
  BY <1>1, <1>4, TimersCount
<1>6. \A n \in Units : calls'[NodeTimer(n)] >= calls[NodeTimer(n)]
  <2> SUFFICES ASSUME NEW n \in Units PROVE calls'[NodeTimer(n)] >= calls[NodeTimer(n)]
    OBVIOUS
  <2>1. NodeTimer(n) \in Registry!Timers /\ NodeTimer(n) # t
    BY <1>4, NodeTimers DEF NodeTimer
  <2>2. calls[NodeTimer(n)] \in Nat
    BY <1>1, <2>1
  <2>3. QED BY <1>5, <2>1, <2>2
<1>7. QED BY <1>2, <1>5, <1>6, BranchesStay

LEMMA BranchesKeep ==
  ASSUME BranchesInv, [Registry!Next]_<<view, calls, server>>
  PROVE  BranchesInv'
<1>1. CASE UNCHANGED <<view, calls, server>>
  BY <1>1 DEF BranchesInv, RegistryRecord
<1>2. CASE Registry!Next
  BY <1>2, BranchClicked, BranchLoaded, BranchesRouted, BranchesScanned DEF Registry!Next
<1>3. QED BY <1>1, <1>2

LEMMA BranchesEnd == BranchesInv => Registry!BranchesSettle
<1> SUFFICES ASSUME BranchesInv PROVE Registry!BranchesSettle
  OBVIOUS
<1>1. \A n \in view.loading : NodeTimer(n) \in Registry!Timers /\ calls[NodeTimer(n)] > 0
  BY NodeTimers DEF BranchesInv
<1>2. (\A t \in Registry!Timers : calls[t] = 0) => view.loading = {}
  BY <1>1
<1>3. QED BY <1>1, <1>2 DEF BranchesInv, Registry!BranchesSettle, NodeTimer
-----------------------------------------------------------------------------
(* The importer and the wizard of compliance *)

PanelRecord(p) ==
  p = [acknowledged |-> p.acknowledged, importing |-> p.importing, importStep |-> p.importStep,
       clause |-> p.clause, filter |-> p.filter, form |-> p.form, typed |-> p.typed,
       wizard |-> p.wizard, latest |-> p.latest]

Importing(c) == c.op = "import" /\ c.of = "panel"
Compiling(c) == c.op = "compile" /\ c.of = "panel"

\* The intervals of the panel that is shown are of its tab, and so are its importer and its
\* wizard: this is why an answer that changes the tab takes back no wizard.
WizardsInv ==
  /\ HubRecord(view) /\ PanelRecord(view.panel)
  /\ \A c \in calls : c = [op |-> c.op, id |-> c.id, held |-> c.held, of |-> c.of]
  /\ \A c \in calls : /\ Importing(c) => view.tab = "regulations"
                      /\ Compiling(c) => view.tab = "audits"
  /\ view.panel.importing => view.tab = "regulations"
  /\ view.panel.wizard # 0 => view.tab = "audits"
  /\ Regulations!WizardsEnd

LEMMA WizardsInit == Regulations!Init => WizardsInv
<1> SUFFICES ASSUME Regulations!Init PROVE WizardsInv
  OBVIOUS
<1>1. HubRecord(view) /\ view.panel = Regulations!Panel /\ calls = {}
  BY DEF Regulations!Init, Regulations!Hub, HubRecord
<1>2. PanelRecord(view.panel) /\ ~view.panel.importing /\ view.panel.wizard = 0
  BY <1>1 DEF PanelRecord, Regulations!Panel
<1>3. QED BY <1>1, <1>2 DEF WizardsInv, Regulations!WizardsEnd

\* Steps that leave the intervals and start neither an import nor a compilation.
LEMMA WizardsStay ==
  ASSUME WizardsInv, HubRecord(view'), PanelRecord(view'.panel), view'.tab = view.tab,
         view'.panel.importing => \/ view.tab = "regulations" /\ view'.panel.importStep = 1
                                  \/ /\ view.panel.importing
                                     /\ view'.panel.importStep = view.panel.importStep,
         \/ view'.panel.wizard \in {0, view.panel.wizard}
         \/ view.tab = "audits" /\ view'.panel.wizard = 1,
         UNCHANGED calls
  PROVE  WizardsInv'
  BY DEF WizardsInv, Regulations!WizardsEnd

\* A panel that is drawn anew has neither, and what ran for another one is the hub's.
LEMMA WizardsGone ==
  ASSUME WizardsInv, NEW of, of # "panel", HubRecord(view'), view'.panel = Regulations!Panel,
         calls' = {[c EXCEPT !.of = IF @ = "panel" THEN of ELSE @] : c \in calls}
  PROVE  WizardsInv'
<1>1. PanelRecord(view'.panel) /\ ~view'.panel.importing /\ view'.panel.wizard = 0
  BY DEF PanelRecord, Regulations!Panel
<1>2. ASSUME NEW d \in calls'
      PROVE  d = [op |-> d.op, id |-> d.id, held |-> d.held, of |-> d.of] /\ d.of # "panel"
  <2>1. PICK c \in calls : d = [c EXCEPT !.of = IF c.of = "panel" THEN of ELSE c.of]
    OBVIOUS
  <2>2. c = [op |-> c.op, id |-> c.id, held |-> c.held, of |-> c.of]
    BY DEF WizardsInv
  <2>3. QED BY <2>1, <2>2
<1>3. QED BY <1>1, <1>2 DEF WizardsInv, Regulations!WizardsEnd, Importing, Compiling

LEMMA WizardsRouted ==
  ASSUME WizardsInv, NEW tab, NEW reg, NEW gap, NEW drill,
         Regulations!Route(tab, reg, gap, [view EXCEPT !.drill = drill])
  PROVE  WizardsInv'
<1>1. HubRecord(view) /\ PanelRecord(view.panel)
  BY DEF WizardsInv
<1>2. /\ HubRecord(view') /\ view'.tab = tab
      /\ view'.panel = IF tab = view.tab THEN view.panel ELSE Regulations!Panel
  BY <1>1 DEF HubRecord, Regulations!Route
<1>3. CASE tab = view.tab
  <2>1. UNCHANGED calls
    BY <1>3 DEF Regulations!Route
  <2>2. QED BY <1>1, <1>2, <1>3, <2>1, WizardsStay
<1>4. CASE tab # view.tab
  <2>1. calls' = {[c EXCEPT !.of = IF @ = "panel" THEN "hub" ELSE @] : c \in calls}
    BY <1>4 DEF Regulations!Route
  <2>2. QED BY <1>2, <1>4, <2>1, WizardsGone
<1>5. QED BY <1>3, <1>4

LEMMA WizardsRoutes ==
  ASSUME WizardsInv,
         \/ \E t \in Regulations!Tabs : Regulations!SwitchTab(t)
         \/ \E r : Regulations!OpenRegulation(r)
         \/ \E g : Regulations!OpenGap(g)
         \/ \E g : Regulations!OpenRow(g)
         \/ \E d \in BOOLEAN : Regulations!HandleHeatmapDrilldown(d)
         \/ Regulations!LeaveGap
  PROVE  WizardsInv'
<1>1. view = [view EXCEPT !.drill = view.drill]
  BY DEF WizardsInv, HubRecord
<1>2. \A tab, reg, gap : Regulations!Route(tab, reg, gap, view) => WizardsInv'
  BY <1>1, WizardsRouted
<1>3. ASSUME NEW t \in Regulations!Tabs, Regulations!SwitchTab(t) PROVE WizardsInv'
  BY <1>2, <1>3, WizardsRouted DEF Regulations!SwitchTab
<1>4. CASE \E r : Regulations!OpenRegulation(r)
  BY <1>2, <1>4 DEF Regulations!OpenRegulation
<1>5. CASE \E g : Regulations!OpenGap(g) \/ Regulations!OpenRow(g)
  BY <1>2, <1>5 DEF Regulations!OpenGap, Regulations!OpenRow
<1>6. ASSUME NEW d \in BOOLEAN, Regulations!HandleHeatmapDrilldown(d) PROVE WizardsInv'
  BY <1>6, WizardsRouted DEF Regulations!HandleHeatmapDrilldown
<1>7. CASE Regulations!LeaveGap
  BY <1>2, <1>7 DEF Regulations!LeaveGap
<1>8. QED BY <1>3, <1>4, <1>5, <1>6, <1>7

LEMMA WizardsReopen ==
  ASSUME WizardsInv, Regulations!Reopen
  PROVE  WizardsInv'
<1>1. HubRecord(view') /\ view'.panel = Regulations!Panel
  BY DEF Regulations!Reopen, Regulations!Hub, HubRecord
<1>2. PanelRecord(view'.panel) /\ ~view'.panel.importing /\ view'.panel.wizard = 0
  BY <1>1 DEF PanelRecord, Regulations!Panel
<1>3. \A d \in calls' : d = [op |-> d.op, id |-> d.id, held |-> d.held, of |-> d.of] /\ d.of = "gone"
  <2> SUFFICES ASSUME NEW c \in calls
               PROVE  LET d == [c EXCEPT !.of = "gone"]
                      IN  d = [op |-> d.op, id |-> d.id, held |-> d.held, of |-> d.of] /\ d.of = "gone"
    BY DEF Regulations!Reopen
  <2>1. c = [op |-> c.op, id |-> c.id, held |-> c.held, of |-> c.of]
    BY DEF WizardsInv
  <2>2. QED BY <2>1
<1>4. QED BY <1>1, <1>2, <1>3 DEF WizardsInv, Regulations!WizardsEnd, Importing, Compiling

\* What is done in the panels, but for the two runs.
LEMMA WizardsHooks ==
  ASSUME WizardsInv, NEW x,
         \/ Regulations!HandleAcknowledgeAlert \/ Regulations!HandleStartImport
         \/ Regulations!CancelImport \/ Regulations!FilterStatus(x) \/ Regulations!ToggleForm(x)
         \/ Regulations!Type \/ Regulations!HandleStartCompilation \/ Regulations!CloseWizard
         \/ Regulations!HandleAcceptRiskSubmit \/ Regulations!HandleAssignOwnerSubmit
  PROVE  WizardsInv'
<1>1. HubRecord(view) /\ PanelRecord(view.panel)
  BY DEF WizardsInv
<1>2. /\ HubRecord(view') /\ view'.tab = view.tab /\ UNCHANGED calls
  BY <1>1 DEF HubRecord, Regulations!HandleAcknowledgeAlert, Regulations!HandleStartImport,
              Regulations!CancelImport, Regulations!FilterStatus, Regulations!ToggleForm,
              Regulations!Type, Regulations!HandleStartCompilation, Regulations!CloseWizard,
              Regulations!HandleAcceptRiskSubmit, Regulations!HandleAssignOwnerSubmit,
              Regulations!UpdateGap, Regulations!Local, Regulations!Hooks
<1>3. ASSUME NEW panel, view'.panel = panel, PanelRecord(panel),
             panel.importing => \/ view.tab = "regulations" /\ panel.importStep = 1
                                \/ view.panel.importing /\ panel.importStep = view.panel.importStep,
             \/ panel.wizard \in {0, view.panel.wizard}
             \/ view.tab = "audits" /\ panel.wizard = 1
      PROVE  WizardsInv'
  BY <1>2, <1>3, WizardsStay
<1>4. CASE Regulations!HandleStartImport
  <2>1. view'.panel = [view.panel EXCEPT !.importing = TRUE, !.importStep = 1]
        /\ view.tab = "regulations"
    BY <1>1, <1>4 DEF HubRecord, Regulations!HandleStartImport, Regulations!Local, Regulations!Hooks
  <2>2. PanelRecord(view'.panel) /\ view'.panel.wizard = view.panel.wizard
        /\ view'.panel.importStep = 1
    BY <1>1, <2>1 DEF PanelRecord
  <2>3. QED BY <1>3, <2>1, <2>2
<1>5. CASE Regulations!CancelImport
  <2>1. view'.panel = [view.panel EXCEPT !.importing = FALSE]
    BY <1>1, <1>5 DEF HubRecord, Regulations!CancelImport, Regulations!Local, Regulations!Hooks
  <2>2. PanelRecord(view'.panel) /\ view'.panel.wizard = view.panel.wizard /\ ~view'.panel.importing
    BY <1>1, <2>1 DEF PanelRecord
  <2>3. QED BY <1>3, <2>2
<1>6. CASE Regulations!HandleStartCompilation \/ Regulations!CloseWizard
  <2>1. PICK wizard \in {0, 1} : /\ view'.panel = [view.panel EXCEPT !.wizard = wizard]
                                 /\ wizard = 1 => view.tab = "audits"
    BY <1>1, <1>6 DEF HubRecord, Regulations!HandleStartCompilation, Regulations!CloseWizard,
                      Regulations!Local, Regulations!Hooks
  <2>2. PanelRecord(view'.panel) /\ view'.panel.wizard = wizard
        /\ view'.panel.importing = view.panel.importing
        /\ view'.panel.importStep = view.panel.importStep
    BY <1>1, <2>1 DEF PanelRecord
  <2>3. QED BY <1>3, <2>1, <2>2
<1>7. CASE \/ Regulations!HandleAcknowledgeAlert \/ Regulations!FilterStatus(x)
           \/ Regulations!ToggleForm(x) \/ Regulations!Type
           \/ Regulations!HandleAcceptRiskSubmit \/ Regulations!HandleAssignOwnerSubmit
  <2>1. /\ PanelRecord(view'.panel) /\ view'.panel.wizard = view.panel.wizard
        /\ view'.panel.importing = view.panel.importing
        /\ view'.panel.importStep = view.panel.importStep
    <3>1. CASE Regulations!HandleAcknowledgeAlert
      <4>1. view'.panel = [view.panel EXCEPT !.acknowledged = TRUE]
        BY <1>1, <3>1 DEF HubRecord, Regulations!HandleAcknowledgeAlert, Regulations!Local, Regulations!Hooks
      <4>2. QED BY <1>1, <4>1 DEF PanelRecord
    <3>2. CASE Regulations!FilterStatus(x)
      <4>1. view'.panel = [view.panel EXCEPT !.filter = x]
        BY <1>1, <3>2 DEF HubRecord, Regulations!FilterStatus, Regulations!Local, Regulations!Hooks
      <4>2. QED BY <1>1, <4>1 DEF PanelRecord
    <3>3. CASE Regulations!ToggleForm(x)
      <4>1. PICK form : view'.panel = [view.panel EXCEPT !.form = form]
        BY <1>1, <3>3 DEF HubRecord, Regulations!ToggleForm, Regulations!Local, Regulations!Hooks
      <4>2. QED BY <1>1, <4>1 DEF PanelRecord
    <3>4. CASE Regulations!Type
      <4>1. view'.panel = [view.panel EXCEPT !.typed = TRUE]
        BY <1>1, <3>4 DEF HubRecord, Regulations!Type, Regulations!Local, Regulations!Hooks
      <4>2. QED BY <1>1, <4>1 DEF PanelRecord
    <3>5. CASE Regulations!HandleAcceptRiskSubmit
      <4>1. view'.panel = [view.panel EXCEPT !.form = None, !.typed = FALSE]
        BY <1>1, <3>5 DEF HubRecord, Regulations!HandleAcceptRiskSubmit, Regulations!UpdateGap
      <4>2. QED BY <1>1, <4>1 DEF PanelRecord
    <3>6. CASE Regulations!HandleAssignOwnerSubmit
      <4>1. view'.panel = [view.panel EXCEPT !.form = None]
        BY <1>1, <3>6 DEF HubRecord, Regulations!HandleAssignOwnerSubmit, Regulations!UpdateGap
      <4>2. QED BY <1>1, <4>1 DEF PanelRecord
    <3>7. QED BY <1>7, <3>1, <3>2, <3>3, <3>4, <3>5, <3>6
  <2>2. QED BY <1>3, <2>1
<1>8. QED BY <1>4, <1>5, <1>6, <1>7

LEMMA WizardsLists ==
  ASSUME WizardsInv, NEW x,
         \/ Regulations!SelectClause(x) \/ Regulations!LeaveRegulation
         \/ Regulations!HandleUpdateMappingStatus(x) \/ Regulations!HandleCreateRemediation
  PROVE  WizardsInv'
<1>1. HubRecord(view) /\ PanelRecord(view.panel)
  BY DEF WizardsInv
<1>2. PICK clause :
        /\ HubRecord(view') /\ view'.tab = view.tab /\ UNCHANGED calls
        /\ view'.panel = [view.panel EXCEPT !.clause = clause]
  <2>1. CASE Regulations!SelectClause(x)
    BY <1>1, <2>1 DEF HubRecord, Regulations!SelectClause
  <2>2. CASE Regulations!LeaveRegulation
    BY <1>1, <2>2 DEF HubRecord, Regulations!LeaveRegulation
  <2>3. CASE Regulations!HandleUpdateMappingStatus(x)
    <3>1. PICK regs, status :
            view' = [view EXCEPT !.regs = regs,
                                 !.panel = [view.panel EXCEPT !.clause = [view.panel.clause EXCEPT !.status = status]]]
      BY <1>1, <2>3 DEF HubRecord, Regulations!HandleUpdateMappingStatus
    <3>2. QED BY <1>1, <2>3, <3>1 DEF HubRecord, Regulations!HandleUpdateMappingStatus
  <2>4. CASE Regulations!HandleCreateRemediation
    <3>1. view.panel = [view.panel EXCEPT !.clause = view.panel.clause]
      BY <1>1 DEF PanelRecord
    <3>2. HubRecord(view') /\ view'.tab = view.tab /\ UNCHANGED calls /\ view'.panel = view.panel
      BY <1>1, <2>4 DEF HubRecord, Regulations!HandleCreateRemediation
    <3>3. QED BY <3>1, <3>2
  <2>5. QED BY <2>1, <2>2, <2>3, <2>4
<1>3. /\ PanelRecord(view'.panel) /\ view'.panel.wizard = view.panel.wizard
      /\ view'.panel.importing = view.panel.importing
      /\ view'.panel.importStep = view.panel.importStep
  BY <1>1, <1>2 DEF PanelRecord
<1>4. QED BY <1>2, <1>3, WizardsStay

\* An import or a compilation begins, with an interval of its own.
LEMMA WizardsStart ==
  ASSUME WizardsInv, Regulations!HandleExecuteImport \/ Regulations!HandleRunCompilation
  PROVE  WizardsInv'
<1>0. HubRecord(view) /\ PanelRecord(view.panel)
  BY DEF WizardsInv
<1>1. CASE Regulations!HandleExecuteImport
  <2>1. PICK r \in Imports :
          calls' = calls \cup {[op |-> "import", id |-> r, held |-> view.regs, of |-> "panel"]}
    BY <1>1 DEF Regulations!HandleExecuteImport
  <2>2. PICK c : c = [op |-> "import", id |-> r, held |-> view.regs, of |-> "panel"]
    OBVIOUS
  <2>3. Importing(c) /\ ~Compiling(c) /\ calls' = calls \cup {c}
        /\ c = [op |-> c.op, id |-> c.id, held |-> c.held, of |-> c.of]
    BY <2>1, <2>2 DEF Importing, Compiling
  <2>4. view' = [view EXCEPT !.panel = [view.panel EXCEPT !.importStep = 2]] /\ view.panel.importing
    BY <1>1 DEF Regulations!HandleExecuteImport, Regulations!Hooks
  <2>5. /\ HubRecord(view') /\ view'.tab = view.tab
        /\ view'.panel = [view.panel EXCEPT !.importStep = 2]
    BY <1>0, <2>4 DEF HubRecord
  <2>6. PanelRecord(view'.panel) /\ view'.panel.importing = view.panel.importing
        /\ view'.panel.wizard = view.panel.wizard
    BY <1>0, <2>5 DEF PanelRecord
  <2>7. view.tab = "regulations" /\ view.panel.wizard = 0
    BY <2>4 DEF WizardsInv
  <2>8. (\E d \in calls' : Importing(d)) /\ view'.panel.wizard # 2
    BY <2>3, <2>6, <2>7
  <2>9. \A d \in calls' : /\ Importing(d) => view'.tab = "regulations"
                          /\ Compiling(d) => view'.tab = "audits"
                          /\ d = [op |-> d.op, id |-> d.id, held |-> d.held, of |-> d.of]
    BY <2>3, <2>5, <2>7 DEF WizardsInv
  <2>10. Regulations!WizardsEnd'
    BY <2>8 DEF Regulations!WizardsEnd, Importing
  <2>11. QED BY <2>5, <2>6, <2>7, <2>9, <2>10 DEF WizardsInv
<1>2. CASE Regulations!HandleRunCompilation
  <2>1. PICK p \in Packages :
          calls' = calls \cup {[op |-> "compile", id |-> p, held |-> view.packages, of |-> "panel"]}
    BY <1>2 DEF Regulations!HandleRunCompilation
  <2>2. PICK c : c = [op |-> "compile", id |-> p, held |-> view.packages, of |-> "panel"]
    OBVIOUS
  <2>3. Compiling(c) /\ ~Importing(c) /\ calls' = calls \cup {c}
        /\ c = [op |-> c.op, id |-> c.id, held |-> c.held, of |-> c.of]
    BY <2>1, <2>2 DEF Importing, Compiling
  <2>4. view' = [view EXCEPT !.panel = [view.panel EXCEPT !.wizard = 2]] /\ view.panel.wizard = 1
    BY <1>2 DEF Regulations!HandleRunCompilation, Regulations!Hooks
  <2>5. /\ HubRecord(view') /\ view'.tab = view.tab
        /\ view'.panel = [view.panel EXCEPT !.wizard = 2]
    BY <1>0, <2>4 DEF HubRecord
  <2>6. PanelRecord(view'.panel) /\ view'.panel.importing = view.panel.importing
    BY <1>0, <2>5 DEF PanelRecord
  <2>7. view.tab = "audits" /\ ~view.panel.importing
    BY <2>4 DEF WizardsInv
  <2>8. \E d \in calls' : Compiling(d)
    BY <2>3
  <2>9. \A d \in calls' : /\ Importing(d) => view'.tab = "regulations"
                          /\ Compiling(d) => view'.tab = "audits"
                          /\ d = [op |-> d.op, id |-> d.id, held |-> d.held, of |-> d.of]
    BY <2>3, <2>5, <2>7 DEF WizardsInv
  <2>10. Regulations!WizardsEnd'
    BY <2>6, <2>7, <2>8 DEF Regulations!WizardsEnd, Compiling
  <2>11. QED BY <2>5, <2>6, <2>7, <2>9, <2>10 DEF WizardsInv
<1>3. QED BY <1>1, <1>2

\* The end of an import of the panel that is shown hides its importer; that of another one,
\* or of a panel that is gone, leaves it, or draws the panel of the registry.
LEMMA WizardsImported ==
  ASSUME WizardsInv, NEW c \in calls, Regulations!Imported(c)
  PROVE  WizardsInv'
<1>0. HubRecord(view) /\ PanelRecord(view.panel)
  BY DEF WizardsInv
<1>1. calls' = {[d EXCEPT !.of = IF @ = "panel" /\ view.tab # "regulations" THEN "hub" ELSE @] :
                   d \in calls \ {c}}
  BY DEF Regulations!Imported
<1>2. CASE c.of = "panel" \/ view.tab = "regulations"
  <2>1. view.tab = "regulations" /\ view.panel.wizard = 0
    BY <1>2 DEF WizardsInv, Importing, Regulations!Imported
  <2>2. \A d \in calls : d = [op |-> d.op, id |-> d.id, held |-> d.held, of |-> d.of]
    BY DEF WizardsInv
  <2>3. calls' = calls \ {c}
    <3>1. \A d \in calls : [d EXCEPT !.of = IF d.of = "panel" /\ view.tab # "regulations" THEN "hub" ELSE d.of] = d
      BY <2>1, <2>2
    <3>2. QED BY <1>1, <3>1
  <2> DEFINE regs == Regulations!With(c.held, c.id)
             clause == [reg |-> c.id, status |-> "Confirmed"]
             kept == IF c.of = "gone" THEN view.regs ELSE regs
             panel == [view.panel EXCEPT !.importing = FALSE, !.importStep = 0, !.clause = clause]
  <2>4. /\ c.of = "panel" => view' = [view EXCEPT !.regs = regs, !.tab = "regulations",
                                                  !.reg = c.id, !.gap = None, !.panel = panel]
        /\ c.of # "panel" => view' = [view EXCEPT !.regs = kept, !.tab = "regulations",
                                                  !.reg = c.id, !.gap = None]
    <3>1. CASE c.of = "panel"
      <4>1. /\ [view EXCEPT !.regs = IF c.of = "gone" THEN @ ELSE regs] = [view EXCEPT !.regs = regs]
            /\ [view EXCEPT !.regs = regs].panel = view.panel
        BY <1>0, <3>1 DEF HubRecord
      <4>2. view' = [[[view EXCEPT !.regs = regs]
                        EXCEPT !.tab = "regulations", !.reg = c.id, !.gap = None]
                       EXCEPT !.panel.importing = FALSE, !.panel.importStep = 0, !.panel.clause = clause]
        BY <3>1, <4>1 DEF Regulations!Imported
      <4>3. QED BY <1>0, <3>1, <4>2 DEF HubRecord, PanelRecord
    <3>2. CASE c.of # "panel"
      <4>1. [view EXCEPT !.regs = IF c.of = "gone" THEN @ ELSE regs] = [view EXCEPT !.regs = kept]
            /\ [view EXCEPT !.regs = kept].tab = "regulations"
        BY <1>0, <2>1 DEF HubRecord
      <4>2. view' = [[view EXCEPT !.regs = kept]
                        EXCEPT !.tab = "regulations", !.reg = c.id, !.gap = None]
        BY <3>2, <4>1 DEF Regulations!Imported
      <4>3. QED BY <1>0, <3>2, <4>2 DEF HubRecord
    <3>3. QED BY <3>1, <3>2
  <2> HIDE DEF regs, clause, kept
  <2>5. CASE c.of = "panel"
    <3>1. HubRecord(view') /\ view'.tab = "regulations" /\ view'.panel = panel
      BY <1>0, <2>4, <2>5 DEF HubRecord
    <3>2. PanelRecord(view'.panel) /\ ~view'.panel.importing /\ view'.panel.wizard = 0
      BY <1>0, <2>1, <3>1 DEF PanelRecord
    <3>3. QED BY <2>1, <2>3, <3>1, <3>2 DEF WizardsInv, Regulations!WizardsEnd
  <2>6. CASE c.of # "panel"
    <3>1. HubRecord(view') /\ view'.tab = "regulations" /\ view'.panel = view.panel
      BY <1>0, <2>4, <2>6 DEF HubRecord
    <3>2. Regulations!WizardsEnd'
      <4>1. \A d \in calls : d.of = "panel" => d \in calls'
        BY <2>3, <2>6
      <4>2. QED BY <2>1, <3>1, <4>1 DEF WizardsInv, Regulations!WizardsEnd
    <3>3. QED BY <2>1, <2>3, <3>1, <3>2 DEF WizardsInv
  <2>7. QED BY <2>5, <2>6
<1>3. CASE c.of # "panel" /\ view.tab # "regulations"
  <2>1. PICK regs :
          view' = [view EXCEPT !.regs = regs, !.tab = "regulations", !.reg = c.id, !.gap = None,
                               !.panel = Regulations!Panel]
    BY <1>0, <1>3 DEF HubRecord, Regulations!Imported
  <2>2. HubRecord(view') /\ view'.panel = Regulations!Panel
    BY <1>0, <2>1 DEF HubRecord
  <2>3. PanelRecord(view'.panel) /\ ~view'.panel.importing /\ view'.panel.wizard = 0
    BY <2>2 DEF PanelRecord, Regulations!Panel
  <2>4. ASSUME NEW d \in calls'
        PROVE  d = [op |-> d.op, id |-> d.id, held |-> d.held, of |-> d.of] /\ d.of # "panel"
    <3>1. PICK e \in calls : d = [e EXCEPT !.of = IF e.of = "panel" THEN "hub" ELSE e.of]
      BY <1>1, <1>3
    <3>2. e = [op |-> e.op, id |-> e.id, held |-> e.held, of |-> e.of]
      BY DEF WizardsInv
    <3>3. QED BY <3>1, <3>2
  <2>5. QED BY <2>2, <2>3, <2>4 DEF WizardsInv, Regulations!WizardsEnd, Importing, Compiling
<1>4. QED BY <1>2, <1>3

LEMMA WizardsCompiled ==
  ASSUME WizardsInv, NEW c \in calls, Regulations!Compiled(c)
  PROVE  WizardsInv'
<1>0. HubRecord(view) /\ PanelRecord(view.panel) /\ c.op = "compile" /\ calls' = calls \ {c}
  BY DEF WizardsInv, Regulations!Compiled
<1>1. CASE c.of = "panel"
  <2>1. PICK wizard \in {0, 3}, packages \in {c.held \cup {c.id}} :
             view' = [view EXCEPT !.packages = packages,
                                  !.panel = [view.panel EXCEPT !.latest = c.id, !.wizard = wizard]]
    <3>1. PICK wizard \in {0, 3} : wizard = IF view.panel.wizard = 0 THEN 0 ELSE 3
      OBVIOUS
    <3>2. QED BY <1>0, <1>1, <3>1 DEF HubRecord, PanelRecord, Regulations!Compiled
  <2>2. /\ HubRecord(view') /\ view'.tab = view.tab
        /\ view'.panel = [view.panel EXCEPT !.latest = c.id, !.wizard = wizard]
    BY <1>0, <2>1 DEF HubRecord
  <2>3. PanelRecord(view'.panel) /\ view'.panel.importing = view.panel.importing
        /\ view'.panel.wizard # 2
    <3>1. wizard # 2
      OBVIOUS
    <3>2. QED BY <1>0, <2>2, <3>1 DEF PanelRecord
  <2>4. view.tab = "audits" /\ ~view.panel.importing
    BY <1>0, <1>1 DEF WizardsInv, Compiling
  <2>5. QED BY <1>0, <2>2, <2>3, <2>4 DEF WizardsInv, Regulations!WizardsEnd
<1>2. CASE c.of # "panel"
  <2>1. HubRecord(view') /\ view'.tab = view.tab /\ view'.panel = view.panel
    BY <1>0, <1>2 DEF HubRecord, Regulations!Compiled
  <2>2. \A d \in calls : d.of = "panel" => d \in calls'
    BY <1>0, <1>2
  <2>3. QED BY <1>0, <2>1, <2>2 DEF WizardsInv, Regulations!WizardsEnd
<1>3. QED BY <1>1, <1>2

LEMMA WizardsKeep ==
  ASSUME WizardsInv, [Regulations!Next]_<<view, calls, server>>
  PROVE  WizardsInv'
<1>1. CASE UNCHANGED <<view, calls, server>>
  BY <1>1 DEF WizardsInv, HubRecord, PanelRecord, Regulations!WizardsEnd
<1>2. CASE Regulations!Next
  BY <1>2, WizardsRoutes, WizardsReopen, WizardsHooks, WizardsLists, WizardsStart,
     WizardsImported, WizardsCompiled DEF Regulations!Next
<1>3. QED BY <1>1, <1>2

-----------------------------------------------------------------------------
(* Command palette *)

LEMMA PaletteMounted == Init /\ route = "palette" => Palette!Init
  BY DEF Init, Mounted

LEMMA PaletteStep == [Next]_vars /\ route = "palette" => [Palette!Next]_<<view, calls, server>>
  BY DEF Next, vars

PaletteRecord(v) ==
  v = [open |-> v.open, search |-> v.search, debounced |-> v.debounced, results |-> v.results,
       isLoading |-> v.isLoading, activeIndex |-> v.activeIndex]

PaletteInv ==
  /\ PaletteRecord(view) /\ {view.search, view.debounced} \subseteq Palette!Inputs
  /\ calls \in Seq(Palette!Inputs)
  /\ view.isLoading => calls # <<>>

LEMMA PaletteInit == Palette!Init => PaletteInv
  BY DEF Palette!Init, PaletteInv, PaletteRecord, Palette!Inputs

LEMMA PaletteOpens ==
  ASSUME PaletteInv, Palette!Toggle \/ Palette!Debounce
  PROVE  PaletteInv'
<1> DEFINE text == view'.debounced
<1>1. PaletteRecord(view) /\ {view.search, view.debounced} \subseteq Palette!Inputs
      /\ calls \in Seq(Palette!Inputs) /\ (view.isLoading => calls # <<>>)
  BY DEF PaletteInv
<1>2. /\ PaletteRecord(view') /\ {view'.search, text} \subseteq Palette!Inputs
      /\ \/ calls' = calls /\ view'.isLoading = view.isLoading
         \/ calls' = Append(calls, text)
  BY <1>1 DEF Palette!Toggle, Palette!Debounce, PaletteRecord
<1> HIDE DEF text
<1>3. calls' \in Seq(Palette!Inputs) /\ (view'.isLoading => calls' # <<>>)
  <2>1. CASE calls' = Append(calls, text)
    <3>1. Append(calls, text) \in Seq(Palette!Inputs) /\ Append(calls, text) # <<>>
      BY <1>1, <1>2
    <3>2. QED BY <2>1, <3>1
  <2>2. CASE calls' = calls /\ view'.isLoading = view.isLoading
    BY <1>1, <2>2
  <2>3. QED BY <1>2, <2>1, <2>2
<1>4. QED BY <1>2, <1>3 DEF PaletteInv, text

LEMMA PaletteAnswers ==
  ASSUME PaletteInv, NEW i \in DOMAIN calls, Palette!Answered(i) \/ Palette!Failed(i)
  PROVE  PaletteInv'
<1>1. PaletteRecord(view) /\ {view.search, view.debounced} \subseteq Palette!Inputs
      /\ calls \in Seq(Palette!Inputs) /\ i \in 1 .. Len(calls)
  BY DEF PaletteInv
<1>2. calls' \in Seq(Palette!Inputs)
  BY <1>1, TakenOut DEF Palette!Answered, Palette!Failed, Palette!TakeOut, TakeOut
<1>3. /\ PaletteRecord(view') /\ view'.search = view.search /\ view'.debounced = view.debounced
      /\ ~view'.isLoading
  BY <1>1 DEF Palette!Answered, Palette!Failed, PaletteRecord
<1>4. QED BY <1>1, <1>2, <1>3 DEF PaletteInv

\* What a person does in the box calls nothing, and a choice closes the palette.
LEMMA PaletteWorks ==
  ASSUME PaletteInv,
         \/ Palette!ArrowDown \/ Palette!ArrowUp \/ Palette!Enter \/ Palette!ClearRecentSearches
         \/ \E text \in Palette!Inputs : Palette!Type(text)
         \/ \E i : Palette!Hover(i) \/ Palette!Click(i)
  PROVE  PaletteInv'
<1>1. PaletteRecord(view) /\ {view.search, view.debounced} \subseteq Palette!Inputs
      /\ Blank \in Palette!Inputs
  BY DEF PaletteInv, Palette!Inputs
<1>2. \/ view' = [view EXCEPT !.open = FALSE, !.search = Blank]
      \/ \E text \in Palette!Inputs : view' = [view EXCEPT !.search = text]
      \/ \E n : view' = [view EXCEPT !.activeIndex = n]
      \/ view' = view
  BY DEF Palette!ArrowDown, Palette!ArrowUp, Palette!Enter, Palette!ClearRecentSearches,
         Palette!Type, Palette!Hover, Palette!Click, Palette!Choose
<1>3. UNCHANGED calls
  BY DEF Palette!ArrowDown, Palette!ArrowUp, Palette!Enter, Palette!ClearRecentSearches,
         Palette!Type, Palette!Hover, Palette!Click, Palette!Choose
<1>4. /\ PaletteRecord(view') /\ view'.search \in Palette!Inputs /\ view'.debounced = view.debounced
      /\ view'.isLoading = view.isLoading
  BY <1>1, <1>2 DEF PaletteRecord
<1>5. QED BY <1>1, <1>3, <1>4 DEF PaletteInv

LEMMA PaletteKeeps ==
  ASSUME PaletteInv, [Palette!Next]_<<view, calls, server>>
  PROVE  PaletteInv'
<1>1. CASE UNCHANGED <<view, calls, server>>
  BY <1>1 DEF PaletteInv, PaletteRecord
<1>2. CASE Palette!Next
  BY <1>2, PaletteOpens, PaletteAnswers, PaletteWorks DEF Palette!Next
<1>3. QED BY <1>1, <1>2

-----------------------------------------------------------------------------
(* One document *)

LEMMA DetailMounted == Init /\ route = "document" => Detail!Init
  BY DEF Init, Mounted

LEMMA DetailStep == [Next]_vars /\ route = "document" => [Detail!Next]_<<view, calls, server>>
  BY DEF Next, vars

DetailRecord(v) ==
  v = [docId |-> v.docId, doc |-> v.doc, isLoading |-> v.isLoading, error |-> v.error,
       page |-> v.page, review |-> v.review, editing |-> v.editing, comments |-> v.comments,
       highlight |-> v.highlight, timers |-> v.timers]

DetailInv ==
  /\ DetailRecord(view) /\ calls \in Seq(Addressed) /\ view.docId \in Addressed
  /\ view.isLoading => calls # <<>>

LEMMA DetailInit == Detail!Init => DetailInv
<1> SUFFICES ASSUME Detail!Init PROVE DetailInv
  OBVIOUS
<1>1. PICK d \in Addressed :
        /\ view = [docId |-> d, doc |-> None, isLoading |-> TRUE, error |-> FALSE, page |-> 1,
                   review |-> Detail!Unreviewed, editing |-> None, comments |-> 0,
                   highlight |-> None, timers |-> 0]
        /\ calls = <<d>>
  BY DEF Detail!Init
<1>2. DetailRecord(view) /\ view.docId = d
  BY <1>1 DEF DetailRecord
<1>3. <<d>> \in Seq(Addressed) /\ <<d>> # <<>>
  OBVIOUS
<1>4. QED BY <1>1, <1>2, <1>3 DEF DetailInv

LEMMA DetailFetches ==
  ASSUME DetailInv, NEW d \in Addressed, DetailRecord(view'), view'.docId = d,
         calls' = Append(calls, d)
  PROVE  DetailInv'
<1>1. calls \in Seq(Addressed)
  BY DEF DetailInv
<1>2. calls' \in Seq(Addressed) /\ calls' # <<>>
  BY <1>1
<1>3. QED BY <1>2 DEF DetailInv

LEMMA DetailOpens ==
  ASSUME DetailInv, NEW d \in Addressed, Detail!Open(d)
  PROVE  DetailInv'
<1>1. DetailRecord(view)
  BY DEF DetailInv
<1>2. /\ view' = [view EXCEPT !.docId = d, !.isLoading = TRUE, !.error = FALSE]
      /\ calls' = Append(calls, d)
  BY DEF Detail!Open, Detail!Fetch
<1>3. DetailRecord(view') /\ view'.docId = d
  BY <1>1, <1>2 DEF DetailRecord
<1>4. QED BY <1>2, <1>3, DetailFetches

LEMMA DetailRefetches ==
  ASSUME DetailInv, Detail!FetchAgain
  PROVE  DetailInv'
<1>1. DetailRecord(view) /\ view.docId \in Addressed
  BY DEF DetailInv
<1>2. /\ view' = [view EXCEPT !.isLoading = TRUE, !.error = FALSE]
      /\ calls' = Append(calls, view.docId)
  BY DEF Detail!FetchAgain, Detail!Fetch
<1>3. DetailRecord(view') /\ view'.docId = view.docId
  BY <1>1, <1>2 DEF DetailRecord
<1>4. QED BY <1>1, <1>2, <1>3, DetailFetches

LEMMA DetailAnswered ==
  ASSUME DetailInv, NEW i \in DOMAIN calls, Detail!Answered(i)
  PROVE  DetailInv'
<1>1. /\ DetailRecord(view) /\ view.docId \in Addressed
      /\ calls \in Seq(Addressed) /\ i \in 1 .. Len(calls)
  BY DEF DetailInv
<1>2. calls' \in Seq(Addressed)
  BY <1>1, TakenOut DEF Detail!Answered, Detail!TakeOut, TakeOut
<1>3. \/ view' = [view EXCEPT !.doc = calls[i], !.review = Detail!Unreviewed, !.comments = 0,
                              !.isLoading = FALSE]
      \/ view' = [view EXCEPT !.error = TRUE, !.isLoading = FALSE]
  BY DEF Detail!Answered
<1>4. DetailRecord(view') /\ view'.docId = view.docId /\ ~view'.isLoading
  BY <1>1, <1>3 DEF DetailRecord
<1>5. QED BY <1>1, <1>2, <1>4 DEF DetailInv

DetailReads ==
  \/ Detail!PreviousPage \/ Detail!NextPage \/ Detail!HighlightTimeout \/ Detail!HandleAddComment
  \/ \E page \in 1 .. LastPage : Detail!ShowPage(page)
  \/ \E e \in DocumentEntities :
       \/ \E page \in 1 .. LastPage : Detail!JumpToPageAndHighlight(page, e)
       \/ \E status \in {"confirmed", "rejected"} : Detail!HandleEntityStatusChange(e, status)
       \/ Detail!StartEditingEntity(e) \/ Detail!SaveEntityCorrection(e)

\* Reading, reviewing and commenting fetch nothing.
LEMMA DetailRead ==
  ASSUME DetailInv, DetailReads
  PROVE  DetailInv'
<1>1. DetailRecord(view)
  BY DEF DetailInv
<1> DEFINE Same == /\ DetailRecord(view') /\ view'.docId = view.docId
                   /\ view'.isLoading = view.isLoading /\ view'.error = view.error
                   /\ view'.doc = view.doc /\ UNCHANGED calls
<1>2. CASE Detail!PreviousPage \/ Detail!NextPage \/ Detail!HighlightTimeout \/ Detail!HandleAddComment
  <2>1. Same
    BY <1>1, <1>2 DEF DetailRecord, Detail!PreviousPage, Detail!NextPage, Detail!HighlightTimeout,
                      Detail!HandleAddComment
  <2>2. QED BY <2>1 DEF DetailInv
<1>3. ASSUME NEW page, NEW e, Detail!ShowPage(page) \/ Detail!JumpToPageAndHighlight(page, e)
      PROVE  DetailInv'
  <2>1. Same
    BY <1>1, <1>3 DEF DetailRecord, Detail!ShowPage, Detail!JumpToPageAndHighlight
  <2>2. QED BY <2>1 DEF DetailInv
<1>4. ASSUME NEW e, NEW status,
             \/ Detail!HandleEntityStatusChange(e, status) \/ Detail!StartEditingEntity(e)
             \/ Detail!SaveEntityCorrection(e)
      PROVE  DetailInv'
  <2> DEFINE review == view'.review
  <2>1. \/ view' = [view EXCEPT !.review = review]
        \/ view' = [view EXCEPT !.editing = e]
        \/ view' = [view EXCEPT !.review = review, !.editing = None]
    <3>1. CASE Detail!HandleEntityStatusChange(e, status)
      BY <1>1, <3>1 DEF Detail!HandleEntityStatusChange, DetailRecord
    <3>2. CASE Detail!SaveEntityCorrection(e)
      BY <1>1, <3>2 DEF Detail!SaveEntityCorrection, DetailRecord
    <3>3. CASE Detail!StartEditingEntity(e)
      BY <3>3 DEF Detail!StartEditingEntity
    <3>4. QED BY <1>4, <3>1, <3>2, <3>3
  <2>2. UNCHANGED calls
    BY <1>4 DEF Detail!HandleEntityStatusChange, Detail!SaveEntityCorrection, Detail!StartEditingEntity
  <2> HIDE DEF review
  <2>3. Same
    BY <1>1, <2>1, <2>2 DEF DetailRecord
  <2>4. QED BY <2>3 DEF DetailInv
<1>5. QED BY <1>2, <1>3, <1>4 DEF DetailReads

LEMMA DetailKeeps ==
  ASSUME DetailInv, [Detail!Next]_<<view, calls, server>>
  PROVE  DetailInv'
<1>1. CASE UNCHANGED <<view, calls, server>>
  BY <1>1 DEF DetailInv, DetailRecord
<1>2. CASE Detail!Next
  BY <1>2, DetailOpens, DetailRefetches, DetailAnswered, DetailRead DEF Detail!Next, DetailReads
<1>3. QED BY <1>1, <1>2

-----------------------------------------------------------------------------
\* Whatever is drawn as still under way has a call or a timer under way that will end it: the
\* shell's drawer, legal page and tour, the palette, a document, the tiles, the optimisation, a
\* branch of the registry, an import of a regulation or a compilation, the canvas; however often
\* they were started, left, closed and opened again meanwhile.
THEOREM SomethingEndsIt == Spec => []NothingHangs
<1> DEFINE Inv == /\ route = "panels" => PanelsInv
                  /\ route = "palette" => PaletteInv
                  /\ route = "document" => DetailInv
                  /\ route = "dashboard" => TilesInv
                  /\ route = "planning" => ButtonInv
                  /\ route = "equipment" => BranchesInv
                  /\ route = "compliance" => WizardsInv
                  /\ route = "knowledge-graph" => SearchInv
<1>1. Panels!PanelsAssumption /\ Desk!DeskAssumption
  BY ConsoleAssumption
<1>2. Init => Inv
  BY <1>1, PanelsMounted, PanelsInit, PaletteMounted, PaletteInit, DetailMounted, DetailInit, HomeMounted, TilesInit, DeskMounted, ButtonInit,
     RegistryMounted, BranchesInit, ComplianceMounted, WizardsInit, GraphMounted, SearchInit
<1>3. Inv /\ [Next]_vars => Inv'
  <2> SUFFICES ASSUME Inv, [Next]_vars PROVE Inv'
    OBVIOUS
  <2>1. route = "panels" => PanelsInv'
    BY <1>1, PanelsStep, PanelsKeep
  <2>2. route = "dashboard" => TilesInv'
    BY HomeStep, TilesKeep
  <2>3. route = "planning" => ButtonInv'
    BY <1>1, DeskStep, ButtonKeeps
  <2>4. route = "equipment" => BranchesInv'
    BY RegistryStep, BranchesKeep
  <2>5. route = "compliance" => WizardsInv'
    BY ComplianceStep, WizardsKeep
  <2>6. route = "knowledge-graph" => SearchInv'
    BY GraphStep, SearchKeeps
  <2>7. route = "palette" => PaletteInv'
    BY PaletteStep, PaletteKeeps
  <2>8. route = "document" => DetailInv'
    BY DetailStep, DetailKeeps
  <2>9. QED BY <2>1, <2>2, <2>3, <2>4, <2>5, <2>6, <2>7, <2>8, RouteStays
<1>4. Inv => NothingHangs
  BY PanelsEnd, BranchesEnd
  DEF PaletteInv, Palette!LoadingEnds, DetailInv, Detail!LoadingEnds, TilesInv, ButtonInv, WizardsInv,
      SearchInv, NothingHangs
<1>5. QED BY <1>2, <1>3, <1>4, PTL DEF Spec

-----------------------------------------------------------------------------
(* Calls under way, of whatever kind *)

IsList(list) == \E S : list \in Seq(S)

Before(r, list) == <<r>> \o list

LEMMA ListGrows ==
  ASSUME NEW list, IsList(list), NEW r
  PROVE  /\ IsList(Append(list, r)) /\ IsList(Before(r, list))
         /\ DOMAIN list = 1 .. Len(list) /\ Len(list) \in Nat
         /\ DOMAIN Append(list, r) = 1 .. Len(list) + 1
         /\ Append(list, r)[Len(list) + 1] = r
         /\ \A i \in DOMAIN list : Append(list, r)[i] = list[i]
         /\ DOMAIN Before(r, list) = 1 .. Len(list) + 1
         /\ Before(r, list)[1] = r
         /\ \A i \in DOMAIN list : Before(r, list)[i + 1] = list[i]
<1>1. PICK S : list \in Seq(S)
  BY DEF IsList
<1>2. DOMAIN list = 1 .. Len(list) /\ Len(list) \in Nat
  BY <1>1
<1>3. PICK T : T = S \cup {r}
  OBVIOUS
<1>4. \A i \in 1 .. Len(list) : list[i] \in T
  BY <1>1, <1>3
<1>5. list \in [1 .. Len(list) -> T]
  BY <1>1, <1>2, <1>4
<1>6. list \in Seq(T) /\ r \in T
  BY <1>2, <1>3, <1>5
<1>7. /\ Append(list, r) \in Seq(T) /\ DOMAIN Append(list, r) = 1 .. Len(list) + 1
      /\ Append(list, r)[Len(list) + 1] = r
      /\ \A i \in DOMAIN list : Append(list, r)[i] = list[i]
  BY <1>6
<1>8. /\ <<r>> \o list \in Seq(T) /\ DOMAIN (<<r>> \o list) = 1 .. Len(list) + 1
      /\ (<<r>> \o list)[1] = r /\ \A i \in DOMAIN list : (<<r>> \o list)[i + 1] = list[i]
  BY <1>6, InFront
<1>9. QED BY <1>2, <1>7, <1>8 DEF IsList, Before

\* A call with one of these names is under way.
Some(list, ops) == \E i \in DOMAIN list : list[i].op \in ops

LEMMA CallAdded ==
  ASSUME NEW list, IsList(list), NEW c
  PROVE  /\ IsList(Append(list, c))
         /\ \A ops : Some(Append(list, c), ops) <=> Some(list, ops) \/ c.op \in ops
         /\ \A B : Has(Append(list, c), B) <=> Has(list, B) \/ c \in B
<1> DEFINE longer == Append(list, c)
<1>1. /\ IsList(longer) /\ DOMAIN list = 1 .. Len(list) /\ Len(list) \in Nat
      /\ DOMAIN longer = 1 .. Len(list) + 1 /\ longer[Len(list) + 1] = c
      /\ \A i \in DOMAIN list : longer[i] = list[i]
  BY ListGrows
<1> HIDE DEF longer
<1>2. DOMAIN list \subseteq DOMAIN longer /\ Len(list) + 1 \in DOMAIN longer
      /\ \A i \in DOMAIN longer : i = Len(list) + 1 \/ i \in DOMAIN list
  BY <1>1
<1>3. \A ops : Some(longer, ops) <=> Some(list, ops) \/ c.op \in ops
  BY <1>1, <1>2 DEF Some
<1>4. \A B : Has(longer, B) <=> Has(list, B) \/ c \in B
  BY <1>1, <1>2 DEF Has
<1>5. QED BY <1>1, <1>3, <1>4 DEF longer

LEMMA CallTaken ==
  ASSUME NEW list, IsList(list), list # <<>>
  PROVE  /\ IsList(Tail(list))
         /\ \A ops : Some(list, ops) <=> Head(list).op \in ops \/ Some(Tail(list), ops)
         /\ \A B : Has(list, B) <=> Head(list) \in B \/ Has(Tail(list), B)
         /\ Head(list) = list[1] /\ 1 \in DOMAIN list
         /\ DOMAIN list = 1 .. Len(list) /\ Len(list) \in Nat
         /\ DOMAIN Tail(list) = 1 .. Len(list) - 1
         /\ \A i \in DOMAIN Tail(list) : i + 1 \in DOMAIN list /\ Tail(list)[i] = list[i + 1]
<1> DEFINE rest == Tail(list)
           head == Head(list)
<1>1. PICK S : list \in Seq(S)
  BY DEF IsList
<1>2. /\ DOMAIN list = 1 .. Len(list) /\ Len(list) \in Nat /\ Len(list) # 0
      /\ rest \in Seq(S) /\ Len(rest) = Len(list) - 1 /\ head = list[1]
  BY <1>1
<1>3. DOMAIN rest = 1 .. Len(list) - 1 /\ \A i \in 1 .. Len(list) - 1 : rest[i] = list[i + 1]
  BY <1>1, <1>2
<1> HIDE DEF rest, head
<1>4. \A i \in DOMAIN rest : i + 1 \in DOMAIN list /\ rest[i] = list[i + 1]
  BY <1>2, <1>3
<1>5. 1 \in DOMAIN list /\ \A j \in DOMAIN list : j = 1 \/ (j - 1 \in DOMAIN rest /\ rest[j - 1] = list[j])
  BY <1>2, <1>3
<1>6. \A ops : Some(list, ops) <=> head.op \in ops \/ Some(rest, ops)
  BY <1>2, <1>4, <1>5 DEF Some
<1>7. \A B : Has(list, B) <=> head \in B \/ Has(rest, B)
  BY <1>2, <1>4, <1>5 DEF Has
<1>8. IsList(rest)
  BY <1>2 DEF IsList
<1>9. QED BY <1>2, <1>3, <1>4, <1>5, <1>6, <1>7, <1>8 DEF rest, head

LEMMA NoCall == IsList(<<>>) /\ \A ops : ~Some(<<>>, ops)
<1>1. <<>> \in Seq({}) /\ DOMAIN <<>> = {}
  OBVIOUS
<1>2. QED BY <1>1 DEF IsList, Some

LEMMA OneCall == ASSUME NEW c PROVE IsList(<<c>>) /\ \A ops : Some(<<c>>, ops) <=> c.op \in ops
<1>1. <<c>> \in Seq({c}) /\ DOMAIN <<c>> = {1} /\ <<c>>[1] = c
  OBVIOUS
<1>2. QED BY <1>1 DEF IsList, Some

-----------------------------------------------------------------------------
(* The library *)

LEMMA LibraryMounted == Init /\ route = "documents" => Library!Init
  BY DEF Init, Mounted

LEMMA LibraryStep == [Next]_vars /\ route = "documents" => [Library!Next]_<<view, calls, server>>
  BY DEF Next, vars

LibraryAllowed == Library!LibraryAssumption

\* The instance brings its own names for what is finite and for how many there are.
LEMMA SameFinite == \A S : (Library!IsFiniteSet(S) <=> IsFiniteSet(S)) /\ Library!Cardinality(S) = Cardinality(S)
<1>1. \A S : Library!IsFiniteSet(S) <=> IsFiniteSet(S)
  BY DEF IsFiniteSet, Library!IsFiniteSet
<1>2. \A S : Library!Cardinality(S) = Cardinality(S)
  BY DEF Cardinality, Library!Cardinality
<1>3. QED BY <1>1, <1>2

\* A finite set of naturals can be listed upwards: each has its place, the number of those up to it.
LEMMA ListedUp ==
  ASSUME NEW S, S \subseteq Nat, IsFiniteSet(S)
  PROVE  \E list \in [1 .. Cardinality(S) -> S] : \A i, j \in DOMAIN list : i < j => list[i] < list[j]
<1> DEFINE n == Cardinality(S)
           upTo(d) == {e \in S : e <= d}
           place == [d \in S |-> Cardinality(upTo(d))]
<1>1. n \in Nat
  BY FS_CardinalityType
<1>2. ASSUME NEW d \in S PROVE IsFiniteSet(upTo(d)) /\ Cardinality(upTo(d)) \in 1 .. n
  <2>1. upTo(d) \in SUBSET S /\ upTo(d) # {}
    OBVIOUS
  <2> HIDE DEF upTo
  <2>2. IsFiniteSet(upTo(d)) /\ Cardinality(upTo(d)) <= n
    BY <2>1, FS_Subset
  <2>3. Cardinality(upTo(d)) \in Nat /\ Cardinality(upTo(d)) # 0
    BY <2>1, <2>2, FS_CardinalityType, FS_EmptySet
  <2>4. QED BY <1>1, <2>2, <2>3
<1>3. ASSUME NEW d \in S, NEW e \in S, d < e PROVE place[d] < place[e]
  <2>6. \A x \in Nat : x <= d => x <= e
    BY <1>3
  <2>1. upTo(d) \in SUBSET upTo(e)
    BY <2>6
  <2>2. e \in upTo(e) /\ e \notin upTo(d)
    BY <1>3
  <2>3. IsFiniteSet(upTo(e)) /\ Cardinality(upTo(e)) \in 1 .. n /\ Cardinality(upTo(d)) \in 1 .. n
    BY <1>2
  <2>4. place[d] = Cardinality(upTo(d)) /\ place[e] = Cardinality(upTo(e))
    OBVIOUS
  <2> HIDE DEF upTo, place
  <2>5. Cardinality(upTo(d)) <= Cardinality(upTo(e)) /\ Cardinality(upTo(d)) # Cardinality(upTo(e))
    BY <2>1, <2>2, <2>3, FS_Subset
  <2>7. QED BY <1>1, <2>3, <2>4, <2>5
<1>4. place \in [S -> 1 .. n]
  BY <1>2
<1> HIDE DEF place, upTo
<1>5. \A d, e \in S : place[d] = place[e] => d = e
  <2>1. \A d, e \in S : d < e \/ e < d \/ d = e
    OBVIOUS
  <2>2. \A d \in S : place[d] \in Nat
    BY <1>1, <1>4
  <2>3. QED BY <1>3, <2>1, <2>2
<1>6. place \in Injection(S, 1 .. n)
  BY <1>4, <1>5 DEF Injection, IsInjective
<1>7. IsFiniteSet(1 .. n) /\ Cardinality(1 .. n) = n
  <2>1. Cardinality(1 .. n) = (IF 1 > n THEN 0 ELSE n - 1 + 1) /\ IsFiniteSet(1 .. n)
    BY <1>1, FS_Interval
  <2>2. QED BY <1>1, <2>1
<1>8. place \in Surjection(S, 1 .. n)
  BY <1>6, <1>7, FS_Injection
<1> DEFINE list == [i \in 1 .. n |-> CHOOSE d \in S : place[d] = i]
<1>9. \A i \in 1 .. n : \E d \in S : place[d] = i
  BY <1>8 DEF Surjection
<1>10. \A i \in 1 .. n : list[i] \in S /\ place[list[i]] = i
  BY <1>9
<1>11. list \in [1 .. n -> S]
  BY <1>10
<1> HIDE DEF list, n
<1>12. ASSUME NEW i \in 1 .. n, NEW j \in 1 .. n, i < j PROVE list[i] < list[j]
  <2>1. list[i] \in Nat /\ list[j] \in Nat /\ list[i] \in S /\ list[j] \in S
    BY <1>10
  <2>2. ~(list[j] < list[i])
    BY <1>1, <1>3, <1>10, <1>12, <2>1
  <2>3. list[i] # list[j]
    BY <1>1, <1>10, <1>12
  <2>4. QED BY <2>1, <2>2, <2>3
<1>13. QED BY <1>11, <1>12 DEF n

\* Up or down, what is found can be listed.
LEMMA ListedEitherWay ==
  ASSUME NEW S, S \subseteq Nat, IsFiniteSet(S), NEW asc \in BOOLEAN
  PROVE  \E list \in [1 .. Cardinality(S) -> S] : Library!Sorted(list, asc)
<1> DEFINE n == Cardinality(S)
<1>1. PICK up \in [1 .. n -> S] : \A i, j \in DOMAIN up : i < j => up[i] < up[j]
  BY ListedUp
<1>2. n \in Nat
  BY FS_CardinalityType
<1> HIDE DEF n
<1>3. CASE asc
  BY <1>1, <1>3 DEF Library!Sorted, n
<1>4. CASE ~asc
  <2> DEFINE down == [i \in 1 .. n |-> up[n + 1 - i]]
  <2>1. \A i \in 1 .. n : n + 1 - i \in 1 .. n
    BY <1>2
  <2>2. down \in [1 .. n -> S]
    BY <1>1, <2>1
  <2>3. ASSUME NEW i \in 1 .. n, NEW j \in 1 .. n, i < j PROVE down[i] > down[j]
    <3>1. n + 1 - j < n + 1 - i
      BY <1>2, <2>3
    <3>2. up[n + 1 - j] < up[n + 1 - i] /\ up[n + 1 - j] \in Nat /\ up[n + 1 - i] \in Nat
      BY <1>1, <2>1, <3>1
    <3>3. QED BY <3>2
  <2>4. Library!Sorted(down, asc)
    BY <1>4, <2>2, <2>3 DEF Library!Sorted
  <2> HIDE DEF down
  <2>5. QED BY <2>2, <2>4 DEF n
<1>5. QED BY <1>3, <1>4
Asked(c) == c.op = "list" /\ c.page \in Nat \ {0} /\ c.asc \in BOOLEAN
\* A call for a list, or one for a bulk action that knows the list to fetch after it.
ForLibrary(c) == IF c.op = "list" THEN Asked(c) ELSE Asked(c.then)

LibraryFields(v) ==
  v = [filter |-> v.filter, page |-> v.page, asc |-> v.asc, rows |-> v.rows, total |-> v.total,
       isLoading |-> v.isLoading, error |-> v.error, selected |-> v.selected, confirm |-> v.confirm]

LibraryRecord(v) ==
  /\ LibraryFields(v)
  /\ v.page \in Nat \ {0} /\ v.asc \in BOOLEAN /\ v.total \in Nat

\* What is on the screen exists and is drawn as it is stored.
AsStored(rows, stored) ==
  \A i \in DOMAIN rows : rows[i].id \in DOMAIN stored /\ rows[i].status = stored[rows[i].id]

LibraryInv ==
  /\ LibraryRecord(view) /\ DOMAIN server \subseteq Vault
  /\ IsList(calls) /\ \A i \in DOMAIN calls : ForLibrary(calls[i])
  /\ Some(calls, {"list"}) \/ view.error \/ AsStored(view.rows, server)

\* A page of a listing holds documents that are stored.
LEMMA PageIsCurrent ==
  ASSUME LibraryAllowed, DOMAIN server \subseteq Vault, NEW filter, NEW asc \in BOOLEAN,
         NEW page \in Nat \ {0}
  PROVE  /\ AsStored(Library!PageOf(Library!Listing(filter, asc), page), server)
         /\ Len(Library!Listing(filter, asc)) \in Nat
<1> DEFINE found == {d \in DOMAIN server : Library!Matches(server[d], filter)}
           n == Cardinality(found)
           list == Library!Listing(filter, asc)
           a == (page - 1) * PageSize + 1
           b == IF page * PageSize < Len(list) THEN page * PageSize ELSE Len(list)
           rows == SubSeq(list, a, b)
<1>1. Vault \subseteq Nat /\ IsFiniteSet(Vault) /\ PageSize \in Nat \ {0}
  BY SameFinite DEF LibraryAllowed, Library!LibraryAssumption
<1>2. found \in SUBSET Vault /\ found \subseteq Nat /\ found \subseteq DOMAIN server
  BY <1>1
<1>3. IsFiniteSet(found) /\ n \in Nat
  BY <1>1, <1>2, FS_Subset, FS_CardinalityType
<1>4. list = CHOOSE l \in [1 .. n -> found] : Library!Sorted(l, asc)
  BY SameFinite, Zenon DEF Library!Listing
<1> HIDE DEF found, n, list
<1>5. \E l \in [1 .. n -> found] : Library!Sorted(l, asc)
  BY <1>2, <1>3, ListedEitherWay DEF n
<1>6. list \in [1 .. n -> found]
  BY <1>4, <1>5
<1>7. Len(list) = n /\ list \in Seq(found)
  BY <1>3, <1>6
<1>8. (page - 1) * PageSize \in Nat /\ page * PageSize \in Nat
  BY <1>1
<1>9. a \in Nat \ {0} /\ b \in Nat /\ b <= n
  BY <1>3, <1>7, <1>8
<1> HIDE DEF a, b
<1>10. \A i \in DOMAIN rows : rows[i] \in found
  BY <1>3, <1>6, <1>7, <1>9
<1>11. Library!PageOf(list, page) = [i \in DOMAIN rows |-> [id |-> rows[i], status |-> server[rows[i]]]]
  BY DEF Library!PageOf, a, b
<1> HIDE DEF rows
<1>12. AsStored(Library!PageOf(list, page), server)
  <2> DEFINE drawn == Library!PageOf(list, page)
  <2>1. /\ DOMAIN drawn = DOMAIN rows
        /\ \A i \in DOMAIN rows : drawn[i].id = rows[i] /\ drawn[i].status = server[rows[i]]
    BY <1>11
  <2> HIDE DEF drawn
  <2>2. AsStored(drawn, server)
    BY <1>2, <1>10, <2>1 DEF AsStored
  <2>3. QED BY <2>2 DEF drawn
<1>13. QED BY <1>3, <1>7, <1>12 DEF list

LEMMA QueryAsks == \A v : LibraryRecord(v) => Asked(Library!Query(v)) /\ ForLibrary(Library!Query(v))
  BY DEF LibraryRecord, Asked, ForLibrary, Library!Query

LEMMA LibraryCalls ==
  ASSUME NEW list, IsList(list), \A i \in DOMAIN list : ForLibrary(list[i])
  PROVE  /\ \A c : ForLibrary(c) => /\ IsList(Append(list, c))
                                    /\ \A i \in DOMAIN Append(list, c) : ForLibrary(Append(list, c)[i])
         /\ list # <<>> => /\ IsList(Tail(list)) /\ ForLibrary(Head(list))
                           /\ \A i \in DOMAIN Tail(list) : ForLibrary(Tail(list)[i])
<1>1. ASSUME NEW c, ForLibrary(c)
      PROVE  IsList(Append(list, c)) /\ \A i \in DOMAIN Append(list, c) : ForLibrary(Append(list, c)[i])
  <2>1. /\ IsList(Append(list, c)) /\ DOMAIN Append(list, c) = 1 .. Len(list) + 1
        /\ DOMAIN list = 1 .. Len(list) /\ Len(list) \in Nat /\ Append(list, c)[Len(list) + 1] = c
        /\ \A i \in DOMAIN list : Append(list, c)[i] = list[i]
    BY ListGrows
  <2>2. \A i \in 1 .. Len(list) + 1 : i = Len(list) + 1 \/ i \in DOMAIN list
    BY <2>1
  <2>3. QED BY <1>1, <2>1, <2>2
<1>2. ASSUME list # <<>>
      PROVE  /\ IsList(Tail(list)) /\ ForLibrary(Head(list))
             /\ \A i \in DOMAIN Tail(list) : ForLibrary(Tail(list)[i])
  <2>1. /\ IsList(Tail(list)) /\ Head(list) = list[1] /\ 1 \in DOMAIN list
        /\ \A i \in DOMAIN Tail(list) : i + 1 \in DOMAIN list /\ Tail(list)[i] = list[i + 1]
    BY <1>2, CallTaken
  <2>2. QED BY <2>1
<1>3. QED BY <1>1, <1>2

LEMMA LibraryInit == LibraryAllowed /\ Library!Init => LibraryInv
<1> SUFFICES ASSUME LibraryAllowed, Library!Init PROVE LibraryInv
  OBVIOUS
<1> DEFINE c == Library!Query(view)
<1>1. LibraryRecord(view) /\ DOMAIN server = Vault /\ calls = <<c>>
  BY DEF Library!Init, LibraryRecord, LibraryFields
<1>2. c.op = "list" /\ ForLibrary(c)
  BY <1>1, QueryAsks DEF Library!Query
<1> HIDE DEF c
<1>3. IsList(calls) /\ Some(calls, {"list"})
  BY <1>1, <1>2, OneCall
<1>4. \A i \in DOMAIN calls : calls[i] = c
  BY <1>1
<1>5. QED BY <1>1, <1>2, <1>3, <1>4 DEF LibraryInv

\* Whatever the effect does with a change of filter, page or order.
LEMMA LibraryShows ==
  ASSUME LibraryInv, NEW v, LibraryRecord(v), v.rows = view.rows, v.error = view.error,
         Library!Show(v), UNCHANGED server
  PROVE  LibraryInv'
<1>1. /\ LibraryRecord(view) /\ DOMAIN server \subseteq Vault
      /\ IsList(calls) /\ \A i \in DOMAIN calls : ForLibrary(calls[i])
      /\ Some(calls, {"list"}) \/ view.error \/ AsStored(view.rows, server)
  BY DEF LibraryInv
<1>2. CASE view' = v /\ UNCHANGED calls
  BY <1>1, <1>2 DEF LibraryInv
<1>3. CASE view' = Library!Fetching(v) /\ calls' = Append(calls, Library!Query(v))
  <2> DEFINE c == Library!Query(v)
  <2>1. c.op = "list" /\ ForLibrary(c)
    BY QueryAsks DEF Library!Query
  <2>2. LibraryRecord(view')
    BY <1>3 DEF LibraryRecord, LibraryFields, Library!Fetching
  <2> HIDE DEF c
  <2>3. Some(calls', {"list"})
    BY <1>1, <1>3, <2>1, CallAdded DEF c
  <2>4. IsList(calls') /\ \A i \in DOMAIN calls' : ForLibrary(calls'[i])
    BY <1>1, <1>3, <2>1, LibraryCalls DEF c
  <2>5. QED BY <1>1, <2>2, <2>3, <2>4 DEF LibraryInv
<1>4. QED BY <1>2, <1>3 DEF Library!Show

LEMMA PagesCounted ==
  LibraryAllowed /\ LibraryRecord(view) =>
    /\ Library!TotalPages \in Nat \ {0}
    /\ Library!Min({Library!TotalPages, view.page + 1}) \in Nat \ {0}
<1> SUFFICES ASSUME LibraryAllowed, LibraryRecord(view)
             PROVE  /\ Library!TotalPages \in Nat \ {0}
                    /\ Library!Min({Library!TotalPages, view.page + 1}) \in Nat \ {0}
  OBVIOUS
<1> DEFINE q == (view.total + PageSize - 1) \div PageSize
<1>1. q \in Int /\ view.page + 1 \in Nat \ {0}
  BY DEF LibraryAllowed, Library!LibraryAssumption, LibraryRecord
<1> HIDE DEF q
<1>2. \A x, y \in Int : Library!Max({x, y}) \in {x, y} /\ Library!Max({x, y}) >= x
  <2> SUFFICES ASSUME NEW x \in Int, NEW y \in Int
               PROVE  Library!Max({x, y}) \in {x, y} /\ Library!Max({x, y}) >= x
    OBVIOUS
  <2>1. \E m \in {x, y} : \A k \in {x, y} : m >= k
    OBVIOUS
  <2>2. QED BY <2>1 DEF Library!Max
<1>3. \A x, y \in Int : Library!Min({x, y}) \in {x, y}
  <2> SUFFICES ASSUME NEW x \in Int, NEW y \in Int PROVE Library!Min({x, y}) \in {x, y}
    OBVIOUS
  <2>1. \E m \in {x, y} : \A k \in {x, y} : m <= k
    OBVIOUS
  <2>2. QED BY <2>1 DEF Library!Min
<1>4. Library!TotalPages = Library!Max({1, q})
  BY DEF Library!TotalPages, q
<1>5. Library!TotalPages \in Nat \ {0}
  BY <1>1, <1>2, <1>4
<1>6. QED BY <1>1, <1>3, <1>5

LEMMA LibraryLooked ==
  ASSUME LibraryAllowed, LibraryInv,
         \/ \E filter \in DocumentFilters : Library!SetFilter(filter)
         \/ Library!ClearFilters \/ Library!HandleSort \/ Library!PreviousPage \/ Library!NextPage
  PROVE  LibraryInv'
<1>1. LibraryRecord(view)
  BY DEF LibraryInv
<1>2. ASSUME NEW filter, Library!Show([view EXCEPT !.filter = filter, !.page = 1]), UNCHANGED server
      PROVE  LibraryInv'
  <2> DEFINE v == [view EXCEPT !.filter = filter, !.page = 1]
  <2>1. LibraryRecord(v) /\ v.rows = view.rows /\ v.error = view.error
    <3>1. LibraryFields(v)
      <4> DEFINE w == [view EXCEPT !.filter = filter]
      <4>1. LibraryFields(w)
        BY <1>1 DEF LibraryRecord, LibraryFields
      <4>2. v = [w EXCEPT !.page = 1]
        OBVIOUS
      <4> HIDE DEF v, w
      <4>3. QED BY <4>1, <4>2 DEF LibraryFields
    <3>2. /\ v.page = 1 /\ v.asc = view.asc
          /\ v.total = view.total /\ v.rows = view.rows /\ v.error = view.error
      BY <1>1 DEF LibraryRecord, LibraryFields
    <3> HIDE DEF v
    <3>3. QED BY <1>1, <3>1, <3>2 DEF LibraryRecord
  <2> HIDE DEF v
  <2>2. QED BY <1>2, <2>1, LibraryShows DEF v
<1>3. CASE Library!HandleSort
  <2> DEFINE v == [view EXCEPT !.asc = ~@, !.page = 1]
  <2>1. LibraryRecord(v) /\ v.rows = view.rows /\ v.error = view.error
    <3>1. LibraryFields(v)
      <4> DEFINE w == [view EXCEPT !.asc = ~@]
      <4>1. LibraryFields(w)
        BY <1>1 DEF LibraryRecord, LibraryFields
      <4>2. v = [w EXCEPT !.page = 1]
        OBVIOUS
      <4> HIDE DEF v, w
      <4>3. QED BY <4>1, <4>2 DEF LibraryFields
    <3>2. /\ v.page = 1 /\ v.asc = ~view.asc
          /\ v.total = view.total /\ v.rows = view.rows /\ v.error = view.error
      BY <1>1 DEF LibraryRecord, LibraryFields
    <3> HIDE DEF v
    <3>3. QED BY <1>1, <3>1, <3>2 DEF LibraryRecord
  <2>2. Library!Show(v) /\ UNCHANGED server
    BY <1>3 DEF Library!HandleSort
  <2> HIDE DEF v
  <2>3. QED BY <2>1, <2>2, LibraryShows
<1>4. ASSUME NEW page \in Nat \ {0}, Library!Show([view EXCEPT !.page = page]), UNCHANGED server
      PROVE  LibraryInv'
  <2> DEFINE v == [view EXCEPT !.page = page]
  <2>1. LibraryRecord(v) /\ v.rows = view.rows /\ v.error = view.error
    <3>1. LibraryFields(v)
      BY <1>1 DEF LibraryRecord, LibraryFields
    <3>2. /\ v.page = page /\ v.asc = view.asc
          /\ v.total = view.total /\ v.rows = view.rows /\ v.error = view.error
      BY <1>1 DEF LibraryRecord, LibraryFields
    <3> HIDE DEF v
    <3>3. QED BY <1>1, <3>1, <3>2, <1>4 DEF LibraryRecord
  <2> HIDE DEF v
  <2>2. QED BY <1>4, <2>1, LibraryShows DEF v
<1>5. CASE Library!PreviousPage
  <2>1. PICK page \in Nat \ {0} : page = view.page - 1
    BY <1>1, <1>5 DEF Library!PreviousPage, LibraryRecord
  <2>2. Library!Show([view EXCEPT !.page = page]) /\ UNCHANGED server
    BY <1>5, <2>1 DEF Library!PreviousPage
  <2>3. QED BY <1>4, <2>2
<1>6. CASE Library!NextPage
  <2>1. Library!Show([view EXCEPT !.page = Library!Min({Library!TotalPages, view.page + 1})]) /\ UNCHANGED server
    BY <1>6 DEF Library!NextPage
  <2>2. QED BY <1>1, <1>4, <2>1, PagesCounted
<1>7. ASSUME NEW filter, Library!SetFilter(filter) PROVE LibraryInv'
  BY Zenon, <1>2, <1>7 DEF Library!SetFilter
<1>8. CASE Library!ClearFilters
  BY Zenon, <1>2, <1>8 DEF Library!ClearFilters
<1>9. QED BY Zenon, <1>3, <1>5, <1>6, <1>7, <1>8

\* Selecting, and the dialog: neither the rows nor the calls are touched.
LEMMA LibraryQuiet ==
  ASSUME LibraryInv,
         \/ \E d \in Vault : Library!ToggleSelectRow(d)
         \/ Library!ToggleSelectAll \/ Library!EndSelection \/ Library!AskToDelete \/ Library!CancelDelete
  PROVE  LibraryInv'
<1>1. LibraryRecord(view) /\ LibraryFields(view)
  BY DEF LibraryInv, LibraryRecord
<1>2. /\ UNCHANGED <<calls, server>>
      /\ \E x : view' = [view EXCEPT !.selected = x] \/ view' = [view EXCEPT !.confirm = x]
  BY DEF Library!ToggleSelectRow, Library!ToggleSelectAll, Library!EndSelection, Library!AskToDelete,
         Library!CancelDelete
<1>3. /\ LibraryFields(view') /\ view'.rows = view.rows /\ view'.error = view.error
      /\ view'.page = view.page /\ view'.asc = view.asc /\ view'.total = view.total
  BY <1>1, <1>2 DEF LibraryFields
<1>4. QED BY <1>1, <1>2, <1>3 DEF LibraryInv, LibraryRecord

LEMMA LibraryCalled ==
  ASSUME LibraryInv,
         Library!Retry \/ \E op \in {"reprocess", "add-tags", "delete"} : Library!Bulk(op)
  PROVE  LibraryInv'
<1>1. /\ LibraryRecord(view) /\ LibraryFields(view) /\ DOMAIN server \subseteq Vault
      /\ IsList(calls) /\ \A i \in DOMAIN calls : ForLibrary(calls[i])
      /\ Some(calls, {"list"}) \/ view.error \/ AsStored(view.rows, server)
  BY DEF LibraryInv, LibraryRecord
<1>2. Asked(Library!Query(view)) /\ ForLibrary(Library!Query(view))
  BY <1>1, QueryAsks
<1>3. CASE Library!Retry
  <2> DEFINE c == Library!Query(view)
  <2>1. /\ view' = Library!Fetching(view) /\ calls' = Append(calls, c) /\ UNCHANGED server
    BY <1>3 DEF Library!Retry
  <2>2. LibraryRecord(view')
    BY <1>1, <2>1 DEF LibraryRecord, LibraryFields, Library!Fetching
  <2> HIDE DEF c
  <2>3. c.op = "list"
    BY <1>2 DEF Asked, c
  <2>4. IsList(calls') /\ Some(calls', {"list"}) /\ \A i \in DOMAIN calls' : ForLibrary(calls'[i])
    BY <1>1, <1>2, <2>1, <2>3, CallAdded, LibraryCalls DEF c
  <2>5. QED BY <1>1, <2>1, <2>2, <2>4 DEF LibraryInv
<1>4. ASSUME NEW op \in {"reprocess", "add-tags", "delete"}, Library!Bulk(op) PROVE LibraryInv'
  <2> DEFINE c == [op |-> op, ids |-> view.selected, then |-> Library!Query(view)]
  <2>1. calls' = Append(calls, c) /\ UNCHANGED <<view, server>>
    BY <1>4 DEF Library!Bulk
  <2>2. c.op # "list" /\ ForLibrary(c)
    BY <1>2 DEF ForLibrary
  <2> HIDE DEF c
  <2>3. /\ IsList(calls') /\ \A i \in DOMAIN calls' : ForLibrary(calls'[i])
        /\ Some(calls, {"list"}) => Some(calls', {"list"})
    BY <1>1, <2>1, <2>2, CallAdded, LibraryCalls
  <2>4. QED BY <1>1, <2>1, <2>3 DEF LibraryInv
<1>5. QED BY <1>3, <1>4

\* A bulk action that is done leaves the fetch of a list behind.
LEMMA BulkDone ==
  ASSUME LibraryInv, Library!BulkAnswered
  PROVE  LibraryInv'
<1> DEFINE call == Head(calls)
           v == [view EXCEPT !.selected = {}, !.confirm = @ /\ call.op # "delete",
                             !.page = IF call.op = "delete" THEN 1 ELSE @]
           rest == Append(Tail(calls), call.then)
<1>1. /\ LibraryRecord(view) /\ LibraryFields(view) /\ DOMAIN server \subseteq Vault
      /\ IsList(calls) /\ \A i \in DOMAIN calls : ForLibrary(calls[i])
  BY DEF LibraryInv, LibraryRecord
<1>2. /\ calls # <<>> /\ call.op # "list" /\ server' = Library!Applied(call)
      /\ view' = Library!Fetching(v)
      /\ calls' = Tail(calls) \o <<call.then>>
                     \o (IF v.page = view.page THEN <<>> ELSE <<Library!Query(v)>>)
  BY DEF Library!BulkAnswered
<1>3. LibraryRecord(v)
  <2> DEFINE w == [view EXCEPT !.selected = {}]
             u == [w EXCEPT !.confirm = @ /\ call.op # "delete"]
  <2>1. LibraryFields(w) /\ w.page = view.page /\ w.asc = view.asc /\ w.total = view.total
    BY <1>1 DEF LibraryFields
  <2>2. v = [u EXCEPT !.page = IF call.op = "delete" THEN 1 ELSE @]
    BY <1>1 DEF LibraryFields
  <2> HIDE DEF w, v, call
  <2>3. LibraryFields(u) /\ u.page = view.page /\ u.asc = view.asc /\ u.total = view.total
    BY <2>1 DEF LibraryFields
  <2> HIDE DEF u
  <2>4. /\ LibraryFields(v) /\ v.page = (IF call.op = "delete" THEN 1 ELSE u.page)
        /\ v.asc = u.asc /\ v.total = u.total
    BY <2>2, <2>3 DEF LibraryFields
  <2>5. QED BY <1>1, <2>3, <2>4 DEF LibraryRecord
<1> HIDE DEF v
<1>4. LibraryRecord(view')
  BY <1>2, <1>3 DEF LibraryRecord, LibraryFields, Library!Fetching
<1>5. DOMAIN server' \subseteq Vault
  BY <1>1, <1>2 DEF Library!Applied
<1>6. IsList(Tail(calls)) /\ ForLibrary(call) /\ \A i \in DOMAIN Tail(calls) : ForLibrary(Tail(calls)[i])
  BY <1>1, <1>2, LibraryCalls
<1> HIDE DEF call
<1>7. ForLibrary(call.then) /\ call.then.op = "list"
  BY <1>2, <1>6 DEF ForLibrary, Asked
<1>8. IsList(rest) /\ Some(rest, {"list"}) /\ \A i \in DOMAIN rest : ForLibrary(rest[i])
  BY <1>6, <1>7, CallAdded, LibraryCalls
<1>9. calls' = rest \/ calls' = Append(rest, Library!Query(v))
  <2>1. PICK S : Tail(calls) \in Seq(S)
    BY <1>6 DEF IsList
  <2>2. Tail(calls) \o <<call.then>> = rest
    BY <2>1
  <2>3. PICK T : rest \in Seq(T)
    BY <1>8 DEF IsList
  <2> HIDE DEF rest
  <2>4. rest \o <<>> = rest /\ rest \o <<Library!Query(v)>> = Append(rest, Library!Query(v))
    BY <2>3
  <2>5. QED BY <1>2, <2>2, <2>4
<1> HIDE DEF rest
<1>10. ForLibrary(Library!Query(v))
  BY <1>3, QueryAsks
<1>11. IsList(calls') /\ Some(calls', {"list"}) /\ \A i \in DOMAIN calls' : ForLibrary(calls'[i])
  <2> DEFINE c == Library!Query(v)
             longer == Append(rest, c)
  <2>1. /\ IsList(longer) /\ \A i \in DOMAIN longer : ForLibrary(longer[i])
    BY <1>8, <1>10, LibraryCalls
  <2>2. Some(longer, {"list"})
    BY <1>8, CallAdded
  <2>3. calls' = rest \/ calls' = longer
    BY <1>9
  <2> HIDE DEF longer, c
  <2>4. QED BY <1>8, <2>1, <2>2, <2>3
<1>12. QED BY <1>4, <1>5, <1>11 DEF LibraryInv

LEMMA LibraryAnswered ==
  ASSUME LibraryAllowed, LibraryInv, Library!BulkFails \/ Library!Listed \/ Library!ListFails
  PROVE  LibraryInv'
<1>1. /\ LibraryRecord(view) /\ LibraryFields(view) /\ DOMAIN server \subseteq Vault
      /\ IsList(calls) /\ \A i \in DOMAIN calls : ForLibrary(calls[i])
      /\ Some(calls, {"list"}) \/ view.error \/ AsStored(view.rows, server)
  BY DEF LibraryInv, LibraryRecord
<1>2. calls # <<>> /\ calls' = Tail(calls) /\ UNCHANGED server
  BY DEF Library!BulkFails, Library!Listed, Library!ListFails
<1>3. /\ IsList(calls') /\ ForLibrary(Head(calls)) /\ \A i \in DOMAIN calls' : ForLibrary(calls'[i])
      /\ Some(calls, {"list"}) => Head(calls).op = "list" \/ Some(calls', {"list"})
  BY <1>1, <1>2, CallTaken, LibraryCalls
<1>4. CASE Library!BulkFails
  BY <1>1, <1>2, <1>3, <1>4 DEF LibraryInv, Library!BulkFails
<1>5. CASE Library!ListFails
  <2> DEFINE w == [view EXCEPT !.error = TRUE]
  <2>1. LibraryFields(w) /\ w.page = view.page /\ w.asc = view.asc /\ w.total = view.total
    <3>1. \A x : LibraryFields([view EXCEPT !.error = x])
      BY <1>1 DEF LibraryFields
    <3>2. w.page = view.page /\ w.asc = view.asc /\ w.total = view.total
      BY <1>1 DEF LibraryFields
    <3>3. QED BY <3>1, <3>2
  <2>2. w.error
    BY <1>1 DEF LibraryFields
  <2>3. view' = [w EXCEPT !.isLoading = FALSE]
    BY <1>5 DEF Library!ListFails
  <2> HIDE DEF w
  <2>4. LibraryRecord(view') /\ view'.error
    BY <1>1, <2>1, <2>2, <2>3 DEF LibraryRecord, LibraryFields
  <2>5. QED BY <1>1, <1>2, <1>3, <2>4 DEF LibraryInv
<1>6. CASE Library!Listed
  <2> DEFINE asked == Head(calls)
             list == Library!Listing(asked.filter, asked.asc)
             rows == Library!PageOf(list, asked.page)
             w == [view EXCEPT !.rows = rows]
             u == [w EXCEPT !.total = Len(list)]
  <2>1. asked.op = "list" /\ view' = [u EXCEPT !.isLoading = FALSE]
    BY <1>6 DEF Library!Listed
  <2>2. asked.page \in Nat \ {0} /\ asked.asc \in BOOLEAN
    BY <1>3, <2>1 DEF ForLibrary, Asked
  <2>3. AsStored(rows, server) /\ Len(list) \in Nat
    BY <1>1, <2>2, PageIsCurrent
  <2> HIDE DEF list, rows
  <2>4. LibraryFields(w) /\ w.rows = rows /\ w.page = view.page /\ w.asc = view.asc
    BY <1>1 DEF LibraryFields
  <2> HIDE DEF w
  <2>5. LibraryFields(u) /\ u.rows = rows /\ u.page = view.page /\ u.asc = view.asc /\ u.total = Len(list)
    BY <2>4 DEF LibraryFields
  <2> HIDE DEF u
  <2>6. LibraryRecord(view') /\ view'.rows = rows
    BY <1>1, <2>1, <2>3, <2>5 DEF LibraryRecord, LibraryFields
  <2>7. QED BY <1>1, <1>2, <1>3, <2>3, <2>6 DEF LibraryInv
<1>7. QED BY <1>4, <1>5, <1>6

LEMMA LibraryKeeps == LibraryAllowed /\ LibraryInv /\ [Library!Next]_<<view, calls, server>> => LibraryInv'
<1> SUFFICES ASSUME LibraryAllowed, LibraryInv, [Library!Next]_<<view, calls, server>> PROVE LibraryInv'
  OBVIOUS
<1>1. CASE UNCHANGED <<view, calls, server>>
  <2>1. view' = view /\ calls' = calls /\ server' = server
    BY <1>1
  <2>2. QED BY <2>1 DEF LibraryInv
<1>2. CASE Library!Next
  BY <1>2, LibraryLooked, LibraryQuiet, LibraryCalled, BulkDone, LibraryAnswered DEF Library!Next
<1>3. QED BY <1>1, <1>2

LEMMA LibrarySettles == LibraryInv => Library!NoGhostRows
<1> SUFFICES ASSUME LibraryInv, calls = <<>>, ~view.error
             PROVE  \A i \in DOMAIN view.rows :
                      view.rows[i].id \in DOMAIN server /\ view.rows[i].status = server[view.rows[i].id]
  BY DEF Library!NoGhostRows
<1>1. ~Some(calls, {"list"})
  BY NoCall
<1>2. QED BY <1>1 DEF LibraryInv, AsStored
=============================================================================
