---------------------------- MODULE Integrations ----------------------------
(***************************************************************************)
(* The integrations panel (AdminSuite.tsx) over the built-in server        *)
(* (client.ts): API keys, whose raw text is shown once, webhook targets,   *)
(* and the log of their deliveries.  The server answers in the order of    *)
(* the calls; every change fetches the list it touches again.              *)
(***************************************************************************)
EXTENDS Integers, Sequences, FiniteSets

CONSTANTS
  Events,        \* events a webhook subscribes to
  MaxKeys,       \* bound: API keys, the one of the seed included
  MaxHooks,      \* bound: webhook targets, the one of the seed included
  MaxDeliveries, \* bound: entries of the delivery log, and times one is sent
  MaxCalls,      \* bound: calls in flight when one more is made
  None

IntegrationsAssumption ==
  /\ {MaxKeys, MaxHooks, MaxDeliveries, MaxCalls} \subseteq Nat \ {0}
  /\ None \notin Nat

VARIABLES
  view,          \* the state hooks
  calls,         \* calls in flight, oldest first
  server         \* what the built-in server stores

vars == <<view, calls, server>>

Keys == 1..MaxKeys
Hooks == 1..MaxHooks

Lists == {"keys", "hooks", "deliveries"}

\* keys: the status of each key made so far; hooks: the events of each target;
\* deliveries: how often each entry was sent.
Stored == [keys |-> <<"active">>, hooks |-> <<Events>>, deliveries |-> <<1>>]

Fetch(list) == [op |-> "list", list |-> list]

\* rawKey: the number of the key whose raw text is on the screen.
Init ==
  /\ server = Stored
  /\ view = [tab |-> "api-keys", rows |-> [l \in Lists |-> <<>>], loading |-> Lists,
             creating |-> FALSE, rawKey |-> None, editing |-> None, draft |-> {}, payload |-> None]
  /\ calls = <<Fetch("keys"), Fetch("hooks"), Fetch("deliveries")>>

ShowTab(t) ==
  /\ t # view.tab
  /\ view' = [view EXCEPT !.tab = t]
  /\ UNCHANGED <<calls, server>>

\* Calls of a kind that are under way: what a bound counts.
Pending(op) == Cardinality({i \in DOMAIN calls : calls[i].op = op})

\* The dialogs lie over the tabs and the lists.
NoDialog == ~view.creating /\ view.rawKey = None /\ view.editing = None /\ view.payload = None

Listed(list, i) ==
  NoDialog /\ list \notin view.loading /\ i \in DOMAIN view.rows[list]
  /\ view.tab = (IF list = "keys" THEN "api-keys" ELSE "webhooks")

Call(call) ==
  /\ Len(calls) < MaxCalls
  /\ calls' = Append(calls, call)
  /\ UNCHANGED server

-----------------------------------------------------------------------------
(* API keys *)

OpenCreateKey ==
  /\ NoDialog /\ view.tab = "api-keys"
  /\ view' = [view EXCEPT !.creating = TRUE]
  /\ UNCHANGED <<calls, server>>

CloseCreateKey ==
  /\ view.creating /\ view.rawKey = None
  /\ view' = [view EXCEPT !.creating = FALSE]
  /\ UNCHANGED <<calls, server>>

\* The form stays open until the answer, with its button enabled.
HandleCreateKey ==
  /\ view.creating /\ view.rawKey = None
  /\ Len(server.keys) + Pending("create key") < MaxKeys
  /\ Call([op |-> "create key"])
  /\ UNCHANGED view

KeyCreated ==
  /\ calls # <<>> /\ Head(calls).op = "create key"
  /\ server' = [server EXCEPT !.keys = Append(@, "active")]
  /\ view' = [view EXCEPT !.rawKey = Len(server.keys) + 1, !.creating = FALSE,
                          !.loading = @ \cup {"keys"}]
  /\ calls' = Append(Tail(calls), Fetch("keys"))

ForgetRawKey ==
  /\ view.rawKey # None
  /\ view' = [view EXCEPT !.rawKey = None]
  /\ UNCHANGED <<calls, server>>

\* After a confirmation.
HandleRevokeKey(i) ==
  /\ Listed("keys", i) /\ view.rows["keys"][i] = "active"
  /\ Call([op |-> "revoke key", key |-> i])
  /\ UNCHANGED view

KeyRevoked ==
  /\ calls # <<>> /\ Head(calls).op = "revoke key"
  /\ server' = [server EXCEPT !.keys[Head(calls).key] = "revoked"]
  /\ view' = [view EXCEPT !.loading = @ \cup {"keys"}]
  /\ calls' = Append(Tail(calls), Fetch("keys"))

-----------------------------------------------------------------------------
(* Webhooks: 0 stands for the target that the drawer creates. *)

OpenWebhookEdit(h) ==
  /\ Listed("hooks", h)
  /\ view' = [view EXCEPT !.editing = h, !.draft = view.rows["hooks"][h]]
  /\ UNCHANGED <<calls, server>>

OpenWebhookCreate ==
  /\ NoDialog /\ view.tab = "webhooks"
  /\ view' = [view EXCEPT !.editing = 0, !.draft = {}]
  /\ UNCHANGED <<calls, server>>

ToggleWebhookEvent(e) ==
  /\ view.editing # None
  /\ view' = [view EXCEPT !.draft = IF e \in @ THEN @ \ {e} ELSE @ \cup {e}]
  /\ UNCHANGED <<calls, server>>

CloseWebhook ==
  /\ view.editing # None
  /\ view' = [view EXCEPT !.editing = None]
  /\ UNCHANGED <<calls, server>>

HandleSaveWebhook ==
  /\ view.editing # None
  /\ Len(server.hooks) + Pending("save hook") < MaxHooks + (IF view.editing = 0 THEN 0 ELSE 1)
  /\ Call([op |-> "save hook", hook |-> view.editing, events |-> view.draft])
  /\ UNCHANGED view

\* The drawer that is open by now is closed.
WebhookSaved ==
  /\ calls # <<>> /\ Head(calls).op = "save hook"
  /\ LET call == Head(calls)
     IN  \/ /\ call.hook # 0
            /\ server' = [server EXCEPT !.hooks[call.hook] = call.events]
         \/ /\ call.hook = 0
            /\ server' = [server EXCEPT !.hooks = Append(@, call.events)]
  /\ view' = [view EXCEPT !.editing = None, !.loading = @ \cup {"hooks"}]
  /\ calls' = Append(Tail(calls), Fetch("hooks"))

-----------------------------------------------------------------------------
(* Deliveries *)

\* A target without events only raises an alert.
HandleSendTest(h) ==
  /\ Listed("hooks", h) /\ view.rows["hooks"][h] # {}
  /\ Len(server.deliveries) + Pending("test hook") < MaxDeliveries
  /\ Call([op |-> "test hook"])
  /\ UNCHANGED view

TestSent ==
  /\ calls # <<>> /\ Head(calls).op = "test hook"
  /\ server' = [server EXCEPT !.deliveries = <<1>> \o @]
  /\ view' = [view EXCEPT !.loading = @ \cup {"deliveries"}]
  /\ calls' = Append(Tail(calls), Fetch("deliveries"))

\* Entries are named by their age, so that a row keeps its entry when the log grows.
HandleRetryDelivery(d) ==
  /\ Listed("deliveries", d)
  /\ view.rows["deliveries"][d] + Pending("retry delivery") < MaxDeliveries
  /\ Call([op |-> "retry delivery", delivery |-> Len(view.rows["deliveries"]) - d])
  /\ UNCHANGED view

DeliveryRetried ==
  /\ calls # <<>> /\ Head(calls).op = "retry delivery"
  /\ LET d == Len(server.deliveries) - Head(calls).delivery
     IN  server' = [server EXCEPT !.deliveries[d] = @ + 1]
  /\ view' = [view EXCEPT !.loading = @ \cup {"deliveries"}]
  /\ calls' = Append(Tail(calls), Fetch("deliveries"))

InspectPayload(d) ==
  /\ Listed("deliveries", d)
  /\ view' = [view EXCEPT !.payload = d]
  /\ UNCHANGED <<calls, server>>

ClosePayload ==
  /\ view.payload # None
  /\ view' = [view EXCEPT !.payload = None]
  /\ UNCHANGED <<calls, server>>

ListAnswered ==
  /\ calls # <<>> /\ Head(calls).op = "list"
  /\ LET list == Head(calls).list
     IN  view' = [view EXCEPT !.rows[list] = server[list], !.loading = @ \ {list}]
  /\ calls' = Tail(calls)
  /\ UNCHANGED server

Next ==
  \/ \E t \in {"api-keys", "webhooks"} : ShowTab(t)
  \/ OpenCreateKey \/ CloseCreateKey \/ HandleCreateKey \/ KeyCreated \/ ForgetRawKey
  \/ \E k \in Keys : HandleRevokeKey(k)
  \/ KeyRevoked
  \/ OpenWebhookCreate \/ CloseWebhook \/ HandleSaveWebhook \/ WebhookSaved
  \/ \E h \in Hooks : OpenWebhookEdit(h) \/ HandleSendTest(h)
  \/ \E e \in Events : ToggleWebhookEvent(e)
  \/ TestSent \/ DeliveryRetried \/ ClosePayload
  \/ \E d \in 1..MaxDeliveries : HandleRetryDelivery(d) \/ InspectPayload(d)
  \/ ListAnswered

Spec == Init /\ [][Next]_vars

-----------------------------------------------------------------------------
TypeOK ==
  /\ view.tab \in {"api-keys", "webhooks"} /\ view.creating \in BOOLEAN
  /\ view.rawKey \in Keys \cup {None} /\ view.editing \in Hooks \cup {0, None}
  /\ view.draft \subseteq Events /\ view.loading \subseteq Lists
  /\ Len(calls) <= MaxCalls + 2
  /\ server.keys \in Seq({"active", "revoked"}) /\ server.hooks \in Seq(SUBSET Events)
  /\ server.deliveries \in Seq(1..MaxDeliveries)

\* With every call answered the panel shows what is stored: no revoked key is still listed
\* as active and no delivery is missing, whatever was clicked while calls were under way.
PanelSettles == calls = <<>> => view.loading = {} /\ view.rows = server
=============================================================================
