----------------------------- MODULE AdminForms -----------------------------
(***************************************************************************)
(* The administration panels that work on the built-in server through the  *)
(* API client (AdminSuite.tsx: notification templates, report schedules,   *)
(* extraction rules, system settings; client.ts).  Each lists its items,   *)
(* edits one in a drawer and lists them again when the save was answered.  *)
(* The built-in server answers in the order of the calls; an answer to a   *)
(* panel that was left changes nothing on the screen.                      *)
(***************************************************************************)
EXTENDS Integers, Sequences

CONSTANTS
  Templates, Reports, Rules,   \* items of the seed
  NewRule,                     \* the rule the drawer can create
  Values,                      \* what a form can hold
  MaxCalls,                    \* bound: calls in flight
  None

FormsAssumption ==
  /\ None \notin Values \cup Templates \cup Reports \cup Rules \cup {NewRule}
  /\ MaxCalls \in Nat \ {0} /\ NewRule \notin Rules /\ Values # {}

VARIABLES
  view,          \* the panel, its hooks, and the settings store
  calls,         \* calls in flight, oldest first
  server         \* what the built-in server stores: panel -> item -> value

vars == <<view, calls, server>>

Panels == {"templates", "reports", "rules", "settings"}

ItemsOf(panel) ==
  CASE panel = "templates" -> Templates [] panel = "reports" -> Reports
    [] panel = "rules" -> Rules \cup {NewRule} [] panel = "settings" -> {"settings"}

\* An item that is not stored has the value None.
Stored == [p \in Panels |-> [i \in ItemsOf(p) |-> IF i = NewRule THEN None ELSE CHOOSE v \in Values : TRUE]]

List(panel) == [op |-> "list", panel |-> panel, item |-> None, value |-> None, mine |-> TRUE]

\* editing: the item in the drawer; draft: what its form holds; pending: the delay of the
\* preview runs; preview: the template and the text the preview shown is of; saving: the
\* button's flag.
Panel(panel, settings) ==
  [panel |-> panel, rows |-> <<>>, isLoading |-> TRUE, editing |-> None, draft |-> None,
   pending |-> FALSE, preview |-> None, matches |-> None, saving |-> FALSE, settings |-> settings]

Init ==
  /\ server = Stored
  /\ view = Panel("templates", Stored["settings"]["settings"])
  /\ calls = <<List("templates")>>

OpenPanel(p) ==
  /\ p # view.panel /\ Len(calls) < MaxCalls
  /\ view' = Panel(p, view.settings)
  /\ calls' = Append([k \in DOMAIN calls |-> [calls[k] EXCEPT !.mine = FALSE]], List(p))
  /\ UNCHANGED server

Call(op, item, value) ==
  /\ Len(calls) < MaxCalls
  /\ calls' = Append(calls, [op |-> op, panel |-> view.panel, item |-> item, value |-> value, mine |-> TRUE])
  /\ UNCHANGED server

Shown(panel, item) == view.panel = panel /\ ~view.isLoading /\ view.rows[item] # None

-----------------------------------------------------------------------------
(* Notification templates *)

\* The effect on the editor's fields: the delay starts again.
EditTemplate(t) ==
  /\ Shown("templates", t) /\ view.editing # t
  /\ view' = [view EXCEPT !.editing = t, !.draft = view.rows[t], !.preview = None, !.pending = TRUE]
  /\ UNCHANGED <<calls, server>>

TypeTemplate(v) ==
  /\ view.panel = "templates" /\ view.editing # None /\ view.draft # v
  /\ view' = [view EXCEPT !.draft = v, !.pending = TRUE]
  /\ UNCHANGED <<calls, server>>

PreviewFires ==
  /\ view.pending
  /\ view' = [view EXCEPT !.pending = FALSE]
  /\ Call("preview", view.editing, view.draft)

CloseTemplate ==
  /\ view.panel = "templates" /\ view.editing # None
  /\ view' = [view EXCEPT !.editing = None, !.pending = FALSE]
  /\ UNCHANGED <<calls, server>>

SaveTemplate ==
  /\ view.panel = "templates" /\ view.editing # None
  /\ Call("put", view.editing, view.draft)
  /\ UNCHANGED view

\* No answer looks at the editor that is open by now.
PreviewAnswered ==
  /\ calls # <<>> /\ Head(calls).op = "preview"
  /\ calls' = Tail(calls)
  /\ view' = IF Head(calls).mine THEN [view EXCEPT !.preview = <<Head(calls).item, Head(calls).value>>] ELSE view
  /\ UNCHANGED server

-----------------------------------------------------------------------------
(* Report schedules: one save at a time. *)

OpenReport(r) ==
  /\ Shown("reports", r) /\ view.editing = None
  /\ view' = [view EXCEPT !.editing = r, !.draft = view.rows[r]]
  /\ UNCHANGED <<calls, server>>

TypeReport(v) ==
  /\ view.panel = "reports" /\ view.editing # None /\ view.draft # v
  /\ view' = [view EXCEPT !.draft = v]
  /\ UNCHANGED <<calls, server>>

CloseReport ==
  /\ view.panel = "reports" /\ view.editing # None
  /\ view' = [view EXCEPT !.editing = None]
  /\ UNCHANGED <<calls, server>>

SaveReport ==
  /\ view.panel = "reports" /\ view.editing # None /\ ~view.saving
  /\ view' = [view EXCEPT !.saving = TRUE]
  /\ Call("put", view.editing, view.draft)

-----------------------------------------------------------------------------
(* Extraction rules *)

OpenRule(r) ==
  /\ Shown("rules", r) /\ view.editing = None
  /\ view' = [view EXCEPT !.editing = r, !.draft = view.rows[r], !.matches = None]
  /\ UNCHANGED <<calls, server>>

\* One rule is created here.
CreateRule ==
  /\ view.panel = "rules" /\ view.editing = None
  /\ server["rules"][NewRule] = None
  /\ view' = [view EXCEPT !.editing = NewRule, !.draft = CHOOSE v \in Values : TRUE, !.matches = None]
  /\ UNCHANGED <<calls, server>>

TypeRule(v) ==
  /\ view.panel = "rules" /\ view.editing # None /\ view.draft # v
  /\ view' = [view EXCEPT !.draft = v]
  /\ UNCHANGED <<calls, server>>

CloseRule ==
  /\ view.panel = "rules" /\ view.editing # None
  /\ view' = [view EXCEPT !.editing = None]
  /\ UNCHANGED <<calls, server>>

SaveRule ==
  /\ view.panel = "rules" /\ view.editing # None
  /\ Call("put", view.editing, view.draft)
  /\ UNCHANGED view

\* A dry run at a time, of the rule as it is typed.
TestRule ==
  /\ view.panel = "rules" /\ view.editing # None /\ ~view.saving
  /\ view' = [view EXCEPT !.saving = TRUE]
  /\ Call("test", view.editing, view.draft)

TestAnswered ==
  /\ calls # <<>> /\ Head(calls).op = "test"
  /\ calls' = Tail(calls)
  /\ view' = IF Head(calls).mine
             THEN [view EXCEPT !.saving = FALSE, !.matches = <<Head(calls).item, Head(calls).value>>]
             ELSE view
  /\ UNCHANGED server

-----------------------------------------------------------------------------
(* System settings: the form is filled from the settings store. *)

TypeSetting(v) ==
  /\ view.panel = "settings" /\ ~view.isLoading /\ view.draft # v
  /\ view' = [view EXCEPT !.draft = v]
  /\ UNCHANGED <<calls, server>>

SaveSettings ==
  /\ view.panel = "settings" /\ ~view.isLoading /\ ~view.saving
  /\ view' = [view EXCEPT !.saving = TRUE]
  /\ Call("put", "settings", view.draft)

\* The store takes what was saved, and the form follows the store when that changes it.
SettingsSaved ==
  /\ calls # <<>> /\ Head(calls).op = "put" /\ Head(calls).panel = "settings"
  /\ LET call == Head(calls)
     IN  /\ server' = [server EXCEPT !["settings"]["settings"] = call.value]
         /\ view' = [view EXCEPT !.settings = call.value,
                                 !.saving = IF call.mine THEN FALSE ELSE @,
                                 !.draft = IF view.panel = "settings" /\ ~view.isLoading
                                           THEN call.value ELSE @]
  /\ calls' = Tail(calls)

-----------------------------------------------------------------------------
(* Lists and saves *)

ListAnswered ==
  /\ calls # <<>> /\ Head(calls).op = "list"
  /\ LET call == Head(calls)
     IN  view' = IF ~call.mine THEN view
                 ELSE [view EXCEPT !.rows = server[call.panel], !.isLoading = FALSE,
                                   !.draft = IF call.panel = "settings" THEN view.settings ELSE @]
  /\ calls' = Tail(calls)
  /\ UNCHANGED server

Stores(call) == server' = [server EXCEPT ![call.panel][call.item] = call.value]

\* The drawer that is open by now is closed, whichever item it edits; the list is fetched.
Saved ==
  /\ calls # <<>> /\ Head(calls).op = "put" /\ Head(calls).panel # "settings"
  /\ LET call == Head(calls)
         loading == call.panel # "templates"
     IN  /\ Stores(call)
         /\ view' = IF ~call.mine THEN view
                    ELSE [view EXCEPT !.editing = None, !.pending = FALSE,
                                      !.saving = IF call.panel = "reports" THEN FALSE ELSE @,
                                      !.isLoading = loading]
         /\ calls' = Append(Tail(calls), [List(call.panel) EXCEPT !.mine = call.mine])

Next ==
  \/ \E p \in Panels : OpenPanel(p)
  \/ \E t \in Templates : EditTemplate(t)
  \/ \E r \in Reports : OpenReport(r)
  \/ \E r \in Rules \cup {NewRule} : OpenRule(r)
  \/ \E v \in Values : TypeTemplate(v) \/ TypeReport(v) \/ TypeRule(v) \/ TypeSetting(v)
  \/ PreviewFires \/ CloseTemplate \/ SaveTemplate \/ PreviewAnswered
  \/ CloseReport \/ SaveReport
  \/ CreateRule \/ CloseRule \/ SaveRule \/ TestRule \/ TestAnswered
  \/ SaveSettings \/ SettingsSaved
  \/ ListAnswered \/ Saved

Spec == Init /\ [][Next]_vars

-----------------------------------------------------------------------------
TypeOK ==
  /\ view.panel \in Panels
  /\ {view.isLoading, view.pending, view.saving} \subseteq BOOLEAN
  /\ view.editing \in ItemsOf(view.panel) \cup {None}
  /\ view.draft \in Values \cup {None}
  /\ Len(calls) <= MaxCalls
  /\ \A p \in Panels : server[p] \in [ItemsOf(p) -> Values \cup {None}]

\* Once the typing has stopped and every call is answered, the preview shown is of the
\* template and of the text that are in the editor: an answer for an older text, or for a
\* template closed meanwhile, does not stay.
PreviewSettles ==
  calls = <<>> /\ ~view.pending /\ view.panel = "templates" /\ view.editing # None
     => view.preview = <<view.editing, view.draft>>

\* With every call answered the list on the screen is the one that is stored, whatever
\* panels were left and opened again while saves were under way.
ListsSettle ==
  calls = <<>> => /\ ~view.isLoading
                  /\ view.panel # "settings" => view.rows = server[view.panel]
                  /\ view.settings = server["settings"]["settings"]
=============================================================================
