--------------------------- MODULE AdminDirectory ---------------------------
(***************************************************************************)
(* The administration panels that work on the admin store in demo mode     *)
(* (AdminSuite.tsx, adminStore.ts): users, the role matrix, model          *)
(* settings, prompts, feature flags, the audit log, failed ingestion jobs  *)
(* and lookups.  The store lives as long as the page and is copied to      *)
(* localStorage change by change; the hooks of a panel start again when    *)
(* another one is opened.                                                  *)
(***************************************************************************)
EXTENDS Integers, Sequences, FiniteSets, Lists

CONSTANTS
  Users,         \* accounts of the seed
  Guests,        \* addresses that can be invited
  Roles,
  Cells,         \* cells of the role matrix
  Capabilities, Prompts, Flags, Jobs, Codes,
  Models,        \* settings a capability or the fallback takes
  Texts,         \* texts of a prompt
  MaxVersion,    \* bound: versions of a prompt
  MaxRecords,    \* bound: audit records, kept, on their way and lost
  None

DirectoryAssumption ==
  /\ {MaxVersion, MaxRecords} \subseteq Nat
  /\ None \notin Users \cup Guests \cup Capabilities \cup Prompts \cup Codes
  /\ Roles # {} /\ Models # {} /\ Texts # {} /\ None \notin [active : BOOLEAN, roles : SUBSET Roles]

VARIABLES
  view,          \* the store in memory and the hooks of the panel
  calls,         \* audit records whose timer has not fired
  server         \* localStorage: the values and the audit log, newest first; and, kept nowhere, the
                 \* entities whose last change is not in the log because the page went before
                 \* its timer fired

vars == <<view, calls, server>>

Of(section, keys) == {<<section, k>> : k \in keys}

Entities == Of("user", Users \cup Guests) \cup Of("matrix", {"all"}) \cup Of("fallback", {"all"})
            \cup Of("capability", Capabilities) \cup Of("prompt", Prompts)
            \cup Of("flag", Flags) \cup Of("job", Jobs) \cup Of("lookup", Codes)

User == [active : BOOLEAN, roles : SUBSET Roles] \cup {None}
Prompt == [version : 0..MaxVersion, text : Texts]

\* An option code can be there twice, once active and once not.
ValuesOf(e) ==
  CASE e[1] = "user" -> User
    [] e[1] = "matrix" -> SUBSET Cells
    [] e[1] \in {"fallback", "capability"} -> Models
    [] e[1] = "prompt" -> Prompt
    [] e[1] \in {"flag", "job"} -> BOOLEAN
    [] e[1] = "lookup" -> SUBSET BOOLEAN

Seed(e) ==
  CASE e[1] = "user" -> IF e[2] \in Users THEN [active |-> TRUE, roles |-> Roles] ELSE None
    [] e[1] = "matrix" -> {}
    [] e[1] \in {"fallback", "capability"} -> CHOOSE m \in Models : TRUE
    [] e[1] = "prompt" -> [version |-> 0, text |-> CHOOSE t \in Texts : TRUE]
    [] e[1] \in {"flag", "job"} -> TRUE
    [] e[1] = "lookup" -> {TRUE}

Panels == {"users", "roles", "ai-config", "prompts", "feature-flags", "audit-log", "ingestion", "lookups"}

\* editing: the entity in the drawer; draft: what its form holds; testing: the run of the
\* prompt under way; output: the last one shown; filter: a role or a section.
Panel(panel, data) ==
  [panel |-> panel, data |-> data, editing |-> None, draft |-> None, picked |-> {},
   dirty |-> FALSE, testing |-> None, output |-> None, filter |-> None]

Init ==
  /\ view = Panel("users", [e \in Entities |-> Seed(e)])
  /\ calls = <<>>
  /\ server = [data |-> [e \in Entities |-> Seed(e)], log |-> <<>>, lost |-> {}]

OpenPanel(p) ==
  /\ p # view.panel
  /\ view' = Panel(p, view.data)
  /\ UNCHANGED <<calls, server>>

Room == Len(server.log) + Len(calls) + Cardinality(server.lost) < MaxRecords

Record(es, value) == [of |-> es, after |-> value]

Set(data, es, value) == [e \in Entities |-> IF e \in es THEN value ELSE data[e]]

\* The change is stored at once and its audit record with it.
Recorded(es, value, v) ==
  /\ Room
  /\ view' = [v EXCEPT !.data = Set(@, es, value)]
  /\ server' = [data |-> Set(server.data, es, value), log |-> <<Record(es, value)>> \o server.log,
                lost |-> server.lost \ es]
  /\ UNCHANGED calls

\* Mutant: the record is made from the value before the change.
Deferred_Before(es, value, v) ==
  /\ Room
  /\ view' = [v EXCEPT !.data = Set(@, es, value)]
  /\ server' = [server EXCEPT !.data = Set(@, es, value), !.lost = @ \ es]
  /\ calls' = Append(calls, Record(es, view.data[CHOOSE e \in es : TRUE]))

\* The change is stored at once, its audit record by a timer of no delay.
Deferred(es, value, v) ==
  /\ Room
  /\ view' = [v EXCEPT !.data = Set(@, es, value)]
  /\ server' = [server EXCEPT !.data = Set(@, es, value), !.lost = @ \ es]
  /\ calls' = Append(calls, Record(es, value))

RecordKept ==
  /\ calls # <<>>
  /\ server' = [server EXCEPT !.log = <<Head(calls)>> \o @]
  /\ calls' = Tail(calls)
  /\ UNCHANGED view

\* A reload reads localStorage again; the records whose timers have not fired go with the page.
Reload ==
  /\ view' = Panel("users", server.data)
  /\ server' = [server EXCEPT !.lost = @ \cup UNION {record.of : record \in Elements(calls)}]
  /\ calls' = <<>>

-----------------------------------------------------------------------------
(* Users *)

OpenInvite ==
  /\ view.panel = "users"
  /\ view' = [view EXCEPT !.editing = "invite", !.picked = {CHOOSE r \in Roles : TRUE}]
  /\ UNCHANGED <<calls, server>>

\* The last role cannot be taken off.
ToggleInviteRole(r) ==
  /\ view.editing = "invite"
  /\ r \in view.picked => view.picked # {r}
  /\ view' = [view EXCEPT !.picked = IF r \in @ THEN @ \ {r} ELSE @ \cup {r}]
  /\ UNCHANGED <<calls, server>>

CloseInvite ==
  /\ view.editing = "invite"
  /\ view' = [view EXCEPT !.editing = None, !.picked = {}]
  /\ UNCHANGED <<calls, server>>

\* An address is invited once here; the store would add a second row.
InviteUser(g) ==
  /\ view.editing = "invite"
  /\ view.data[<<"user", g>>] = None
  /\ Recorded({<<"user", g>>}, [active |-> TRUE, roles |-> view.picked],
              [view EXCEPT !.editing = None, !.picked = {}])

FilterRole(r) ==
  /\ view.panel = "users" /\ view.filter # r
  /\ view' = [view EXCEPT !.filter = r]
  /\ UNCHANGED <<calls, server>>

ShownUsers ==
  {u \in Users \cup Guests :
     LET user == view.data[<<"user", u>>] IN user # None /\ (view.filter = None \/ view.filter \in user.roles)}

ToggleUserStatus(u) ==
  /\ view.panel = "users" /\ u \in ShownUsers
  /\ LET user == view.data[<<"user", u>>]
     IN  Deferred({<<"user", u>>}, [user EXCEPT !.active = ~@], view)

-----------------------------------------------------------------------------
(* Role matrix: edits stay in memory until they are saved. *)

Matrix == <<"matrix", "all">>

ToggleCell(c) ==
  /\ view.panel = "roles"
  /\ view' = [view EXCEPT !.data[Matrix] = IF c \in @ THEN @ \ {c} ELSE @ \cup {c}, !.dirty = TRUE]
  /\ UNCHANGED <<calls, server>>

SaveMatrix ==
  /\ view.dirty
  /\ Recorded({Matrix}, view.data[Matrix], [view EXCEPT !.dirty = FALSE])

\* The bar goes, the edits stay.
ResetMatrix ==
  /\ view.dirty
  /\ view' = [view EXCEPT !.dirty = FALSE]
  /\ UNCHANGED <<calls, server>>

-----------------------------------------------------------------------------
(* Model settings and prompts *)

SetFallback(m) ==
  /\ view.panel = "ai-config"
  /\ Recorded({<<"fallback", "all">>}, m, view)

EditCapability(c) ==
  /\ view.panel = "ai-config" /\ view.editing = None
  /\ view' = [view EXCEPT !.editing = c, !.draft = view.data[<<"capability", c>>]]
  /\ UNCHANGED <<calls, server>>

EditPrompt(p) ==
  /\ view.panel = "prompts" /\ view.editing = None
  /\ view' = [view EXCEPT !.editing = p, !.draft = view.data[<<"prompt", p>>].text, !.output = None]
  /\ UNCHANGED <<calls, server>>

\* A capability's drawer.
TypeSetting(m) ==
  /\ view.panel = "ai-config" /\ view.editing # None
  /\ view' = [view EXCEPT !.draft = m]
  /\ UNCHANGED <<calls, server>>

TypePrompt(t) ==
  /\ view.panel = "prompts" /\ view.editing # None
  /\ view' = [view EXCEPT !.draft = t]
  /\ UNCHANGED <<calls, server>>

CloseDrawer ==
  /\ view.panel \in {"ai-config", "prompts"} /\ view.editing # None
  /\ view' = [view EXCEPT !.editing = None]
  /\ UNCHANGED <<calls, server>>

SaveCapability ==
  /\ view.panel = "ai-config" /\ view.editing # None
  /\ Deferred({<<"capability", view.editing>>}, view.draft, [view EXCEPT !.editing = None])

\* A draft changes the text in force too; only an activation makes a version.
SavePrompt(activate) ==
  /\ view.panel = "prompts" /\ view.editing # None
  /\ LET p == <<"prompt", view.editing>>
         version == view.data[p].version + (IF activate THEN 1 ELSE 0)
     IN  /\ version <= MaxVersion
         /\ Deferred({p}, [version |-> version, text |-> view.draft], [view EXCEPT !.editing = None])

\* One run at a time; it keeps the text of the click.
TestPrompt ==
  /\ view.panel = "prompts" /\ view.editing # None
  /\ view.testing = None
  /\ view' = [view EXCEPT !.testing = [prompt |-> view.editing, text |-> view.draft], !.output = None]
  /\ UNCHANGED <<calls, server>>

\* The drawer that is open now shows it.
TestShown ==
  /\ view.testing # None
  /\ view' = [view EXCEPT !.testing = None, !.output = view.testing]
  /\ UNCHANGED <<calls, server>>

-----------------------------------------------------------------------------
(* Feature flags, ingestion queue, lookups, audit log *)

ToggleFlag(f) ==
  /\ view.panel = "feature-flags"
  /\ Deferred({<<"flag", f>>}, ~view.data[<<"flag", f>>], view)

Failed == {j \in Jobs : view.data[<<"job", j>>]}

RetryIngestionJob(j) ==
  /\ view.panel = "ingestion" /\ j \in Failed
  /\ Recorded({<<"job", j>>}, FALSE, view)

RetryAllIngestionJobs ==
  /\ view.panel = "ingestion" /\ Failed # {}
  /\ Recorded(Of("job", Jobs), FALSE, view)

\* Nothing looks for the code among the options that are there.
AddLookupOption(c) ==
  /\ view.panel = "lookups"
  /\ Recorded({<<"lookup", c>>}, view.data[<<"lookup", c>>] \cup {TRUE}, view)

\* Every option of the code takes the new value.
UpdateLookupOption(c, active) ==
  /\ view.panel = "lookups" /\ active \in view.data[<<"lookup", c>>]
  /\ Recorded({<<"lookup", c>>}, {~active}, view)

DeleteLookupOption(c) ==
  /\ view.panel = "lookups" /\ view.data[<<"lookup", c>>] # {}
  /\ Recorded({<<"lookup", c>>}, {}, view)

FilterLog(section) ==
  /\ view.panel = "audit-log" /\ view.filter # section
  /\ view' = [view EXCEPT !.filter = section]
  /\ UNCHANGED <<calls, server>>

ShownRecords ==
  {r \in Elements(server.log) : view.filter = None \/ \E e \in r.of : e[1] = view.filter}

InspectRecord(r) ==
  /\ view.panel = "audit-log" /\ r \in ShownRecords
  /\ view' = [view EXCEPT !.draft = r]
  /\ UNCHANGED <<calls, server>>

Next ==
  \/ \E p \in Panels : OpenPanel(p)
  \/ RecordKept \/ Reload
  \/ OpenInvite \/ CloseInvite
  \/ \E r \in Roles : ToggleInviteRole(r)
  \/ \E r \in Roles \cup {None} : FilterRole(r)
  \/ \E g \in Guests : InviteUser(g)
  \/ \E u \in Users \cup Guests : ToggleUserStatus(u)
  \/ \E c \in Cells : ToggleCell(c)
  \/ SaveMatrix \/ ResetMatrix
  \/ \E m \in Models : SetFallback(m) \/ TypeSetting(m)
  \/ \E c \in Capabilities : EditCapability(c)
  \/ \E p \in Prompts : EditPrompt(p)
  \/ \E t \in Texts : TypePrompt(t)
  \/ CloseDrawer \/ SaveCapability \/ TestPrompt \/ TestShown
  \/ \E activate \in BOOLEAN : SavePrompt(activate)
  \/ \E f \in Flags : ToggleFlag(f)
  \/ \E j \in Jobs : RetryIngestionJob(j)
  \/ RetryAllIngestionJobs
  \/ \E c \in Codes : AddLookupOption(c) \/ DeleteLookupOption(c)
  \/ \E c \in Codes, active \in BOOLEAN : UpdateLookupOption(c, active)
  \/ \E section \in {"user", "flag", None} : FilterLog(section)
  \/ \E r \in Elements(server.log) : InspectRecord(r)

Spec == Init /\ [][Next]_vars

-----------------------------------------------------------------------------
TypeOK ==
  /\ view.panel \in Panels /\ view.dirty \in BOOLEAN /\ view.picked \subseteq Roles
  /\ \A e \in Entities : {view.data[e], server.data[e]} \subseteq ValuesOf(e)
  /\ Len(server.log) + Len(calls) <= MaxRecords

Replayed(e) ==
  LET told == {i \in DOMAIN server.log : e \in server.log[i].of}
  IN  IF told = {} THEN Seed(e)
      ELSE server.log[CHOOSE i \in told : \A j \in told : i <= j].after

\* At rest the audit log tells what is stored: replaying it from the seed gives every stored
\* value, whichever panels made the records and in which order they were kept.  Only an entity
\* whose record went with the page is told wrong, until it is changed again.
AuditTrail == calls = <<>> => \A e \in Entities \ server.lost : Replayed(e) = server.data[e]
=============================================================================
