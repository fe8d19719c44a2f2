# IndusMind in TLA+

IndusMind is a maintenance platform for industrial plants: a FastAPI backend over
PostgreSQL, Redis, an object store and Celery workers, and a React console. This directory
models the parts of both whose correctness depends on the order in which requests, answers,
timers, tasks, commits and crashes come. Backend paths below are relative to
`src/BACKEND/app`, frontend paths to `src/FRONTEND/src`.

## 1. The system

### How the backend runs

* **Requests.** Each HTTP request gets one database session (`core/database.py`), committed
  when the handler returns and rolled back on an exception. Isolation is READ COMMITTED.
  Most services read a row without a lock, check it in Python, assign columns, and let the
  ORM's flush issue the UPDATE; that UPDATE waits for the row lock, holds it to the end of
  the transaction, and writes only the columns that differ from what was *loaded*.
* **Events.** `core/events.py` is an in-process synchronous bus. Handlers run inside the
  publisher's call, before its commit; several open sessions of their own and commit first.
  An exception of a handler is logged and swallowed.
* **Tasks.** Celery messages are acknowledged when a task ends, and go back to the queue when
  its worker dies (`workers/celery_app.py`: `task_acks_late`, `task_reject_on_worker_lost`).
  Messages are usually sent from inside a request, before it commits.
* **Beats.** Periodic tasks may overlap with a previous run that is slow.

### How the console runs

* **One thread.** Handlers, timers and answers run one after the other. What is concurrent
  is what lies between a call and its answer: the user goes on clicking, screens are left,
  other calls are made. A handler that goes on after an `await` still has the state of the
  render it was created in.
* **Screens.** `App.tsx` mounts the screen of the URL's hash inside `AppShell`. A screen
  that is left loses its state hooks; its calls and most of its intervals go on and find
  nobody. Two addresses of one screen (two documents, two assets) share its hooks.
* **Two servers.** In live mode `apiRequest` calls the backend, and answers come in any
  order or not at all. In demo mode the same calls go to a built-in server
  (`simulateNetworkCall` in `lib/api/client.ts`), which answers each after the same 300 ms
  (line 437) and so in the order of the calls, and keeps its rows in `localStorage`.
* **What outlives a screen.** The access token and its refresh (`client.ts`), the
  notification socket (`lib/api/ws.ts`), and the stores.

### Components

`PROJECT.json` lists every component with its source files. Those that keep state:

| Component | State | Operations | What makes it correct | Status |
|---|---|---|---|---|
| Work orders | `work_orders`, `failure_records` | create, edit, assign, transition, close, delete | a terminal status is final and its effects happen once | modelled |
| Spare parts | `parts`, `part_movements`, `work_order_parts` | catalogue, adjust, plan, consume on close, low-stock event | balance = sum of movements, never negative, every crossing announced | modelled |
| Webhooks | `webhook_deliveries` | fan-out, dispatch, attempt, sweep, manual retry, test event, endpoint deletion | no two POSTs at once, bounded attempts, every delivery settles | modelled |
| Documents | `documents`, `document_versions`, `ingestion_jobs` | confirm, reprocess, new version, delete | the status reflects what happened to the current version | partly |
| Ingestion | `document_chunks`, `extracted_entities`, jobs | run, retry with backoff, mark failed, job retry, cancel | one set of chunks a version, replaced atomically; documents settle | partly |
| Sessions (backend) | refresh families | refresh, revoke, logout | a replayed refresh token ends the session | partly, as the console sees it |
| Console: session | tokens, the refreshing flag, its subscribers | request, refresh, retry, logout | one refresh at a time; idling never signs out; a logout is final | partly |
| Console: socket and inbox | one socket, a reconnect timer, the list | connect, drop, reject, disconnect, hydrate, push, read | no socket after logout, a dropped one is replaced, no row twice | partly |
| Console: shell | palette, recent searches, tour, drawers | search, choose, highlight, open, tour | nothing spins for ever; no recent search is kept twice | partly |
| Console: documents | list and selection; upload queue; one document | filter, page, bulk, drop, pipeline, approve, review, comment | the screen ends with what is stored and asked for | partly |
| Console: copilot | chats, bubbles, streams | open, ask, create, delete, stream | every token in its own bubble | partly |
| Console: maintenance | orders, decisions, schedule | edit, assign, move, close, sync, accept, optimise | only planners close; nobody's edit is taken back by a stale row; one order a decision | partly |
| Console: equipment, compliance | tree, pages, gaps, imports, packages | open, raise, accept, remediate, import, compile | decisions and orders agree; branches, imports and compilations end | partly |
| Console: knowledge graph | the canvas | seed, search, expand, choose, reset | edges have both ends | partly |
| Console: administration, profile | store and audit log; lists and drawers; keys and hooks; preferences | edit, save, revoke, test | lists show what is stored; the log replays to the state | partly |
| Console: dashboard, imports, spare parts | tiles, checklist; a job; counts | refresh, seed, poll, adjust | complete means seeded; polling comes to an end | partly |
| PM schedules, predictions, reports; jobs; retention; caches | rows, Redis keys | beats, create, confirm, fill, bust | one work order per window; an accepted job ends | not modelled |
| The rest | create/read/update/delete rows | | | not modelled |

How they interact: a close of a work order consumes parts in its own transaction and publishes
events before it commits; every event may fan out to webhooks and notifications in sessions of
their own; document events enqueue ingestion; ingestion feeds search, the graph and the copilot.
Notifications are pushed down the console's socket and also answered to its calls. Every screen
reads and writes through `apiRequest`, so each depends on the session; the maintenance screens
send the versions that `WorkOrders` checks. Hard behaviours are the unlocked reads before writes,
work that is queued or announced before its commit, redelivered tasks, late answers, handlers of
an older render, optimistic edits, and intervals nothing clears. `PROJECT.json` gives the hazards
with their lines.

## 2. Modules

| Module | Models | Runs through |
|---|---|---|
| `WorkOrders` | `modules/maintenance` (work orders) and `modules/parts` | `MCWorkOrders` |
| `Webhooks` | `modules/integrations`, `integration_tasks.py` | `MCWebhooks` |
| `Ingestion` | `modules/documents`, `modules/ingestion`, `ingestion_tasks.py` | `MCIngestion` |
| `SearchIndex` | the abstract promise ingestion makes to search | refined by `Ingestion` |
| `Session` | `lib/api/client.ts` (apiRequest), `stores/authStore.ts` | `MCSession` |
| `Realtime` | `lib/api/ws.ts`, `stores/notificationStore.ts`, the bell, the hub | `MCRealtime` |
| `Console` | `App.tsx`: the screens below, composed | `MCConsole` |
| `CommandPalette`, `ShellPanels` | `components/layout/AppShell.tsx` | `Console` |
| `Dashboard` | `components/dashboard/RoleDashboard.tsx` | `Console` |
| `ImportWizard` | `components/views/data/ImportWizard.tsx` | `Console` |
| `DocumentLibrary`, `UploadWorkspace`, `DocumentDetail` | `components/views/documents/DocumentsLibrary.tsx` | `Console` |
| `Copilot` (live), `CopilotDemo` | `components/copilot/ExpertCopilot.tsx` | `Console` |
| `WorkOrderBoard` (demo), `MaintenanceLive`, `MaintenanceDesk` | `components/views/maintenance` | `Console` |
| `SpareParts` | `components/views/maintenance/SparePartsModule.tsx` | `Console` |
| `EquipmentRegistry`, `AssetPage`, `ConditionTab` | `components/views/equipment/Equipment360.tsx` | `Console` |
| `Compliance` | `components/views/compliance` | `Console` |
| `KnowledgeGraph` | `components/views/knowledge-graph` | `Console` |
| `AdminDirectory`, `AdminForms`, `Integrations` | `components/views/admin/AdminSuite.tsx`, `stores/adminStore.ts` | `Console` |
| `ProfileSettings` | `components/views/profile/ProfileSettings.tsx` | `Console` |
| `Lists` | lists of calls: what is in one, one taken out of it, one left out of it | the screens |
| `WorkOrdersProofs`, `WebhooksProofs`, `IngestionProofs`, `SessionProofs`, `RealtimeProofs` | the theorems of each module | |
| `ConsoleProofs`, `ScreensProofs`, `RecordsProofs` | the theorems of `Console` | |

### The backend modules

All three work the same way. Variables named after tables hold the **committed** rows. One
record per actor (`tx[s]`, `worker[w]`, `act[a]`) is an open transaction: its program
counter, what it read, the locks it has and what it will write. A step is what happens
between two points where another transaction can be noticed: an unlocked read, a flush that
takes a lock, a message sent, a commit. Committing applies the record to the rows, and a
rollback discards it. "Writes the columns that differ from what was loaded" is modelled
where it matters (`Outcome`, `CommitFail`, `CommitRequest`).

**WorkOrders.** `Begin` is the unlocked read and validation of transition, close, edit/assign and
delete; `Flush` takes the row lock; a close then goes through `ListParts`, one `Consume` per
planned part (row lock on the part, sufficiency, movement, default of `qty_used`), `Publish`
(low-stock events) and `Commit`. `Consume`'s last disjunct is the swallowed exception. `StaleRow`
is the ORM's failure when a planned row has been deleted meanwhile. `DeadlockVictim` is Postgres
aborting a transaction of a lock cycle, `Rollback` any other exception or a lost connection.
Catalogue and planning requests are a single statement and a single step. Stock is counted in the
smallest unit the columns store; deltas of an adjustment are counted in quarter units, because
only they can be finer, and `Stored` rounds as NUMERIC does. An adjustment tests the minimum with
the sum it has in memory, before the column rounds it, so a balance of a fraction over the minimum
may be stored at the minimum and not announced.

**Webhooks.** A delivery is committed by `FanOut` and queued by `Dispatch`, or by nobody
(`DispatchLost`). `Take`/`Sweep` start a worker, `Read` is the unlocked check, `Flush` the
"delivering" flush that locks the row, `Post` the HTTP call with either outcome, `Commit` the
outcome written by `attempt`. `Raise` is a task that ends in an exception at any of its statements
(the flush, the reads outside the `try`, the commit): it is acknowledged like any other.
`ManualRetry` runs in a request: it may retry any row, and takes no lock when its first flush has
nothing to write. `next_retry_at` is NULL, in the future or past; time is `Elapse`. Payloads and
signatures are left out.

**Ingestion and SearchIndex.** One document, its versions, jobs and two kinds of rebuilt rows: the
chunks of each version (unique key) and the entities (none). A run is `LoadDoc`, `LoadJob`, the
locks its flushes take, and for each table it rebuilds a DELETE that sees a snapshot (`Step`),
waits for other deleters (`DeleteRows`), and an INSERT that waits for or fails on the unique key
(`InsertRows`); a version that parses to no text has its old chunks deleted and none inserted.
`Failed` is what the task does with an exception: retry with one try more, or `mark_failed` after
the last. Deadlocks, worker deaths, unreachable brokers and concurrent requests (`Confirm`,
`Reprocess`, `Retry`, `Cancel`, `CreateVersion`, `Delete`) interleave with it. The contents of
chunks, OCR, embedding and the graph are steps that may fail. `SearchIndex` says what a reader of
chunks may rely on: a version has one set of chunks or none, changes in one step, and vanishes
only as a whole, by a run that finds no text. `Ingestion` implements it with `index <- [v \in
Versions |-> rows[v]]` (`IndexSpec`).

### Session and Realtime

A call of `Session` is a record that says where it is: sent, answered or refused, waiting in
`refreshSubscribers`, in its refresh, or in its retry. Leaving the browser, being served and
having the answer received are three steps, so calls overtake each other. The server accepts the
access tokens in `good`, rotates `current` at a refresh, and takes any other refresh token for a
replay that revokes the session (`ServeRefresh`). `TurnAway` is a refresh that the rate limiter
(429) or a failing server (5xx) answers before the service looks at the token: the console takes
any answer but a success for a denial and signs the user out. Lost fetches, refreshes turned away,
expiries and revocations are bounded by `budget`. `RetryMayFail` says whether a retried request
may be refused for a reason of its own (404, 409, 422): that is the whole difference between
`session` and `signed_out`.

`Realtime` has sockets in the states of the browser's, of which the client remembers one. Opening,
rejection, loss and the late `onclose` of a socket are steps of the network; the hub closes a
connection it rejects before it accepts it, so the browser reports a failed handshake (1006) and
never the 4401 the client looks for, and the client tries again; the client connects, reconnects
by a timer and disconnects at a logout. `InitLive` runs at each mount of the shell. The inbox is
replaced by each answer of GET /notifications (computed by `ServeInbox`, received by `Hydrate`)
and extended by `Receive`. A notification is pushed by its `Create` before the transaction that
holds its row commits (`Commit`), and an answer lists committed rows. Marks are sent and not
awaited.

### Console and its screens

Every screen has the same three variables: `view`, its state hooks; `calls`, the requests and
timers under way, a sequence where their order matters to the answers and a set where it does not
(in the palette and on a document any call of the sequence may be answered); and `server`, what
the backend or the built-in server keeps. A handler is an action of the handler's name; what it
does after its call is the action that takes the answer, and uses what the call carried wherever
the code uses the render's captured state. `Console` instantiates the screens over one view, one
set of calls and one server: `Mounted` chooses the screen's initial state by the hash as
`renderActiveRoute` does, and `Next` is a step of the mounted screen. A behaviour is one visit.
Another visit would begin from a fresh mount: nothing of a screen but its `server` survives, and
modules in which that matters (`CopilotDemo`, `MaintenanceDesk`, `Compliance`, `AdminDirectory`,
`WorkOrderBoard`) have leaving, returning or reloading as actions of their own. Tabs that share no
state, and a screen's live and demo halves, are routes of their own.

Two of the modules model one data set against two servers: `WorkOrderBoard` is the board
where `handleUpdateWorkOrders` stores at once, `MaintenanceLive` the board that is shown at
once and reconciled by calls with versions: assignment, PATCH and transition, each
with the version of the answer before. The backend's half of such a call is two steps as in
`WorkOrders`, the unlocked read with its version check (`Checked`) and the flush of the columns
that changed (`Written`), so requests of this screen and of other users overlap in between.

## 3. Runs

Passing runs:

| Run | Properties | Bounds, and why they are enough |
|---|---|---|
| `stock` | TypeOK, LedgerMatches, StockNonNegative, CrossingAnnounced, DefaultUseConsumed, EveryRequestEnds | Two sessions, two orders, two parts planned in opposite orders: two closes can deadlock, and a close can race an adjustment that empties the shelf. Opening balance 1, quantity 1 and deltas of one unit reach zero, the minimum and a refusal. |
| `sequential_lifecycle` | TerminalIsFinal, ClosedTakesNothing | One session, five requests: with no overlap the state machine's promise holds, over every sequence of transition, close, edit, planning and deletion of that length. |
| `webhooks` | TypeOK, AlwaysDriven, SerialPosts, EverySettles | Three workers on one row (a task, a sweep and a manual retry can meet), a schedule of two backoffs (first, middle and last attempt), one death or raised error and one manual retry. Rows never interact, so one is enough. |
| `ingestion` | TypeOK, IndexSpec, DocumentSettles, LatestJobSettles | Two workers, one request handler whose two requests may overlap the runs, two versions; each run starts at the text, so it rebuilds everything, and may find no text. |
| `ingestion_failures` | DocumentSettles | One retry, one death, one lost task, all three starting stages. |
| `session` | TypeOK, OneRefresh, StaysSignedIn, SilentRefresh, LogoutIsFinal | The startup check and two requests, one expiry, one lost fetch, one refresh turned away, one revocation: a refresh, a call queued behind it and a call refused late can meet, as can each with a logout. |
| `realtime` | TypeOK, LoggedOutStaysQuiet, NoDuplicateRows, Reconnects | Two sockets (the remembered one and one that has not reported its end), two notifications, re-mounted shells. |
| `console` | TypeOK, NothingHangs, ShownIsStored, ShownIsAskedFor, AnswerIsItsOwn, OrdersMatchDecisions, CompleteMeansSeeded, AuditTrail, EdgesHaveEnds, NothingMovesBack, ClosedByPlanner, KeepsOthersEdits | All 22 screens, two calls in flight on each (an answer and one it may overtake or undo), two of whatever is chosen between (documents, assets, texts, files, gaps), a chain of three nodes whose clusters overlap, and two edits here beside one of another user, whose requests overlap at the backend. |
| `console_live` | PollingEnds, PipelinesEnd | The two screens with liveness: three imports one after another, whose polls may overlap, also with those of the import before, and two files whose pipelines do. |

Runs that refute what the documentation or a comment says of the code:

| Run | Refuted statement | What happens |
|---|---|---|
| `double_close` | "Terminal states (closed, cancelled) accept no further transitions." | Two closes both read a live status; both take the planned part from the shelf. |
| `signed_out` | "stay idle past access-token expiry (15 min) → next action succeeds silently" | Call A refreshes and retries; the tokens expire again and B starts a refresh; A's retry fails for a reason of its own and its `catch` lowers `isRefreshing`; C starts a second refresh with the cookie B sent. The server takes it for a replay. |
| `wiped_checklist` | "so we only fire the calls that actually changed" | A row of the list has no checklist and no parts; moving it sends both, empty, in a PATCH. |

What the properties of `console` say of each screen is named in `Console.tla`; each line there
is an operator of the screen's module with a comment of its own.

Disagreements and surprises met while modelling, without a run of their own. Backend: a part that
is short stops a consumption half-way and the close commits with what was drawn
(`modules/maintenance/service.py:232-233` says "together or not at all"), and the low-stock event
of such a close is lost although `:256` promises one for "any part this WO drew below its minimum"
(`CrossingAnnounced` leaves that case out by name); a delta finer than three decimals is rounded
apart in the balance and in the ledger (`modules/parts/service.py:3-5`), and its crossing is
tested before it is rounded (`:110`), so 0.002 - 0.0006 over a minimum of 0.001 is stored at the
minimum and not announced; both are why `stock` has whole deltas and two theorems the hypothesis
`WholeUnits`; a second sweep that read `retrying` sends a delivered delivery again
(`integration_tasks.py:43`); a row whose dispatch failed stays `pending`, which the sweep does not
select although `modules/integrations/events.py:53-54` counts on it, and so does a row whose task
raised a database error, since the failed task is acknowledged; a run that finds no text deletes a
version's chunks and ends well (`modules/ingestion/pipeline.py:87-96`); both versions' chunks are
found after a new version (`src/14-TESTING-GUIDE.md:135`); two overlapping runs leave two sets of
entities (`modules/ingestion/pipeline.py:145`); the `version` column is compared in Python, not in
the UPDATE (`common/base.py:69`), so two overlapping requests with one version both succeed and
the second takes back the columns they share; and a racing attempt can leave a `next_retry_at` on
a terminal delivery (`modules/integrations/models.py:50`).

Console: calls queued behind a refresh that fails are never settled (`lib/api/client.ts:2581`); a
refresh that the rate limiter or a failing server answers signs the user out as a denied one does
(`:2616`); 'auth-logout' leaves the socket open, and a socket that was rejected is opened again
every few seconds, since the browser never sees the 4401 that would stop it (`lib/api/ws.ts:72`,
`ws/router.py:35`); against the backend, the answer of an older text can end up under a newer one
in the palette (`AppShell.tsx:115-129`) and that of an older address on a document
(`DocumentsLibrary.tsx:1467-1493`), as neither asks what the answer is for; an answer of GET
/notifications computed before a push drops the pushed row; polls overlap, and one that comes late
shows a new import as done (`ImportWizard.tsx:224`); the backend refuses the wizard's request for
a job, which lacks the file key it requires (`modules/dataops/schemas.py:13`, no other field
allowed: `common/schemas.py:31`), so live mode polls nothing; a document's late error covers the
next document (`DocumentsLibrary.tsx:1479`); a second question asked before its chat exists makes
two chats (`ExpertCopilot.tsx:962`); the second live edit of an order is refused and only logged,
and the answer to a created order puts back the rows of its click (`MaintenanceHub.tsx:261`); bulk
close also closes selected rows the filter hides; drag, swipe and bulk close skip the safety
checks of `WorkOrderDetail.tsx:428`; an optimisation's timeout puts back reschedules made
meanwhile (`PmScheduling.tsx:162-180`); the stock editor sends a difference to the count on the
screen, so a double save doubles it (`SparePartsModule.tsx:59-68`); Reset Matrix keeps the edits
(`AdminSuite.tsx:621-624`); the answer of a save closes the drawer opened meanwhile
(`AdminSuite.tsx:2103`); the audit record of a page that goes before its timer is lost while the
change is stored (`adminStore.ts:565`, `AuditTrail` leaves such a row out by name); an import of a
regulation that was cancelled still imports and navigates, and its interval writes back the list
it started with (`ComplianceRegulations.tsx:76-105`); a risk can be accepted after a remediation
was raised; a refused save of the notification matrix takes back an overlapping accepted one
(`ProfileSettings.tsx:800`; `ShownIsStored` excludes such a row by name). A screen's property is
stated over the rows such a behaviour leaves alone where its comment says so.

`CHECK_DEADLOCK FALSE` is set in every run since each has a bound on the requests, retries,
visits or crashes of a behaviour: with the bound used up the model stops where the system would
go on. The bounds are the constants named `Max...` of each module. Each property of a passing
run has a mutant in the module (the operators commented `Mutant:`), a plausible bug that TLC
finds under the same configuration.

### Fairness

* `WorkOrders`: weak fairness of the steps of an open transaction, since the event loop and
  Postgres go on with every session. Nothing forces a request to arrive. Waiting for a lock
  is a disabled step, and the deadlock detector is one of the steps.
* `Webhooks`: a handler past its commit either dispatches or fails; workers finish what they
  started, each queued message is taken (the broker is FIFO and workers are not dedicated),
  the sweep is started by a beat every minute, and time passes. No fairness is assumed of the
  subscriber's answer, of deaths or of operators.
* `Ingestion`: workers take messages and finish, requests finish; a run may fail at any
  point and deaths are only bounded.

* `Session`: a fetch is answered or fails and its answer is received, since the browser
  ends every fetch; nothing forces a user to act, a token to expire or a session to be revoked.
* `Realtime`: a socket that is connecting is opened or closed, a socket that is closed reports
  it, and a timer that was set fires.
* `Console`: the import's interval ticks, also while its polls are under way, and its calls are
  answered; the intervals of the pipelines tick. No other screen's property needs a step to happen.

A crash budget is finite because a task that dies for ever never settles, and the code does
not claim that it does.

## 4. Proofs

All theorems hold for every value of the constants, under the assumptions named in the
modules: quantities are naturals and deltas integers; NULL and `None` are none of the values
they stand beside; bounds are naturals; actors, chats and documents are finite sets (they are
counted); there are roles and values to choose from; a row of the backlog is listed once, under a
number below zero that no new movement gets; no page of the shell is named like its changelog
or its tour. Every proof has the same form: an inductive invariant,
`Init => IInv`, a lemma for each action (`IInv /\ A => IInv'`), and the property from `IInv`.

### Backend

**`WebhooksProofs`.** `IInv` strengthens `TypeOK` with three parts. `Rows`: a row that may
still be attempted has an attempt left, and a retrying one has a `next_retry_at`. `Slots`: what
a worker past its read holds, in particular the row lock from the flush to the commit.
`OneHolder`: a row lock has one holder. `TypeOK` alone is not inductive, since it bounds
`attempts` and a worker adds one to a count it *read*; `Slots` carries the bound on that
stale copy. `Preserved` has one step per action. From it follow `Typing` and `PostsAreSerial`.
`DeathsStrandNothing` (a death or a race strands no row: only a dispatch that failed and a task
that raised do) needs `DInv` as well: every queued or held message belongs to an inserted
row, and a task whose message is about to be acknowledged left its row unpending.

**`WorkOrdersProofs`.** `Typing` is proved action by action. `StockInvariant` says that part locks
have one holder and that the balance a session will write is what the committed balance and its
movement give, which stays true because nobody else can commit that part while it is held.
`NeverNegative` follows for all deltas. `BalanceIsLedger` adds the hypothesis `WholeUnits`: no
delta is finer than the columns. Without it the statement is false: the two columns round apart.
`stock` checks it with whole deltas. `CrossingsAnnounced` has the same hypothesis, since only
rounding makes the stored balance cross where the one in memory does not, and needs `AlertInv`: a
transaction knows every part it holds and takes to the minimum, and has published what it knows by
the time it can commit. `DefaultsConsumed` needs `PlansInv`, that a parts list names a part once,
and `TallyInv`: a close has moved exactly the planned quantity of each row it will default, and
holds none of the parts it has still to come to. `TerminalFinal` and `ClosedIsSpent` have the
hypothesis `[]Serialized`: no two open transactions are about one work order. `double_close` is
what happens without it; with it the promise holds for any number of sessions, orders and
requests, where `sequential_lifecycle` checks one session. The invariant is that what an open
transaction will write is still allowed by the row as it is committed *now*, not as it was read.

**`IngestionProofs`.** `Typing` needs `Shape` and `Progressed` of each activity: which of its
fields are set at which point of the run, and that a table is untouched before its turn.
`Replaces` (who has inserted the chunks of a version takes all others of it away) and `OneWriter`
(the unique key lets one transaction in at a time) carry `Indexing`, the refinement of
`SearchIndex`: every step of `Ingestion`, whoever takes it, changes the chunks of one version at a
time, from none to the full set or from one full set to the next or none, or changes no chunks.

### Console: session and socket

**`SessionProofs`.** `TypeCorrect` and `LogoutFinal` are for every number of calls and every
bound; the second is inductive as it stands beside the type, because serving the logout clears
`current` and `good` and a refresh in flight then finds no token of its own. `RefreshesOnce` and
`NeverTakenForReplay` have the hypothesis `~RetryMayFail` and share the invariant `Safe`: while
nothing has disturbed the session (no logout, no lost fetch, nothing revoked), the flag is raised
exactly while a call is in its refresh, that call carries the cookie, and the cookie is the
server's current token unless the refresh was already served. Without the hypothesis both are
false (`signed_out`).

**`RealtimeProofs`.** `QuietAfterLogout` is inductive beside the typing and the fact that the
remembered socket is a live one. `ListedAtMostOnce` needs that the *answers* under way list
nothing twice, since one of them is the next inbox, and that `Receive` leaves out a row whose id
is shown. Clearing rows is a recursive function over the list (`Without`); that it is defined for
every list and keeps ids distinct is proved by induction on the length, in first-order form
(`Induct`, from `NatLessThanWellFounded`).

### Console: screens

Each proof opens the composition by the route: the other 21 screens leave the property true by
its antecedent. The lemmas about lists of calls (what appending, removing and taking the first
leave) are in `ConsoleProofs`, which the other two build on.

**`ConsoleProofs`.** `OrdersMatch` joins three invariants, one for each screen
that raises orders. The property is about the screen's copy and the stored one, so the invariant
says which copies a pending interval may still write back: for planning that the screen and the
store are equal, for an asset that the kept decision and its order are made in one step, and for
compliance that no interval's captured list reaches the gaps. `EdgesEnd` needs that the edges of
every cluster in an answer have their ends in it; from there the merge filters by the nodes
after the merge, and resets and searches replace both lists in one step.
`SomethingEndsIt` joins six: the shell's drawer and tour; the tiles, where a tile that is
loading has its own call; the optimisation, whose timeout is of this mount because leaving the
tab resets the button (`ButtonInv`: not idle only on the schedule tab, one timeout of mine); the
registry's branches; the imports and compilations of regulations, where an interval belongs to
the panel of the tab that is open; the canvas; and the palette and the document, where a
loading flag that is raised has a call under way that lowers it, whatever order the answers come in.

**`ScreensProofs`.** `CompleteIsSeeded` needs that a handler of the checklist that is past its
call, and the milestones that are stored, both imply the sample data. `AnswersAreTheirOwn` needs
`Streams`: no two answers under way have the same bubble, a bubble on the screen holds what its
stream has brought so far, and one that has gone does not come back, since bubbles are numbered
by the questions asked. `ProgressIsKept` is an action property of the
upload queue and needs `Paced`: the next stage of a file's pipeline is the file's own stage or the
one after it. `AskedForIsShown` joins the two screens whose answers carry what they are for: on
the canvas every search under way is of the query; in the forms `FormsInv` says that each save
and each list that a panel left behind is *followed* by a list of the panel that is open
(`ListsFollow`), and each preview of another text by one of the text in the editor
(`PreviewsFollow`).

**`RecordsProofs`.** `OthersEditsKept`: a row that is shown or carried by a sync, and has the
version the backend has, holds all that others have stored (`Vouched`); an equal version is what
the backend asks of a request when it reads the row. That covers an edit here that was made of an
old row, however late its calls come. It does not cover two requests that read one version and
overlap at the backend: those both succeed, and the property leaves the orders they were about out
by name (`overlapped`). `PlannersClose`: the orders on the screen are those stored, and the
drag's, the form's and the bulk bar's checks read the role of the same moment. `LogTellsStored`:
for every cell, the value that is stored is told by its newest deferred record or, when it has
none, by the newest entry of the log that is about it, or else it is the seed's (`Accounted`),
except for the entities whose record went with a page (`lost`). `StoredIsShown` joins eight
screens. Most of them need that the list on the screen is the stored one unless a call that
fetches it is under way (`StockInv`, `ConditionInv`, `KeysInv`, `ListsFollow` of the forms). In
the library (`LibraryInv`, in `ConsoleProofs`) a bulk action that is under way carries the list to
fetch after it, and a page of a listing holds stored documents because a finite set of numbers has
a sorted listing (`ListedUp`: each has its place, the number of those up to it). The profile
changes a row before it is saved and takes it back when the save is refused, so its invariant is a
chain (`Linked`): the first save of a row under way starts from what is stored, each starts where
the one before it ends, and the last ends at what is shown. A refusal in the middle breaks the
chain, and those rows are the ones the property leaves out by name (`doubtful`). `Matrix` adds
that the call that loads the matrix comes after every save of a matrix that was left, so no later
answer makes it old.

### What the attempts found

Several properties were first true only because a model ordered what the code does not. An
import whose polls overlap does not stay done, and an answer of the palette or of a document need
not be of the last text: these are now listed under the surprises, the models let the
answers overtake each other, and what is proved of the three screens is that polling and loading
end. Others' edits are kept against stale rows, not against overlapping requests.

### Only model-checked

Liveness (`EveryRequestEnds`, `EverySettles`, `DocumentSettles`, `LatestJobSettles`,
`SilentRefresh`, `Reconnects`, `PollingEnds`, `PipelinesEnd`), since TLAPS proves neither
liveness under fairness nor ENABLED. `Console!TypeOK`: each invariant above has the part of
the typing it needs. The induction theorems with an operator parameter cannot be used; where an
induction was needed (`RealtimeProofs`) it is first-order, over naturals. No module has a
RECURSIVE operator. Nothing is known to the provers of `SortSeq`, so the library's listing says
what sorted means (`Sorted`) instead of calling it.

## 5. Plan

1. `Console!TypeOK`, screen by screen.
2. `Jobs` (imports, exports and evidence packages), `Schedules` (the beats), `Retention`,
   and `Caches` (permission, settings and answer caches as one cache-aside module).

Hazards beside those of `PROJECT.json` that these modules should take in: one commit for all
tenants of a beat (`workers/tasks/scheduler_tasks.py:56`); two refreshes of predictions that
both insert (`modules/maintenance/prediction_service.py:247`); a report mailed before its
`last_run_at` is committed (`modules/dataops/report_service.py:135`), and due for one minute
only if it never ran (`:182`); import tasks queued before the commit and confirmed twice
(`modules/dataops/import_service.py:70,122`); a failed export whose status is rolled back
(`modules/dataops/export_service.py:93`); the second archive of a day over the first
(`modules/retention/service.py:151`); two refreshes of one token that both see it live
(`modules/auth/service.py:190`), reset tokens and the lockout counter (`:393,532`); permissions
cached before a rollback or after a newer write (`modules/users/service.py:156`,
`modules/auth/permissions.py:47`); settings and answers cached across a change
(`modules/settings/service.py:108`, `modules/ai/cache.py:46`); the rate limiter's two round
trips (`core/ratelimit.py:40`); a flush that failed under `ingest_text`
(`modules/logbook/service.py:121`); a schedule without `interval_days`
(`modules/maintenance/service.py:356`); the WO number read before the insert
(`modules/maintenance/repository.py:99`); entity review without a lock
(`modules/ingestion/service.py:101`); events of a rolled-back bulk row (`modules/bulk/router.py:64`).

## 6. Not modelled

Text, wording, ranking, scores, prompts and documents' contents; read-only endpoints;
migrations, seeds, infrastructure. Of the console: the quality, lessons, logbook, analytics and
search screens, whose shapes (list, drawer, save, list again) `AdminForms`, `SpareParts` and
`DocumentLibrary` already show; the generic data table, whose state is all of one render; the
failures registry's filters; the translations and retention panels; sign-in, sign-up and
landing pages; the guard in `App.tsx` that redirects by `isAuthenticated`, a function of what
`Session` models; theme and layout; other tabs of the browser, which share the refresh cookie
and `localStorage` with this one. Screens share no state but their server rows, and one visit
is modelled at a time: what one screen stores for another (a document uploaded here and listed
there) is taken as a stored row of the second. A COMMIT that fails after every flush succeeded
is not modelled. PostgreSQL, Celery, Redis, S3, the browser's sockets and fetches, and the
endpoints a screen calls are modelled from how the code uses them: those definitions are marked
external in `PROJECT.json`.
