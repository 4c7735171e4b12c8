# AIMRS: a TLA+ model of the asset and requisition system

This directory holds a formal model of AIMRS, the asset inventory and
requisition system in this repository: TLA+ modules, TLC configurations that
check them on small instances, and proofs that TLAPS checks for every instance.
It covers the requisition workflow with its stock and its SLA watchers, the
asset registry with its daily watchers, accounts and sessions on both sides of
the wire, the system configuration, the government forms, and the pages of the
frontend that keep state of their own.

All paths are relative to `src/`; line numbers are those of the commit the
model was written from.

## 1. The system

A NestJS backend (`Backend/src`) on one PostgreSQL database (`Database/schemas`)
with a Next.js frontend (`Frontend`). The backend is one Node.js process: a
handler runs without interruption from one `await` to the next, and the handlers
of different requests, cron jobs and hooks interleave at every `await`. Except
for `fulfill()`, no handler uses a database transaction or a row lock, so the
unit of atomicity is a single statement. A page of the frontend is a process of
its own: its requests overlap, are never cancelled, and their answers come back
in any order, to a page that may have moved on.

| Component | State | Operations | Hard behaviour | What makes it correct |
|---|---|---|---|---|
| Requisitions (`Backend/src/requisitions`) | `requisitions`, `requisition_items`, `requisition_approvals` | create, approve, reject, putOnHold, fulfill | read, check, several awaits, then a `save()` of the old copy; approvals row and status in separate commits; the fulfilment transaction takes row locks line by line | status follows the diagram; every decision is on record; stock is taken once and never below zero; numbers unique |
| SLA watchers (same service, `scheduler/`) | stamps on `requisitions`, a hand-off to the alternate approver | checkSlaBreaches, checkPendingApprovalNudges, hourlyChecks, runAllChecks | cron and manual sweeps overlap; a query's rows are used after several awaits; `Promise.all` with partial failure; crash between notices and stamp | alert once, never lose an alert, one hop only, hand over only what is undecided |
| Assets (`Backend/src/assets`) | `assets`, `asset_transactions` | create, update, updateLifecycle, generateQr, the low-stock hook, the overdue and low-stock sweeps | full-row saves of stale rows; absolute quantity PATCH; stamps that are cleared and set by different handlers | only allowed transitions; the history ends where the asset is; a silenced line is low; every loan is reported afresh |
| Users (`Backend/src/users`) | `users` | accounts, roles, availability, alternate, unlock, revoke, findSupervisorForSection | whole-row and column writes on the row that logins write too | nobody is their own alternate; an edit does not undo a sign-in's count |
| Auth (`Backend/src/auth`) | token version, failed attempts, refresh hash on `users` | login, rotateRefreshToken, logout, JWT validation | concurrent logins, refreshes and revocations on one row; bcrypt between read and write | revoked means revoked; the lockout counts; the cookie matches the hash |
| System configuration (`Backend/src/system-config`) | `system_config` and a process-wide cache | reload, update, getters | keys are written one by one, table first, cache second; restarts; two administrators | the cache equals the table; no refused value is served |
| Government forms (`Backend/src/reports`) | `generated_forms` | generateForm, downloadForm, eighteen layouts | the records change between the awaits of an order | a stored form is true of one moment |
| Notifications, audit (`notifications/`, `audit/`) | append-only tables | notify, log | they fail after the change they report is committed | every change leaves an audit entry |
| API client, session (`Frontend/lib/api/client.ts`, `AuthProvider`) | access token, refresh queue; the cookie jar of the browser | request and response interceptors, login, logout, restore | several 401 answers share one refresh; several tabs share one cookie | every queued request is answered |
| Work page (`Frontend/components/prototype/WorkflowPage.tsx`) | list, drawer, dialog | decide, refetch, page | an answer comes back to another dialog | the text sent is the record's own; the list shows the decision |
| Lists: registry, accounts, audit log | rows, criteria, page | search, filter, page, own changes | a request per keystroke, none cancelled | at rest, the rows answer to the inputs |
| Asset page (`AssetDetailManager.tsx`) | asset shown, edit form, lifecycle dialog | save, move, QR | three kinds of answers replace the asset shown | what was confirmed is shown; what was cancelled is not sent |
| Account drawer (`AdminIdentityPages.tsx`) | routing panel, password dialog | save, reset | the row under the panel is renewed | only what was touched is sent; a password reaches the account it was typed for |
| Settings page, forms page | a form loaded once; a radio button and a wait | save; order, download | the page gives an order up that is still at work | the page shows what it saved; it waits while there is something to wait for |

Interaction: requisitions call users (approver, alternate), assets (hook),
notifications and audit; the scheduler calls requisitions and assets; auth and
users write the same rows; everybody reads system configuration; the forms read
assets, requisitions and users. The frontend reaches all of it through the API
client, and each page meets the other users of its records only at the server.

## 2. Modules

| Module | What it is |
|---|---|
| `AimrsVocabulary` | the shared enumerations, the role lists of the routes (`MayCall`), the asset-type scope of a role |
| `RequisitionStore` | constants and database state of the requisition desk: the tables, the row locks PostgreSQL keeps, what `save()` writes |
| `Requisitions` | `RequisitionsService` and the low-stock hook: one action per step from an await to the next |
| `RequisitionWorkflow` | the abstract specification where requests on a requisition do not overlap: each operation happens at once |
| `RequisitionLedger` | the abstract specification where they do, and sweeps hand over in between: what no interleaving, failure or stale save can break |
| `SlaWatch` | the two watchers and the hourly job, as sweeps |
| `RequisitionDesk` | `Requisitions` and `SlaWatch` on the same tables |
| `AssetRegistry` | `AssetsService`, the hook again, and the daily job |
| `UserAccounts` | `UsersService` and `AuthService` on the rows of `users` |
| `BrowserSession` | the API client and `AuthProvider`, over `UserAccounts`: what a tab sends is a handler in the slot of that name |
| `SystemSettings` | the configuration table, its cache, the PATCH handler, and the page in each administrator's browser |
| `GovernmentForms`, `FormLayouts` | orders of forms from the page to the archive; what each of the eighteen layouts signs, names and shows |
| `Workbench` | the live pages of `WorkflowPage`, with their dialog and their list |
| `Directory` | the three lists |
| `AssetDetail` | the asset page |
| `AccountPanels` | the routing panel and the password dialog |
| `MCRequisitions`, `MCRequisitionDesk` | values of the constants of the desk for TLC |
| `MCAssetRegistry` | scenes: requests about a laptop's life, about a supply's stock, and a day of draws |
| `MCBrowserSession` | situations: one tab whose sessions are revoked, two tabs of one user, a sign-in while the administrator works on the account, two users who share a browser |
| `MCParts` | the parts that meet the others only through the API; a behaviour opens one and leaves the others as they start |
| `Requisitions_proofs`, `RequisitionDesk_proofs`, `AssetRegistry_proofs`, `BrowserSession_proofs`, `GovernmentForms_proofs`, `SystemSettings_proofs` | the theorems about the module of that name; those about the desk build on those about the requests, those about the sessions are about `UserAccounts` too |
| `Pages_proofs` | the theorems about `AssetDetail`, `AccountPanels`, `Workbench` and `Directory` |
| `Parts_proofs` | the theorem about `MCParts`, from those about its parts |

`Requisitions` and `SlaWatch` both extend `RequisitionStore`, so that their
actions read and write the same variables; `RequisitionDesk` extends both.
`BrowserSession` extends `UserAccounts`: client and server interleave step by
step, and an answer is lost where the server's step and the client's fall apart.

### The requisition desk

`req` is the table of requisitions with the columns the properties tell apart:
status, the NNNN of the number, `supervisor_id`, the decision,
`it_personnel_id`, and the three stamps (breach, nudge, alternate) as booleans.
`itemRows` and `link` are `requisition_items` (which lines exist, and their
`fulfilled_asset_id`); the immutable data of a line (`Owner`, `Quantity`,
`ItemClass`, `ItemType`) are constants. `approvals` and `audit` only grow.
`asset` has an asset's quantity and low-stock stamp. `duty` is a user's
availability: present, away, or inactive.

A request is `pc` (the await it is suspended at) with its `job`, its in-memory
copy `mine`, and for `save()` the row `base` that TypeORM loaded to compare with.
A request is handled at most once; a retry is another request. The places are:

| Operation | Places |
|---|---|
| create | idle, counted (INSERT pending), inserted (lines pending), saved, done |
| approve, reject | idle, checked (approvals row pending), deciding, saving, saved, done |
| putOnHold | idle, deciding, saving, saved, done |
| fulfill | idle, then for each line link, fk, stock; reloaded (commit pending), saved and alerted for each hook, done |

Three details decide what overlapping requests can do, and are modelled by what
they do:

* **`save()`** loads the row again and updates the columns in which the entity
  differs from it, with no condition on their present value (`SavedRow`). A
  column the entity holds a stale value of is written back; one that changes
  between load and UPDATE is kept if it did not differ. Lines are cascaded the
  same way (`SavedLink`). A line that appeared after the copy was read looks
  removed, and the UPDATE fails on the NOT NULL `requisition_id` (`SaveFails`).
* **Row locks.** `UPDATE requisition_items SET fulfilled_asset_id` locks the line,
  and its foreign key takes a FOR KEY SHARE lock on the asset; `SELECT ... FOR
  UPDATE` waits for other transactions' locks on the asset, shared ones too.
  PostgreSQL aborts one transaction of a cycle (`DeadlockVictim`). TypeORM and
  PostgreSQL are not in the repository: these definitions are marked external.
* **Faults.** With `Faults` on, a request may fail at any await (an error, or a
  restart of the server): its transaction is rolled back, what it has committed
  stays. A sweep's task, or the whole sweep, may die as well.

A sweep (`SlaWatch`) queries, then works on all rows it found concurrently from
the copies the query returned, then goes to the second watcher as soon as
`Promise.all` has settled, which is also when one task has failed; the other
tasks run on. The cron job and `run-checks` are two values of `Sweeps`.

### The asset registry

`row` is the table `assets` with the columns a handler or a watcher decides on.
`call` is the handler in a request slot: its await, the `copy` it read, the
`base` of its `save()`, its patch. `daily` is the watcher a daily job is in;
`late` has the stage of each overdue notice, which all run concurrently;
`queue` and `line` are the low-stock alerts, which run one after the other. The
histories say how often an asset was lent (`loan`), whether somebody was told
about the present loan (`told`), which status its transactions end with
(`recorded`), and on which assets handlers (`raced`) or requests (`clashed`)
have overlapped. Two handlers of the registry that overlap on one asset do undo
each other's columns, as `save()` and the absolute PATCH are written; the
properties say what holds without that, and name the exception. Numbers and tags
are UNIQUE columns: an INSERT, and a `save()` that writes an old copy back, fail on
one that another asset has (`SavedTaken`).

### Accounts and sessions

`account` is the table `users`; `call` a handler between two awaits, of the
administrator's routes (`DeskWork`), of the auth routes, or of any route behind
the guard. `minted` numbers the refresh tokens, so that a hash is the identity
of its token. The histories `epoch` (how often an account's sessions were
ended) and `missed` (wrong passwords since the last reset) are what the columns
`token_version` and `failed_login_attempts` are meant to be; `raced` has the
accounts on which two handlers that count have overlapped. On the client's side,
`jar` is a browser's cookie, `token` and `refreshing` the memory of a tab, `req`
a request of a page: sent, leading a refresh, or queued behind one. Cookies and
tokens name their user, and the tabs of a browser share its cookie, whosever it
is. `keeper` says of an account which browser was last sent its cookie, until
another account's takes its place there, and `strained` has the accounts whose
exchanges overlapped or whose answer was lost.

### Settings and forms

`SystemSettings` has `table`, `cache`, the page `config` and the handler `save`
of each administrator: for each key of the payload it selects, writes and fills
the cache. `torn` has the keys whose updates overlapped, and `blind` says that
the table was not readable at the last start, when defaults are served.

`GovernmentForms` keeps `ledger`, all states the records have been in: an order
has its index `since`, the index `read` at which it read its records, and what
it has drawn. A stored form has the interval in which it was made. The page has
given an order up once it has lost the connection (`LoseContact`); the server
goes on. A layout (`FormLayouts`) is its signature block, whom its body
names, and which of the columns it prints other users may change.

### The pages

A page has its React state as variables, its requests on their way as a set,
the server's side of its records, and the other users of those records as
actions. What is typed is represented by what it was typed for: the record
(`Workbench`), the edit (`AssetDetail`), the account (`AccountPanels`). Requests
and own changes are numbered in `Directory` and `AssetDetail`, and an answer
carries the numbers of the changes it knows. Histories name what the page cannot
help: `crossed` (an answer was overtaken, or asked for criteria that have
changed), `reclicked` (the button of the page that is shown), `outrun` (an
answer older than another), `renewed` (the row under the panel has changed since
it was opened).

### Abstractions

* Text, timestamps and identifiers are dropped or become booleans and model
  values. The age of a requisition has three values, as against its SLA window;
  a due date is a day.
* Which supervisor a section has is a free choice among the active ones, and so
  is that it has none (`RefuseCreate`). The requisition desk reads constant
  settings.
* Approver, alternate and count in `create()` are read in one step.
  `validateReplacement()` runs before them, changes nothing and is left out.
* Request numbers are of one calendar year; the count does not restart with it.
* `fulfilledItems` arrays name existing assets only. In the runs, and in the
  refinement theorem (`NamesLinesOnce`), they name each line once, as the
  repository's tests do; the code does not check it (see below). The other
  theorems do not need it.
* The two audit entries of a submission that goes to the alternate are one step.
* Notifications are counted where a property needs it and are otherwise one of
  the awaits that may fail between two steps. An audit entry is a handler's last
  await.
* A password is right or wrong. Access tokens expire only by revocation or with
  the page's memory.
* Search words, filters and dates of a list together are its `criteria`; of the
  work page's search and sort the effect is left out.

## 3. Checks

Every run finishes within a few minutes with two workers. Deadlock checking is
on where the server may wait for the next request (`Idle`) and for nothing else:
in the runs of the requisition desk. In `MCParts`, `MCDaily`, `MCSession` and
`ClaimRouting` users may stop, and the bounds end their behaviours: deadlock
checking is off.

| Run | Bounds | Shows |
|---|---|---|
| `MCFulfill` | 2 requests, 2 requisitions with 2 and 1 lines, 2 supplies | `StockAccounted`, `LowStockNoticed`, and under fairness `EveryRequestEnds` |
| `MCOverlap` | 4 requests of any kind on 1 requisition, from its submission on, with one supply left of each kind, faults, the supervisor comes and goes | the handlers implement `RequisitionLedger` (`KeepsLedger`); `TypeOK`, `AuditTellsTruth`, `ChangesLogged` |
| `MCWorkflow` | 3 requests, 3 requisitions (one approved, one pending, one not yet submitted) that together want more of one supply than there is, no two requests at once on one of them, faults | the handlers implement `RequisitionWorkflow`; `FulfilledInScope` |
| `MCSubmit` | 2 requests, 2 submissions (without lines), 1 sweep, the supervisor comes and goes | requests and a sweep implement `RequisitionLedger` (`KeepsLedger`); `NumbersDense`, `AlertedOnce`, `AlternateTold` |
| `MCDesk` | 1 request, 2 overlapping sweeps, faults, the alternate comes and goes | `WatchTypeOK`, `OneHop`, `StampMeansNotified` |
| `MCBreach` | 2 requisitions, 1 sweep, one requisition's alerts may always fail | `BreachHandled` |
| `MCParts` | one part at a time, see below | registry: `LifecycleFollowed`, `HistoryUpToDate`, `ReportedForThisLoan`, `SilencedOnlyWhileLow`; work page: `TextIsForRecord`, `ListReflectsDecision`; lists: `ListIsCurrent`, `WaitsForAnswer`; asset page: `ConfirmedIsShown`, `SentAsMeant`; drawer: `UntouchedNotSent`, `PasswordForTarget`; settings: `ServedAsStored`, `SavedIsStored`; forms: `FormOfOneMoment`; `PartsTypeOK` |
| `MCDaily` | 3 assets, two of them overdue and one whose notices always fail, a supply that is drawn on, 1 daily job, faults | `LowStockReported`, `OverdueReported` |
| `MCSession` | 2 users, 3 requests, 2 tabs of one browser or of two, 1 administrator, 2 attempts to the lock, token versions and refresh tokens up to 2 | `AttemptsCounted`, `RevokedStaysOut`, `NobodyLeftWaiting`, `CookieMatches`, `AccountTypeOK` |

**The bounds of the desk.** The races are between two requests and what they
write: a check, a second request's whole operation, the first one's write.
`MCOverlap` has four requests, so that a submission, two contradictory decisions
and a fulfilment, or a submission, a decision and two fulfilments of the last
unit, fit in one behaviour. In `MCFulfill` two transactions name the same two
supplies in opposite orders, or the same supply twice, or race for the last unit;
the threshold of 1 is reached and not passed. `MCWorkflow` adds the third
request, since without overlap each requisition needs several. Two sweeps are
what the program has (the cron and one administrator). Every history counter
stops at `Many = 2`, once or more than once.

**The bounds of the parts.**

* Registry (`Calls`, `Sweeps`, `MaxQuantity`, `MaxLoans`, `LastDay`): one request
  slot and one daily job, which overlap. A second slot would only add requests
  that overlap on an asset, which puts it into `clashed` for good, or that work
  on different assets, which share nothing but property numbers (the paper and a
  laptop with an empty one compete for it) and tags; two loans and two days, so that a
  stamp of the first loan can meet the second; a stock of one, at and above the
  threshold. `Broken` is empty in `MCParts` and the laptop in `MCDaily`.
* Work page (`Contested`, `PageSize`, `MaxChanges`): two records on two pages,
  of which another user may decide one; each record changes twice, before and
  after the user's own decision.
* Lists (`MaxPages`, `MaxEvents`, `MaxOwn`): two criteria, two pages, three
  events: the load, a request, and one that overtakes it.
* Asset page (`MaxEdits`, `MaxPosts`, `Foreign`): two edits, one of them
  cancelled; two requests on their way; other users issue the asset or send it to
  repair.
* Account drawer (`MaxUpdates`, `MaxPending`): two accounts, one of them a
  supervisor's, with two changes of the row and one request of each panel.
* Settings (`Typed`, `MaxSaves`): two administrators, two keys, two saves; one of
  the keys accepts zero, which an emptied input sends.
* Forms (`Offered`, `Returnees`, `Reached`, `Amended`, `MaxMoves`, `MaxOrders`):
  one order of one of five forms (for one asset with a returnee, for one
  requisition, for all of a custodian, for a period, and one that shows amended
  columns), and two changes of the records meanwhile. The theorem needs none of
  these bounds.

**Sessions.** Three requests are the leader of a refresh, one that waits for it,
and one of another tab. Two versions and two refresh tokens are the session
and the one that replaces it; every action that would go beyond a bound has it
in its guard. A second user matters where two accounts meet: the alternate of an
account, and the cookie of a browser they share.

**What holds and why it matters.** However stale the copies that are saved over
each other, a requisition never shows a state that the approvals table does not
cover, and never returns to the supervisor's queue. It may still go back further
down: a stale approval or hold overwrites "fulfilled", which the workflow
excludes and `MCWorkflow` shows to need overlapping requests. What remains then
is the ledger (`KeepsLedger`): only nominees decide, statuses are backed by
verdicts, a requisition is with its section's supervisor or with their
alternate, and stock leaves only for what was approved. `DecisionOnRecord`,
`NeverReopened` and `DecidedByNominee` say parts of this in the terms of the
tables; no run states them a second time, as the ledger implies them
(`LedgerMeans`), and each has an invariant and a theorem of its own.

The audit entry is the last of several awaits of a handler, after the change it
reports and the notifications. What is in the log is true all the same, although
other requests may have saved over the change by then (`AuditTellsTruth`): a
logged decision is in the approvals table, of the same request, and nothing with
a logged decision is undecided. What is missing from the log was changed by a
request that is still at work or that failed (`ChangesLogged`). In the same way
an alternate's notice follows the UPDATE that hands the requisition over, and
but for a failure it goes out (`AlternateTold`).

The pessimistic lock does protect the quantity: no decrement is lost between
concurrent fulfilments, and none is computed from a quantity that has changed.
The UNIQUE constraint makes the numbers dense even though `create()` counts
first. When requests on the same requisition do not overlap, the whole service
behaves like the status diagram, including the transaction's all-or-nothing,
wherever it is interrupted.

The daily watchers write the rows that requests save whole, and the lifecycle is
kept all the same: a watcher writes stamps only, and `save()` writes what
differs. Revocation holds against a refresh that read the row before, because
the token it mints carries the version it read. The queue of waiting requests
is emptied on the refresh's success and on its failure. A form is drawn from rows
read in one statement and the users those rows name; that makes it true of one
moment, though not of the moment at which it is stored.

**Exceptions the properties name.** Where overlapping work may break a property
as the code is written, a history variable says so and the property starts with
it: `raced` and `clashed` (two handlers on an asset, or two that count on an
account), `crossed`, `outrun`, `renewed` (an answer or a row that came out of
order), `torn` (two updates of a key), `blind` (a start without the table),
`strained` (exchanges of an account's cookie that overlapped, or a lost answer),
`reclicked`, and `behind` or `failed` (the page has said that it could not load,
or that a decision failed whose answer was lost).
Each is needed: with any of them left out of its property, TLC finds a
counterexample under the bounds above (for `clashed`, with a second request
slot).

**Fairness.** `EveryRequestEnds` assumes weak fairness of each request's next
step: Node.js runs the continuation of a settled await, and PostgreSQL breaks
lock cycles. `BreachHandled` assumes weak fairness of the sweeps (the cron fires,
their tasks go on or fail) and, for the requisitions in `Healthy`, strong
fairness of notice, resolution and stamp: an operation attempted again in every
sweep does not fail every time. It assumes nothing about the other requisitions,
which is the point: a failure of theirs must not starve the healthy ones.
`MCBreach` runs without requests, because only the watchers are asked to make
progress. `DailyFairness` is of the same kind: weak fairness of the end of the
job, strong fairness of its two queries (the job comes back every day and is not
killed every day before it gets there) and of each notice and stamp, because a
sweep, or the server, may fail in between. For the broken asset it is the failure
that is fair. The low-stock lines are alerted one after the other, and one whose
alert failed every day would starve those behind it: fairness of all alerts is
assumed, and needed.

**Repository text the code does not meet.** Each of these runs ends in a
counterexample, and `PROJECT.json` quotes the text.

| Run | Counterexample |
|---|---|
| `ClaimFulfill` | two fulfilments of a requisition pass the status check before either opens its transaction; both commit and both take stock |
| `ClaimSerialise` | two fulfilments of one supply first get its share lock through the foreign key, and then each waits for the other's; PostgreSQL aborts one instead of serialising them |
| `ClaimRouting` | the routing panel is open while the row under it is renewed with the supervisor's own absence; the next save finds a difference nobody made, sends it, and un-marks the supervisor |

**What the model shows besides.** No run is about these, since no text of the
repository says otherwise:

* Notifications and the audit entry follow the commit. A notification that fails
  leaves a committed change without an audit entry and an error answer: the third
  case of `ChangesLogged`. After a crash behind the hand-off's UPDATE no later
  sweep tells the alternate: `AlternateTold` is claimed without faults.
* A sweep's hand-off to the alternate is written without a condition: it may land
  after the supervisor's decision. `AlertedOnce` is claimed of one sweep at a
  time and without faults; with overlap or a crash between notice and stamp it is
  at least once, which is `StampMeansNotified`.
* The settings page saves every field of the form it loaded, and the asset page's
  edit form is not renewed by other answers: each writes back what others changed
  meanwhile.
* The requisition slip (RIS) prints the nominated supervisor under "Approved by",
  and the requested quantity under "QTY ISSUED", whatever became of the
  requisition.
* `fulfill()` takes the entries of `fulfilledItems` one after the other and does
  not look whether one names a line again
  (`Backend/src/requisitions/requisitions.service.ts:704-727`): a line named
  twice would be drawn twice and linked to the second asset. The frontend's own
  button sends no entries (`Frontend/lib/api/requisitions.ts:86`).
* A wrong password is answered with 401, like an expired token: with a cookie
  that is still good the interceptor refreshes and sends the login again, and one
  mistake counts twice. `AttemptsCounted` counts what the server saw.

## 4. Proofs

Eight modules hold theorems. Each theorem is about a specification of the
component, or of the requisition desk as a whole, for any values of the constants
that meet the named assumption in the module that declares them.

| Theorem | Statement |
|---|---|
| `TypeCorrect`, `GuardSafe`, `StockSafe`, `DecisionSafe`, `NumbersSafe` (`Requisitions`) | `Spec => []TypeOK`, `[]GuardStillHolds`, `[]StockAccounted`, `[]DecisionOnRecord`, `[]NumbersDense` |
| `StaysDecided` (`Requisitions`) | `Spec => NeverReopened` |
| `AuditTrue`, `LogComplete` (`Requisitions`) | `Spec => []AuditTellsTruth`, `[]ChangesLogged` |
| `StockOnce` (`Requisitions`) | under the assumptions of `FollowsWorkflow`, the claim that `ClaimFulfill` refutes: `Spec => StockTakenFromFulfillable` |
| `FollowsWorkflow` (`Requisitions`) | if requests on one requisition do not overlap and an array names a line once (`~Overlap`, `NamesLinesOnce`): `Spec => ImplementsWorkflow` |
| `ScopeSafe` (`Requisitions`) | if requests on one requisition do not overlap (`~Overlap`): `Spec => []FulfilledInScope` |
| `HooksSafe` (`Requisitions`) | if no await throws (`~Faults`): `Spec => []LowStockNoticed` |
| `DeskSafe` (`RequisitionDesk`) | `DeskSpec => [](TypeOK /\ WatchTypeOK /\ DecisionOnRecord /\ NumbersDense)` |
| `HopSafe`, `NomineeSafe`, `StampsSafe` (`RequisitionDesk`) | `DeskSpec => []OneHop`, `[]DecidedByNominee`, `[]StampMeansNotified` |
| `DeskAudit`, `DeskStock` (`RequisitionDesk`) | `DeskSpec => [](AuditTellsTruth /\ ChangesLogged)`, `[](StockAccounted /\ GuardStillHolds)` |
| `AlternateAlwaysTold` (`RequisitionDesk`) | `DeskSpec => []AlternateTold` |
| `DeskKeepsLedger`, `DeskStaysDecided` (`RequisitionDesk`) | `DeskSpec => KeepsLedger`, `NeverReopened` |
| `LedgerMeans` (`RequisitionDesk`) | `KeepsLedger => [](DecisionOnRecord /\ DecidedByNominee) /\ NeverReopened` |
| `AlertsOnce` (`RequisitionDesk`) | if there is one sweep and no await throws (`Alone`): `DeskSpec => []AlertedOnce` |
| `RegistryTypes`, `HistorySafe`, `SilenceSafe`, `LoanReportSafe` (`AssetRegistry`) | `RegistrySpec => []RegistryTypeOK`, `[]HistoryUpToDate`, `[]SilencedOnlyWhileLow`, `[]ReportedForThisLoan` |
| `LifecycleSafe` (`AssetRegistry`) | `RegistrySpec => LifecycleFollowed` |
| `OneMoment`, `PageWaitsForOrders` (`GovernmentForms`) | `FormsSpec(tables) => []FormOfOneMoment`, `[]FormsTypeOK` |
| `ListStaysCurrent`, `NeverWaitsInVain`, `DirectoryTyped` (`Directory`) | `DirectorySpec => []ListIsCurrent`, `[]WaitsForAnswer`, `[]DirectoryTypeOK` |
| `AttemptsSafe`, `RevocationSafe` (`BrowserSession`) | from a table in which nobody is signed in (`FreshTable(table)`): `SessionSpec(table) => []AttemptsCounted`, `[]RevokedStaysOut` |
| `QueueServed`, `CookieSafe`, `AccountTypes` (`BrowserSession`) | likewise `[]NobodyLeftWaiting`, `[]CookieMatches`, `[]AccountTypeOK` |
| `CacheFollowsTable`, `SavedSafe`, `RefusedNeverServed` (`SystemSettings`) | `SettingsSpec => []ServedAsStored`, `[]SavedIsStored`, `[]SettingsTypeOK` |
| `ShowsWhatItConfirmed`, `SendsWhatIsMeant` (`AssetDetail`) | `DetailSpec(statuses) => []ConfirmedIsShown`, `[]SentAsMeant` |
| `DetailTyped` (`AssetDetail`) | if the statuses to start from are ones of the lifecycle: `DetailSpec(statuses) => []DetailTypeOK` |
| `UntouchedStaysHome`, `PasswordGoesHome`, `PanelsTyped` (`AccountPanels`) | `PanelsSpec => []UntouchedNotSent`, `[]PasswordForTarget`, `[]PanelsTypeOK` |
| `TextStaysHome`, `ListKeepsDecisions` (`Workbench`) | `BenchSpec(table) => []TextIsForRecord`, `[]ListReflectsDecision` |
| `WorkbenchTyped` (`Workbench`) | if there is a record, and none is the placeholder for no record: `BenchSpec(table) => []WorkbenchTypeOK` |
| `PartsTyped` (`MCParts`) | if the assets of the scenes are assets (`ScenesFit`) and, for the work page, as above: `MCSpec => []PartsTypeOK` |

**Stock.** `StockAccounted` is not inductive: a commit writes the quantity a
transaction computed several steps before, so one must know that it is still
current. The invariant is `IInv == TypeOK /\ Control /\ Held`. `Held` says that a
transaction that drew from an asset has its row lock, that what it read is the
row's quantity, and that it covers the draw. `Control` says what the place of a
request implies about its job (only a fulfilment is inside the transaction, an
idle request has drawn nothing), which is what makes `Held` preserved when a
request opens its transaction.

**Decisions.** `DecisionOnRecord` needs to know what requests in progress are
about to write. `DInv` adds to `IInv` and `DecisionOnRecord`: `Intent`, a request
about to save a copy has the decision that the copy's new status needs on
record (its own row, or the row that was behind the status it read), and
`Creation`, a requisition is submitted by one request only, and the other
operations only start on one that is there. The approvals table only grows, so
a decision on record stays, and a status only changes by an INSERT or by a
`save()` whose copy has that status (`StatusSteps`); `NeverReopened` follows from
the same invariant.

**Numbers.** `Numbered` says that the numbers given are exactly `1..n` for the `n`
requisitions in the table, and that every copy carries its row's number, so that
no `save()` moves one. A submission inserts the number after the count it took,
and only where the UNIQUE constraint lets it: that is the next one, since a count
that is behind yields a number that is taken.

**Scope and hooks.** `Scoped` follows the fulfiller's check from the copy through
the transaction to the row; the lines it was checked against are still all lines
because nobody else is at work on the requisition (`Exclusive`), which is why
the theorem assumes `~Overlap`. With overlap, a submission's lines may come
after the check. `Hooked` says of a supply at or below its level that it is
stamped or that the hook of a request that committed is still to run for it; an
await that throws would skip that hook, whence `~Faults`.

**Refinement.** Most steps of the handlers are stutters of the workflow; the
UPDATE of `save()`, the INSERT and the commit are its steps, and there the
request's copy, read several awaits ago, must be as good as the row. `Working`
says so: `RowAt`, a requisition that is not fulfilled has no line linked, and one
that is approved or on hold has been approved; `WorkAt`, a request at work has the
row its requisition still has, since nobody else is at work on it; `LinesAt`, the
lines a transaction has linked in its copy are those it has dealt with, and what
it holds drawn of a supply is as many units as those lines want. Units are
counted as the elements of a set (`Units`), so that one more line adds its own
units (`UnitsAdded`) and no induction over the lines is needed; that is where
`NamesLinesOnce` comes in. The commit (`CommitStep`) then takes exactly the
units of the lines it links, of stock that `Held` says is there. `WorkAt` is also
why the status that a fulfilment checked before its transaction is still there at
the commit (`StockOnce`): `ClaimFulfill` needs the overlap that `~Overlap` excludes.

**Audit log.** An entry is written some awaits after the change, so the invariant
follows the request that will write it. `ReportAt` says of a request past its
write that its requisition is there, decided, and on record as its own verdict;
`EntryAt` takes that over to the entry once the request is done. Others' saves
do not undo it because of `Based`: a `save()` whose base was decided finds the row
decided, and one whose base was not writes its own decided status. `Logs` says of
the status a row has which request moved it there, and that this request has
logged it, is past its write, or was cut short; a later save of another status
hands this over to the request that saved.

**Ledger.** `DeskKeepsLedger` maps every step of requests and sweeps to a step of
`RequisitionLedger` or a stutter: the INSERT to `Submit`, the approvals row to
`Record` (the decider is nominated, by `Nominated`), the UPDATE of `save()` and the
commit to `Settle` (the verdict is on record, by `Intent` in `DInv`; the holder
after a stale save is one of the route's two, by `Hops`), the sweep's UPDATE to
`HandOver`. `Known` adds which statuses the service writes at all, and that every
requisition that is there has a section's supervisor. No assumption about
overlap or failures is made, so this holds where the workflow does not; the
requests of `MCOverlap` are the desk with no sweep running. That the
ledger is strong enough to be worth keeping is `LedgerMeans`, from the ledger's
own invariant `Warranted` and nothing about the handlers: every verdict is a
nominee's, of a requisition that is there, and every status is backed by one.

**Desk.** The requests' steps keep `DeskInv == DInv /\ Numbered /\ WInv`
by the lemmas above, and the watchers' steps touch nothing of it but stamps and
the hand-off. What the sweeps do with rows they read long ago is in `Hops`: a
row, a copy in a request and a copy in a sweep each name the supervisor of the
submission, or that supervisor's alternate and then the routed mark; a stale copy
that is saved over a hand-off can undo it and cannot add a second hop, as
supervisor and mark differ from the base together. `Nominated` adds that a
request past the check decides for a nominee, whoever is nominated by then.
`StampsEarned` is the same argument for the stamps: wherever a stamp is set, in a
row or in a copy, its notice went out before. `Once` needs more: between notice
and stamp the notice is in a sweep's hands, a sweep that still has to send one
finds none sent, and a `save()` does not put a requisition back into the queue
without its stamp (`DecidedBase`). A second sweep, or a crash between the two
steps, breaks each of these, and the alert is then repeated. `Telling` follows the
routed mark: in a row, or in the copy a request is about to save, the alternate
has been told, or a sweep's task or the submission that set it has the notice
ahead of it. That this request reaches its notice needs `Unhooked`, since a
request whose hook throws is cut off there.

**Registry.** `RegistryInv` is what holds however handlers overlap: types,
uniqueness of property numbers and tags, and that whoever works on an asset
works on a registered one. `Life` speaks of an asset on which no two requests
have overlapped: the one request that holds it moves the status it read, which is
the status the row has, and the history ends with that status unless its entry is
the next step. The watchers may write the row meanwhile; they write stamps only. `Sole` speaks of an
asset on which no two handlers have overlapped, of requests and watchers alike:
its copy is current, its notices are for the present loan, and the stamps
say the truth. The theorems are about `RegistrySpec`, from an empty table; the
scenes of `MCParts` are a selection of its steps (`SceneStep`). `MCDaily` starts from a table of
its own and is only about liveness.

The uniqueness of the numbers was not provable of an earlier form of the model:
a `save()` that writes an old copy back may want a number that another asset has
taken meanwhile. The columns are UNIQUE, so it fails there (`SavedTaken`); that
takes two requests on the asset and one on another, which no run has.

**Forms.** `FormsInv` says of every order that its index of reading lies between
its order and the present, and that what it has drawn is what its layout says of
the records at that index (`DrawnFromRead`); of every stored form, that such an
index lies in its interval (`AllOfOneMoment`). Both survive a step because
`ledger` and `archive` only grow at their ends (`Grow`, `Appended`). No leaf looks
into a layout, so the theorem holds of all eighteen, and of a nineteenth.

**Lists.** `ListIsCurrent` speaks of a page at rest; the invariant says how it
gets there. `OnItsWay`: an answer was or must be overtaken (`Doomed`), or nothing
is on its way and the rows are current or loading failed, or the youngest request
asks for what the inputs show (`IsLatest`). `ListInv` numbers the requests and
says that they know no change to come. `NeverWaitsInVain` is inductive as it
stands.

**Sessions.** The theorems are about `SessionSpec`, in which any user signs in
from any tab and any administrator works on any account; the situations of
`MCBrowserSession` select from its steps. `SessionInv` has the types, and what a
handler's place says of it: which slot is whose, what has been read. `Waits` is
the refresh queue of a tab: requests wait only while exactly one of them leads,
whose slot is at work on a refresh, so that an answer will come. `Truth` speaks
of an account on which no two handlers that count have met: the one that is at
work has copied the present version and count, the columns are what the histories
say, and every claim to a version there is, in a tab, in an answer, or in a
guard that has read the row, is behind the account or of its present epoch
(`Current`): that is why no token of an ended session is accepted again,
even one minted after the revocation by a refresh that began before it. `Kept` speaks of
an account whose exchanges have not overlapped and whose answers have arrived:
at rest its last browser holds the cookie the server expects, and the one
exchange that is under way has not touched it, brings the new one, or has been
refused.

**Asset page.** `AnswersInv`: a request that is done is in its own answer, which
is what makes the page show it once the answer replaces the asset. `FormInv`: no
cancelled edit is in the form, and the present edit is not one of them. `BoxInv`:
what the dialog holds was given for the status it is set to. `PostsInv`: at most
one save and one lifecycle update are on their way, each exactly while the page
says so, and no status that comes back leaves the lifecycle.

**Account drawer.** `DiffersBySetting`: where the panel differs from the row it
was opened on, the administrator has set it. `PasswordInv`: the text in the
dialog was typed for the account the dialog is open for. `PanelsInv`: no row on
the page is ahead of the server's, and what is shut is empty.

**Work page.** `TextInv`: the text in the dialog is of the record in the drawer,
and gone when the dialog is. `BenchInv`: there is one fetch at a time and none
while a decision is on its way (`OneFetch`); an answer that has been given has every
decision of the user, and the list has, unless the fetch after the decision is
still to come or the page has reported a failure (`FreshRows`). `PageState` bounds
the page number by the records there are, for the type.

**Settings.** `OneAtAKey`: a key whose updates have not overlapped has one handler
at work on it. `StillInTable`: what that handler has read, or written, is in the
table still. With `DownIdle` (a stopped server has no handlers) the cache it
fills is the table's. `SavedInv`: a key that a handler has gone through is stored
as it is served for as long as its administrator was the last to set it, and so
is what the page calls saved; `TailOf` is what going on to the next key means,
and `SettingsFilled` keeps a row that was never set apart from a value. `LetsInv`:
rows and payloads hold only what the validators let through for the key. Its
proof failed at first where a key that was never set is served by its default,
which might have been a zero: that every compiled-in default is positive
(`packages/shared/src/constants/index.ts:11-27`) was missing from
`SettingsAssumption`.

**Parts.** `MCParts` runs the registry, the pages, the settings and the forms next
to each other. `PartStep` shows that a step of the whole is a step of each part
or leaves it alone, where the scenes' requests are requests of the registry
(`SceneRequests`); `PartsTyped` then follows from the seven theorems about the
types of the parts.

**Left to TLC.** Liveness and fairness, which rest on ENABLED: `EveryRequestEnds`,
`BreachHandled`, `LowStockReported`, `OverdueReported`. Every safety invariant
and action property of the passing runs, and both refinements, are stated by a
theorem. `GuardStillHolds`, like the three properties that the ledger implies, is
stated by theorems only: it is what `StockAccounted` rests on.
What the theorems assume beyond the constants' assumptions is named with them:
`~Overlap`, `~Faults` and `Alone` select the behaviours the property is claimed of,
as the runs' configurations do.

## 5. Plan

1. (done) Requisitions, SLA watchers, workflow refinement; stock and decision
   safety proved.
2. (done) Asset registry with the daily watchers; accounts and sessions on both
   sides; system configuration; government forms; the pages that keep state.
3. (done) Proofs about the forms, the lists, the asset page, the account drawer
   and the settings cache.
4. (done) Proofs about the desk with its sweeps, the numbers, the fulfiller's
   scope and the hooks; about the registry.
5. (done) Proofs about accounts and sessions, the work page, the saved settings,
   and the types of all pages; the refinement of the workflow.
6. (done) The audit log, the alternate's notice, the ledger that the overlapping
   desk implements, and the stock under the sweeps: stated, checked and proved;
   the parts of `MCParts` together.
7. Theorems about the forms' layouts (`FormLayouts`), which no proof looks into
   yet. Liveness stays with TLC.

## 6. Not modelled

* Reports (KPIs, PDF and spreadsheet exports), the admin dashboard and the health
  probe: read-only aggregation and layout.
* HTTP plumbing (filters, interceptors, bootstrap): stateless wrapping. Seeds,
  scripts, performance tests and CI: development tooling.
* The account creation and role pages: one form, one request; the server's side
  is in `UserAccounts`. The employee workspace and the mock pages: they show
  constants of the browser, or send one request from one form.
* Dashboards, navigation and the UI kit: presentation of what a page fetches once.
* Read-only queries (`findAll`, `findMine`, `getStats` and the like), as far as no
  page of the model needs them. The requisition statuses `draft` and `cancelled`
  are in the enumeration and no code sets them.
* Who reads a notification when; the immutability of the audit table, which is a
  trigger of the database.
