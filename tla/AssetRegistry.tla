---------------------------- MODULE AssetRegistry ----------------------------
(***************************************************************************)
(* AssetsService behind its controller, and the daily job of               *)
(* SchedulerService: registration, PATCH, lifecycle transitions, QR tags,  *)
(* the stock a fulfilment draws with its low-stock hook, the overdue-      *)
(* return watcher and the low-stock watcher.                               *)
(*                                                                         *)
(* A handler reads the asset at one await and writes at a later one; every *)
(* step of another handler may come in between.  The columns kept are the  *)
(* ones a handler or a watcher decides on.  A free-text column, a location *)
(* or a note decides nothing and is left out; so is the audit table, whose *)
(* append is the last await of each handler here.                          *)
(***************************************************************************)
EXTENDS Integers, FiniteSets, AimrsVocabulary

CONSTANTS
  Assets,          \* asset ids
  Staff,           \* users an asset can be issued to
  Numbers,         \* official property numbers
  Calls,           \* slots in which a request is served
  Sweeps,          \* runs of the daily job that may overlap
  Broken,          \* assets whose overdue notice always fails
  None,            \* SQL NULL, and an omitted field of a request
  Blank,           \* the empty string
  DefaultReorder,  \* SystemConfigService.getDefaultReorderLevel()
  MaxQuantity, MaxLoans, LastDay, \* bounds
  Faults           \* may an await throw, or the server restart?

ASSUME RegistryAssumption ==
  /\ None \notin Staff \cup Assets \cup Numbers \cup AssetClass \cup {Blank}
  /\ Blank \notin Numbers
  /\ Broken \subseteq Assets
  /\ {DefaultReorder, MaxQuantity, MaxLoans, LastDay} \subseteq Nat
  /\ LastDay > 0
  /\ Faults \in BOOLEAN

VARIABLES
  row,       \* table assets
  today,     \* CURRENT_DATE
  call,      \* [Calls -> the handler in the slot, between two awaits]
  daily,     \* [Sweeps -> the watcher that runs: "idle", "overdue", "low"]
  late,      \* [Sweeps -> [Assets -> stage and loan of the overdue notice]]
  queue,     \* [Sweeps -> lines the low-stock watcher has yet to alert]
  line,      \* [Sweeps -> the line alerted and not yet stamped, or None]
  loan,      \* history: how often each asset was issued
  told,      \* history: was somebody told that the present loan is overdue?
  recorded,  \* history: the status the transactions of an asset end with,
             \*   None if the handler failed before it wrote its own
  raced,     \* history: assets on which two handlers have overlapped
  clashed    \* history: those on which two requests have

sweeping == <<daily, late, queue, line>>
history == <<loan, told, recorded, raced, clashed>>
registryVars == <<row, today, call, sweeping, history>>

-----------------------------------------------------------------------------
Status ==
  {"registered", "available", "issued", "returned", "transferred",
   "under_repair", "flagged_for_disposal", "disposed"}

ValidTransitions ==
  [registered |-> {"available"},
   available |-> {"issued", "transferred", "under_repair",
                  "flagged_for_disposal"},
   issued |-> {"returned", "under_repair", "flagged_for_disposal"},
   returned |-> {"available", "under_repair"},
   transferred |-> {"available"},
   under_repair |-> {"available", "flagged_for_disposal"},
   flagged_for_disposal |-> {"disposed"},
   disposed |-> {}]

Row ==
  [status: Status \cup {"absent"},
   type: AssetType \cup {None}, class: AssetClass \cup {None},
   number: Numbers \cup {None, Blank},   \* UNIQUE
   tag: Assets \cup Numbers \cup {None}, \* qr_code, UNIQUE
   quantity: 0..MaxQuantity,
   reorder: 0..MaxQuantity \cup {None},
   custodian: Staff \cup {None},
   due: 1..LastDay \cup {None},
   overdueStamped: BOOLEAN,              \* overdue_notified_at
   lowStamped: BOOLEAN]                  \* low_stock_notified_at

NoRow ==
  [status |-> "absent", type |-> None, class |-> None, number |-> None,
   tag |-> None, quantity |-> 0, reorder |-> None, custodian |-> None,
   due |-> None, overdueStamped |-> FALSE, lowStamped |-> FALSE]

Registered == {a \in Assets : row[a].status # "absent"}

Patch == [quantity: 0..MaxQuantity \cup {None},
          reorder: 0..MaxQuantity \cup {None},
          number: Numbers \cup {None, Blank}]

NoPatch == [quantity |-> None, reorder |-> None, number |-> None]

Idle == [at |-> "idle", asset |-> None, copy |-> NoRow, base |-> NoRow,
         patch |-> NoPatch]

Stages == {"off", "found", "notified", "done", "failed"}

NotLate == [stage |-> "off", loan |-> 0]

Threshold(r) == IF r.reorder # None THEN r.reorder ELSE DefaultReorder

Low(r) == r.class = "IES" /\ r.quantity <= Threshold(r)

(* The callers of the writing routes, and the asset types in their scope.  *)
MayWrite(role, type) ==
  role \in {"it_personnel", "property_custodian"} /\ type \in AssetTypeScope(role)

InScope(a) == \E role \in UserRole : MayWrite(role, row[a].type)

-----------------------------------------------------------------------------
(* Work on an asset, from its first read to its last write.                *)
Requested(a) == \E q \in Calls : call[q].at # "idle" /\ call[q].asset = a

AtWork(a) ==
  \/ Requested(a)
  \/ \E s \in Sweeps : late[s][a].stage \in {"found", "notified"}
                       \/ a \in queue[s]

Overlap(as) == raced' = raced \cup {a \in as : AtWork(a)}

Clash(a) == clashed' = IF Requested(a) THEN clashed \cup {a} ELSE clashed

Goto(q, at) == call' = [call EXCEPT ![q].at = at]
End(q) == call' = [call EXCEPT ![q] = Idle]

(* A handler starts: it reads the asset and goes on with what it read.     *)
Enter(q, a, at, copy, patch) ==
  /\ call[q].at = "idle"
  /\ call' = [call EXCEPT ![q] = [at |-> at, asset |-> a, copy |-> copy,
                                  base |-> NoRow, patch |-> patch]]
  /\ Overlap({a}) /\ Clash(a)
  /\ UNCHANGED <<row, today, sweeping, loan, told, recorded>>

NumberTaken(a, n) ==
  n # None /\ \E b \in Registered \ {a} : row[b].number = n

(***************************************************************************)
(* create(): the only check on an asset that does not exist yet is that    *)
(* its type is in the caller's scope; the INSERT fails on a property       *)
(* number in use, and an empty string is one.                              *)
(***************************************************************************)
Create(q, a, type, class, n, qty, reorder) ==
  /\ call[q].at = "idle"
  /\ row[a].status = "absent"
  /\ \E role \in UserRole : MayWrite(role, type)
  /\ ~NumberTaken(a, n)
  /\ row' = [row EXCEPT ![a] =
               [NoRow EXCEPT !.status = "registered", !.type = type,
                  !.class = class, !.number = n, !.quantity = qty,
                  !.reorder = reorder]]
  /\ call' = [call EXCEPT ![q] = [Idle EXCEPT !.at = "audit", !.asset = a]]
  /\ UNCHANGED <<today, sweeping, history>>

-----------------------------------------------------------------------------
(***************************************************************************)
(* update(): an UPDATE of the columns in the patch; the low-stock stamp is *)
(* cleared when the patched line, as far as it was read, is above its      *)
(* threshold.                                                              *)
(***************************************************************************)
BeginPatch(q, a, patch) ==
  /\ a \in Registered /\ InScope(a)
  /\ Enter(q, a, "patch", row[a], patch)

Given(new, old) == IF new # None THEN new ELSE old

RearmsOnQuantity(copy, patch) ==   \* mutant: a new reorder level re-arms nothing
  patch.quantity # None /\ patch.quantity > Threshold(copy)

Rearms(copy, patch) ==
  /\ patch.quantity # None \/ patch.reorder # None
  /\ Given(patch.quantity, copy.quantity)
       > Given(patch.reorder, Threshold(copy))

Patched(r, copy, patch) ==
  [r EXCEPT !.quantity = Given(patch.quantity, @),
            !.reorder = Given(patch.reorder, @),
            !.number = Given(patch.number, @),
            !.lowStamped = @ /\ ~Rearms(copy, patch)]

WritePatch(q) ==
  LET a == call[q].asset IN
  /\ call[q].at = "patch"
  /\ IF NumberTaken(a, call[q].patch.number)
     THEN End(q) /\ UNCHANGED row
     ELSE /\ row' = [row EXCEPT ![a] =
                       Patched(@, call[q].copy, call[q].patch)]
          /\ Goto(q, "audit")
  /\ UNCHANGED <<today, sweeping, history>>

-----------------------------------------------------------------------------
(***************************************************************************)
(* updateLifecycle(): the whole row is read, changed, and saved.  save()   *)
(* reads the row once more and writes the columns that differ from the     *)
(* copy, also those that are only out of date in it; it fails when one of  *)
(* them is a number or a tag that another asset has taken meanwhile.       *)
(***************************************************************************)
MayMoveFlagged(from, to) ==   \* mutant: a disposed asset can be put back
  \/ to \in ValidTransitions[from]
  \/ from = "disposed" /\ to = "available"

MayMove(from, to) == to \in ValidTransitions[from]

MovedKeepingStamp(r, to, who, date) ==  \* mutant: a return only clears the date
  [r EXCEPT !.status = to,
     !.custodian = IF to \in {"returned", "disposed"} THEN None ELSE Given(who, @),
     !.due = IF to = "issued" THEN date ELSE IF to = "returned" THEN None ELSE @]

Moved(r, to, who, date) ==
  [r EXCEPT !.status = to,
     !.custodian = IF to \in {"returned", "disposed"} THEN None
                                                      ELSE Given(who, @),
     !.due = IF to = "issued" THEN date
             ELSE IF to = "returned" THEN None ELSE @,
     !.overdueStamped = @ /\ to \notin {"issued", "returned"}]

BeginLifecycle(q, a, to, who, date) ==
  /\ a \in Registered /\ InScope(a)
  /\ MayMove(row[a].status, to)
  /\ to = "issued" => loan[a] < MaxLoans
  /\ Enter(q, a, "load", Moved(row[a], to, who, date), NoPatch)

LoadForSave(q) ==
  /\ call[q].at = "load"
  /\ call' = [call EXCEPT ![q].at = "save", ![q].base = row[call[q].asset]]
  /\ UNCHANGED <<row, today, sweeping, history>>

SavedRow(r, base, mine) ==
  [c \in DOMAIN r |-> IF mine[c] # base[c] THEN mine[c] ELSE r[c]]

SavedTaken(a, r) ==
  \/ NumberTaken(a, r.number)
  \/ r.tag # None /\ \E b \in Registered \ {a} : row[b].tag = r.tag

WriteSaved(q) ==
  LET a == call[q].asset
      saved == SavedRow(row[a], call[q].base, call[q].copy)
      lent == saved.status = "issued" /\ row[a].status # "issued" IN
  /\ call[q].at = "save"
  /\ IF SavedTaken(a, saved)
     THEN End(q) /\ UNCHANGED <<row, loan, told>>
     ELSE /\ row' = [row EXCEPT ![a] = saved]
          /\ loan' = [loan EXCEPT ![a] =
                        IF lent /\ @ < MaxLoans THEN @ + 1 ELSE @]
          /\ told' = [told EXCEPT ![a] = @ /\ ~lent]
          /\ Goto(q, "history")
  /\ UNCHANGED <<today, sweeping, recorded, raced, clashed>>

(* The row of asset_transactions.                                          *)
RecordNothing(q) == recorded  \* mutant: no transaction row

Recorded(q) == [recorded EXCEPT ![call[q].asset] = call[q].copy.status]

RecordTransaction(q) ==
  /\ call[q].at = "history"
  /\ recorded' = Recorded(q)
  /\ Goto(q, "audit")
  /\ UNCHANGED <<row, today, sweeping, loan, told, raced, clashed>>

-----------------------------------------------------------------------------
(* generateQr(): the tag is the property number, else the id.              *)
TagOf(a, r) == IF r.number \in {None, Blank} THEN a ELSE r.number

BeginQr(q, a) ==
  /\ a \in Registered /\ InScope(a)
  /\ Enter(q, a, "tag", row[a], NoPatch)

WriteQr(q) ==
  LET a == call[q].asset
      tag == TagOf(a, call[q].copy) IN
  /\ call[q].at = "tag"
  /\ IF \E b \in Registered \ {a} : row[b].tag = tag
     THEN End(q) /\ UNCHANGED row
     ELSE row' = [row EXCEPT ![a].tag = tag] /\ Goto(q, "audit")
  /\ UNCHANGED <<today, sweeping, history>>

(* The audit entry, the last await of the handlers above; update() reads   *)
(* the asset once more for its answer.                                     *)
Audit(q) ==
  /\ call[q].at = "audit"
  /\ End(q)
  /\ UNCHANGED <<row, today, sweeping, history>>

-----------------------------------------------------------------------------
(***************************************************************************)
(* A fulfilment draws n units under a row lock (Requisitions models it in  *)
(* full), and after its commit checks the line it touched.                 *)
(***************************************************************************)
Enough(r, n) == n <= r.quantity

Draw(q, a, n) ==
  /\ call[q].at = "idle"
  /\ a \in Registered /\ row[a].class = "IES"
  /\ Enough(row[a], n)
  /\ row' = [row EXCEPT ![a].quantity = @ - n]
  /\ call' = [call EXCEPT ![q] = [Idle EXCEPT !.at = "hook", !.asset = a]]
  /\ Overlap({a}) /\ Clash(a)
  /\ UNCHANGED <<today, sweeping, loan, told, recorded>>

NeedsAlert(r) == Low(r) /\ ~r.lowStamped

ReadHook(q) ==
  /\ call[q].at = "hook"
  /\ IF NeedsAlert(row[call[q].asset]) THEN Goto(q, "stamp") ELSE End(q)
  /\ UNCHANGED <<row, today, sweeping, history>>

StampHook(q) ==
  /\ call[q].at = "stamp"
  /\ row' = [row EXCEPT ![call[q].asset].lowStamped = TRUE]
  /\ End(q)
  /\ UNCHANGED <<today, sweeping, history>>

(* The transactions of the assets that one of the lost handlers had moved. *)
RecordedWithout(lost) ==
  [a \in Assets |-> IF \E q \in lost : call[q].at = "history" /\ call[q].asset = a
                    THEN None ELSE recorded[a]]

(* An await of a handler throws.                                           *)
CallFails(q) ==
  /\ Faults
  /\ call[q].at # "idle"
  /\ End(q)
  /\ recorded' = RecordedWithout({q})
  /\ UNCHANGED <<row, today, sweeping, loan, told, raced, clashed>>

-----------------------------------------------------------------------------
DayPasses ==
  /\ today < LastDay
  /\ today' = today + 1
  /\ UNCHANGED <<row, call, sweeping, history>>

Overdue(r) ==
  r.status = "issued" /\ r.due # None /\ r.due < today /\ ~r.overdueStamped

(* dailyChecks(), or a manual run: the overdue watcher's query.            *)
QueryOverdue(s) ==
  /\ daily[s] = "idle"
  /\ daily' = [daily EXCEPT ![s] = "overdue"]
  /\ late' = [late EXCEPT ![s] =
                [a \in Assets |-> IF Overdue(row[a])
                                  THEN [stage |-> "found", loan |-> loan[a]]
                                  ELSE NotLate]]
  /\ Overlap({a \in Assets : Overdue(row[a])})
  /\ UNCHANGED <<row, today, call, queue, line, loan, told, recorded, clashed>>

(* Holder and owning custodians are told, from the row of the query.       *)
NotifyOverdue(s, a) ==
  /\ late[s][a].stage = "found"
  /\ a \notin Broken
  /\ late' = [late EXCEPT ![s][a].stage = "notified"]
  /\ told' = [told EXCEPT ![a] = @ \/ late[s][a].loan = loan[a]]
  /\ UNCHANGED <<row, today, call, daily, queue, line, loan, recorded, raced,
                 clashed>>

OverdueStampMisplaced(r) == [r EXCEPT !.lowStamped = TRUE]  \* mutant

OverdueStamp(r) == [r EXCEPT !.overdueStamped = TRUE]

StampOverdue(s, a) ==
  /\ late[s][a].stage = "notified"
  /\ late' = [late EXCEPT ![s][a].stage = "done"]
  /\ row' = [row EXCEPT ![a] = OverdueStamp(@)]
  /\ UNCHANGED <<today, call, daily, queue, line, history>>

OverdueFails(s, a) ==
  /\ Faults \/ a \in Broken
  /\ late[s][a].stage \in {"found", "notified"}
  /\ late' = [late EXCEPT ![s][a].stage = "failed"]
  /\ UNCHANGED <<row, today, call, daily, queue, line, history>>

(* Promise.all() settles with the last task, or with the first failure;    *)
(* runWatcher() swallows the failure, and the second watcher starts.       *)
SettledUnlessFailed(s) ==    \* mutant: runWatcher() does not catch
  \A a \in Assets : late[s][a].stage \in {"off", "done"}

OverdueSettled(s) ==
  \/ \A a \in Assets : late[s][a].stage \in {"off", "done", "failed"}
  \/ \E a \in Assets : late[s][a].stage = "failed"

QueryLowStock(s) ==
  /\ daily[s] = "overdue"
  /\ OverdueSettled(s)
  /\ daily' = [daily EXCEPT ![s] = "low"]
  /\ queue' = [queue EXCEPT ![s] = {a \in Assets : NeedsAlert(row[a])}]
  /\ Overlap({a \in Assets : NeedsAlert(row[a])})
  /\ UNCHANGED <<row, today, call, late, line, loan, told, recorded, clashed>>

(* The lines are alerted and stamped one after the other.                  *)
AlertLine(s, a) ==
  /\ a \in queue[s] /\ line[s] = None
  /\ line' = [line EXCEPT ![s] = a]
  /\ UNCHANGED <<row, today, call, daily, late, queue, history>>

StampLine(s, a) ==
  /\ line[s] = a /\ a \in Assets
  /\ row' = [row EXCEPT ![a].lowStamped = TRUE]
  /\ line' = [line EXCEPT ![s] = None]
  /\ queue' = [queue EXCEPT ![s] = @ \ {a}]
  /\ UNCHANGED <<today, call, daily, late, history>>

(* A failure abandons the lines behind it.                                 *)
LowStockFails(s) ==
  /\ Faults
  /\ queue[s] # {}
  /\ queue' = [queue EXCEPT ![s] = {}]
  /\ line' = [line EXCEPT ![s] = None]
  /\ UNCHANGED <<row, today, call, daily, late, history>>

(* The job has returned, and a task that outlived a failed sibling too.    *)
EndDaily(s) ==
  /\ daily[s] = "low" /\ queue[s] = {}
  /\ \A a \in Assets : late[s][a].stage \in {"off", "done", "failed"}
  /\ daily' = [daily EXCEPT ![s] = "idle"]
  /\ late' = [late EXCEPT ![s] = [a \in Assets |-> NotLate]]
  /\ UNCHANGED <<row, today, call, queue, line, history>>

Restart ==
  /\ Faults
  /\ call' = [q \in Calls |-> Idle]
  /\ daily' = [s \in Sweeps |-> "idle"]
  /\ late' = [s \in Sweeps |-> [a \in Assets |-> NotLate]]
  /\ queue' = [s \in Sweeps |-> {}]
  /\ line' = [s \in Sweeps |-> None]
  /\ recorded' = RecordedWithout(Calls)
  /\ UNCHANGED <<row, today, loan, told, raced, clashed>>

-----------------------------------------------------------------------------
(* A server that has just started on a table.                              *)
Started(table) ==
  /\ row = table
  /\ call = [q \in Calls |-> Idle]
  /\ daily = [s \in Sweeps |-> "idle"]
  /\ late = [s \in Sweeps |-> [a \in Assets |-> NotLate]]
  /\ queue = [s \in Sweeps |-> {}]
  /\ line = [s \in Sweeps |-> None]
  /\ loan = [a \in Assets |-> 0]
  /\ told = [a \in Assets |-> FALSE]
  /\ recorded = [a \in Assets |-> IF table[a] = NoRow THEN "registered"
                                   ELSE table[a].status]
  /\ raced = {} /\ clashed = {}

RegistryInit == Started([a \in Assets |-> NoRow]) /\ today = 1

(* A request about asset a arrives: on its stock, or on its lifecycle.     *)
StockRequest(q, a) ==
  \/ \E p \in Patch : BeginPatch(q, a, p)
  \/ \E n \in 1..MaxQuantity : Draw(q, a, n)

LifecycleRequest(q, a) ==
  \/ \E to \in Status, who \in Staff \cup {None} :
       \E date \in IF to = "issued" THEN 1..LastDay \cup {None} ELSE {None} :
         BeginLifecycle(q, a, to, who, date)
  \/ BeginQr(q, a)

Request(q, a) ==
  \/ \E type \in AssetType, class \in AssetClass, p \in Patch :
       /\ p.quantity # None
       /\ Create(q, a, type, class, p.number, p.quantity, p.reorder)
  \/ StockRequest(q, a)
  \/ LifecycleRequest(q, a)

Proceed(q) ==
  \/ WritePatch(q) \/ LoadForSave(q) \/ WriteSaved(q)
  \/ RecordTransaction(q) \/ WriteQr(q) \/ Audit(q)
  \/ ReadHook(q) \/ StampHook(q)

Work(s, a) ==
  \/ NotifyOverdue(s, a) \/ StampOverdue(s, a)
  \/ AlertLine(s, a) \/ StampLine(s, a)

Advance(s) == QueryOverdue(s) \/ QueryLowStock(s) \/ EndDaily(s)

Lose(s) == LowStockFails(s) \/ \E a \in Assets : OverdueFails(s, a)

Watch(s) == Advance(s) \/ Lose(s) \/ \E a \in Assets : Work(s, a)

RegistryNext ==
  \/ \E q \in Calls :
       \/ Proceed(q) \/ CallFails(q)
       \/ \E a \in Assets : Request(q, a)
  \/ \E s \in Sweeps : Watch(s)
  \/ DayPasses
  \/ Restart

RegistrySpec == RegistryInit /\ [][RegistryNext]_registryVars

(* The daily job comes back every day, and no notice fails every day,      *)
(* except the overdue notices of the broken assets.                        *)
DailyFairness ==
  \A s \in Sweeps :
    /\ SF_registryVars(QueryOverdue(s))
    /\ SF_registryVars(QueryLowStock(s))
    /\ WF_registryVars(EndDaily(s))
    /\ SF_registryVars(\E a \in Assets : StampLine(s, a))
    /\ \A a \in Assets :
         /\ SF_registryVars(NotifyOverdue(s, a))
         /\ SF_registryVars(StampOverdue(s, a))
         /\ SF_registryVars(AlertLine(s, a))
         /\ a \in Broken => SF_registryVars(OverdueFails(s, a))

-----------------------------------------------------------------------------
(* The tables and the handlers' copies keep their types.  A quantity never *)
(* becomes negative, and no two assets share a property number or a tag,   *)
(* whatever handlers overlap.                                              *)
RegistryTypeOK ==
  /\ row \in [Assets -> Row]
  /\ \A a, b \in Registered : a # b =>
       /\ row[a].number = row[b].number => row[a].number = None
       /\ row[a].tag = row[b].tag => row[a].tag = None
  /\ today \in 1..LastDay
  /\ \A q \in Calls :
       /\ call[q].at \in {"idle", "patch", "load", "save", "history", "tag",
                           "audit", "hook", "stamp"}
       /\ call[q].copy \in Row /\ call[q].base \in Row
  /\ \A s \in Sweeps :
       /\ daily[s] \in {"idle", "overdue", "low"}
       /\ \A a \in Assets : late[s][a] \in [stage: Stages, loan: 0..MaxLoans]
       /\ line[s] # None => line[s] \in queue[s]

(***************************************************************************)
(* A low-stock stamp silences the watcher and the hook, so it may stay     *)
(* only while the line is low.  update() re-arms it on a new quantity and  *)
(* on a new reorder level alike; no order of PATCHes, draws and sweeps     *)
(* that do not overlap on the line may leave a line silenced that is not   *)
(* low.                                                                    *)
(***************************************************************************)
SilencedOnlyWhileLow ==
  \A a \in Registered \ raced :
    row[a].lowStamped /\ ~AtWork(a) => row[a].quantity <= Threshold(row[a])

(***************************************************************************)
(* Every loan starts from a clean slate: an asset on loan is marked as     *)
(* reported overdue only if somebody was told about this very loan, over   *)
(* any number of returns, repairs and new loans.                           *)
(***************************************************************************)
ReportedForThisLoan ==
  \A a \in Registered \ raced :
    row[a].status = "issued" /\ row[a].overdueStamped => told[a]

(***************************************************************************)
(* The asset moves along the documented lifecycle, though it is the whole  *)
(* row that is saved, and the watchers write the same row meanwhile:       *)
(* unless two requests overlap on it, no write takes it out of a status    *)
(* by another way, and none takes it out of "disposed".                    *)
(***************************************************************************)
LifecycleFollowed ==
  [][\A a \in Registered \ clashed :
       row'[a].status # row[a].status =>
         row'[a].status \in ValidTransitions[row[a].status]]_registryVars

(***************************************************************************)
(* The transaction history of an asset ends with the status the asset is   *)
(* in, whenever no request is at work on it, unless the last one failed    *)
(* between its two writes.                                                 *)
(***************************************************************************)
HistoryUpToDate ==
  \A a \in Registered \ clashed :
    ~Requested(a) => recorded[a] \in {row[a].status, None}

(***************************************************************************)
(* A line that is low is alerted in the end, though the overdue watcher,   *)
(* which runs first, fails every day.                                      *)
(***************************************************************************)
LowStockReported ==
  \A a \in Assets : NeedsAlert(row[a]) ~> ~NeedsAlert(row[a])

(* A loan that is overdue is reported in the end, though the notices about *)
(* another asset fail in every sweep.                                      *)
OverdueReported ==
  \A a \in Assets \ Broken : Overdue(row[a]) ~> ~Overdue(row[a])
=============================================================================
