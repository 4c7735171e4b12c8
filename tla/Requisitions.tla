---------------------------- MODULE Requisitions ----------------------------
(***************************************************************************)
(* RequisitionsService: submission, the supervisor's decision, hold and    *)
(* fulfilment.  A request runs from one await to the next; the steps of    *)
(* different requests interleave.  Between two awaits a request keeps an   *)
(* in-memory copy of its requisition (mine), which save() later writes     *)
(* back.  Only fulfill() runs in a database transaction.                   *)
(*                                                                         *)
(* Overlap says whether two requests on the same requisition may be in     *)
(* progress at once.                                                       *)
(***************************************************************************)
EXTENDS RequisitionStore

CONSTANTS
  Kinds,     \* the operations requests may ask for
  Dtos,      \* the fulfilledItems arrays they may carry
  Stock,     \* [Assets -> Nat]: quantities before the first request
  Seed,      \* [Reqs -> status]: the rows present before the first request
  Absentees, \* the users whose availability changes
  Overlap

ASSUME RequestAssumption ==
  /\ Kinds \subseteq {"create", "approve", "reject", "hold", "fulfill"}
  /\ Dtos \subseteq Seq([item: Items, asset: Assets])
  /\ Stock \in [Assets -> Nat]
  /\ Seed \in [Reqs -> {"absent", "pending_supervisor", "pending_fulfillment"}]
  /\ Absentees \subseteq Users
  /\ Overlap \in BOOLEAN

VARIABLES
  pc,          \* where each request is
  job,         \* what it was asked: kind, target, actor
  mine,        \* its in-memory copy of the requisition
  base,        \* what the pending save() loaded
  todo,        \* fulfill: the fulfilledItems not yet processed
  seen,        \* fulfill: quantity read under the row lock
  draw,        \* fulfill: what the transaction takes from each asset
  hooks,       \* fulfill: assets whose low-stock hook is still to run
  primary,     \* history: the section supervisor resolved at submission
  issued,      \* history: what committed fulfilments took from each asset
  lowNotices   \* history: low-stock alerts sent for each asset

handlers == <<pc, job, mine, base, todo, seen, draw, hooks>>
history == <<primary, issued, lowNotices>>
vars == <<tables, locks, duty, handlers, history>>

Ended == {"done", "refused", "failed", "killed"}
Pcs == Ended \cup
  {"idle", "counted", "inserted", "checked", "deciding", "saving",
   "link", "fk", "stock", "reloaded", "saved", "alerted"}

Job == [kind: Kinds \cup {"none"}, target: Reqs \cup {None},
        actor: Users \cup {None}]
NoJob == [kind |-> "none", target |-> None, actor |-> None]
Nothing == [s \in Assets |-> 0]

InProgress(q) == pc[q] \notin Ended \cup {"idle"}
Target(q) == job[q].target

(* The row a seeded requisition has: submitted, and decided if its status  *)
(* says so.                                                                *)
SeedRow(r, n, sup) ==
  IF Seed[r] = "absent" THEN NoRow
  ELSE [NoRow EXCEPT !.status = Seed[r], !.number = n, !.supervisor = sup,
          !.decision = IF Seed[r] = "pending_fulfillment"
                       THEN "approved" ELSE None]

(* The rows present before the first request: numbered without a gap, each *)
(* with a supervisor, and with the decision its status stands for.         *)
SeedRows(number, sup) ==
  /\ \A r \in Reqs : /\ Seed[r] = "absent" <=> number[r] = 0
                     /\ Role[sup[r]] = "supervisor"
  /\ \A n \in 1..Cardinality({r \in Reqs : Seed[r] # "absent"}) :
       \E r \in Reqs : number[r] = n
  /\ req = [r \in Reqs |-> SeedRow(r, number[r], sup[r])]
  /\ primary = [r \in Reqs |-> IF Seed[r] = "absent" THEN None ELSE sup[r]]
  /\ approvals =
       {[request |-> None, req |-> r, approver |-> sup[r],
         action |-> "approved"] :
          r \in {x \in Reqs : Seed[x] = "pending_fulfillment"}}

Init ==
  /\ \E number \in [Reqs -> 0..Cardinality(Reqs)], sup \in [Reqs -> Users] :
       SeedRows(number, sup)
  /\ itemRows = {i \in Items : Seed[Owner[i]] # "absent"}
  /\ link = [i \in Items |-> None]
  /\ asset = [s \in Assets |-> [quantity |-> Stock[s], alerted |-> FALSE]]
  /\ audit = {}
  /\ itemLock = [i \in Items |-> None]
  /\ keyShare = [s \in Assets |-> {}]
  /\ rowLock = [s \in Assets |-> None]
  /\ duty = [u \in Users |-> "present"]
  /\ pc = [q \in Requests |-> "idle"]
  /\ job = [q \in Requests |-> NoJob]
  /\ mine = [q \in Requests |-> NoCopy]
  /\ base = [q \in Requests |-> NoCopy]
  /\ todo = [q \in Requests |-> <<>>]
  /\ seen = [q \in Requests |-> Nothing]
  /\ draw = [q \in Requests |-> Nothing]
  /\ hooks = [q \in Requests |-> <<>>]
  /\ issued = [s \in Assets |-> 0]
  /\ lowNotices = [s \in Assets |-> 0]

-----------------------------------------------------------------------------
(* Steps shared by the operations.                                         *)

Goto(q, label) == pc' = [pc EXCEPT ![q] = label]

ReleaseNothing(q) == UNCHANGED locks    \* mutant: a leaked transaction

Release(q) ==
  /\ itemLock' = [i \in Items |-> IF itemLock[i] = q THEN None ELSE itemLock[i]]
  /\ keyShare' = [s \in Assets |-> keyShare[s] \ {q}]
  /\ rowLock' = [s \in Assets |-> IF rowLock[s] = q THEN None ELSE rowLock[s]]

(* The request ends: its transaction, if one is open, is rolled back, and  *)
(* its memory is gone.                                                     *)
End(q, label) ==
  /\ Goto(q, label)
  /\ mine' = [mine EXCEPT ![q] = NoCopy]
  /\ base' = [base EXCEPT ![q] = NoCopy]
  /\ todo' = [todo EXCEPT ![q] = <<>>]
  /\ seen' = [seen EXCEPT ![q] = Nothing]
  /\ draw' = [draw EXCEPT ![q] = Nothing]
  /\ hooks' = [hooks EXCEPT ![q] = <<>>]
  /\ Release(q)

(* A request for operation kind on requisition r arrives from user u.      *)
Arrives(q, kind, r, u) ==
  /\ pc[q] = "idle"
  /\ kind \in Kinds
  /\ MayCall(kind, Role[u]) /\ duty[u] # "inactive"
  /\ Overlap \/ \A p \in Requests : Target(p) = r => ~InProgress(p)
  /\ job' = [job EXCEPT ![q] = [kind |-> kind, target |-> r, actor |-> u]]

AuditedDecisions(q) ==          \* mutant: putOnHold() writes no entry
  audit \cup
    {[request |-> q, req |-> Target(q), action |-> a] :
       a \in {job[q].kind} \ {"hold"}}

AuditedOnce(q) ==               \* mutant: the routing is not audited
  audit \cup {[request |-> q, req |-> Target(q), action |-> job[q].kind]}

(* A submission routed to an alternate leaves a second entry.              *)
Audited(q) ==
  audit \cup
    {[request |-> q, req |-> Target(q), action |-> a] :
       a \in {job[q].kind} \cup
             (IF job[q].kind = "create" /\ mine[q].row.routed
              THEN {"reassign"} ELSE {})}

-----------------------------------------------------------------------------
(* create()                                                                *)

(* The approver: the section's supervisor, or the usable alternate of one  *)
(* who is away.                                                            *)
Approver(sup) ==
  IF duty[sup] = "away" /\ UsableAlternate(sup) # {}
  THEN AlternateOf[sup] ELSE sup

(* Resolve the approver, count the requisitions and build the new row.     *)
BeginCreate(q, r, u, sup) ==
  /\ Arrives(q, "create", r, u)
  /\ req[r].status = "absent"
  /\ \A p \in Requests : job[p].kind = "create" => Target(p) # r
  /\ Role[sup] = "supervisor" /\ duty[sup] # "inactive"
  /\ mine' = [mine EXCEPT ![q].row =
       [NoRow EXCEPT !.status = "pending_supervisor",
          !.number = Cardinality(Submitted) + 1,
          !.supervisor = Approver(sup),
          !.routed = (Approver(sup) # sup)]]
  /\ primary' = [primary EXCEPT ![r] = sup]
  /\ Goto(q, "counted")
  /\ UNCHANGED <<tables, locks, duty, base, todo, seen, draw, hooks,
                 issued, lowNotices>>

(* findSupervisorForSection() finds no active supervisor in the section or *)
(* the division of the requester: 400.  The org chart is free, here as in  *)
(* the choice of sup above.                                                *)
RefuseCreate(q, r, u) ==
  /\ Arrives(q, "create", r, u)
  /\ req[r].status = "absent"
  /\ \A p \in Requests : job[p].kind = "create" => Target(p) # r
  /\ End(q, "refused")
  /\ UNCHANGED <<tables, duty, history>>

(* request_number is UNIQUE: the INSERT fails when the number is taken.    *)
NumberNeverTaken(n) == FALSE            \* mutant: no UNIQUE constraint

NumberTaken(n) == \E r \in Reqs : req[r].number = n

InsertRequisition(q) ==
  /\ pc[q] = "counted"
  /\ IF NumberTaken(mine[q].row.number)
     THEN /\ End(q, "failed")
          /\ UNCHANGED req
     ELSE /\ req' = [req EXCEPT ![Target(q)] = mine[q].row]
          /\ Goto(q, "inserted")
          /\ UNCHANGED <<mine, base, todo, seen, draw, hooks, locks>>
  /\ UNCHANGED <<itemRows, link, approvals, asset, audit, duty, job, history>>

InsertItems(q) ==
  /\ pc[q] = "inserted"
  /\ itemRows' = itemRows \cup ItemsOf(Target(q))
  /\ Goto(q, "saved")
  /\ UNCHANGED <<req, link, approvals, asset, audit, locks, duty, job, mine,
                 base, todo, seen, draw, hooks, history>>

-----------------------------------------------------------------------------
(* approve(), reject() and putOnHold(): read and check ...                 *)

ScopeIgnored(copy, role) == TRUE        \* mutant: no assertItemsInScope()

InScope(copy, role) ==
  \A i \in copy.items : ItemType[i] \in AssetTypeScope(role)

MayDecide(row, u) ==
  /\ row.status = "pending_supervisor"
  /\ \/ Role[u] = "system_admin"
     \/ row.supervisor \in {None, u}

(* The conditions under which an operation goes on after findOne().        *)
AcceptsUndecided(kind, copy, u) ==      \* mutant: only the end is final
  \/ kind \in {"approve", "reject"} /\ MayDecide(copy.row, u)
  \/ /\ kind \in {"hold", "fulfill"}
     /\ copy.row.status \notin {"absent", "fulfilled", "rejected"}
     /\ InScope(copy, Role[u])

Accepts(kind, copy, u) ==
  \/ kind \in {"approve", "reject"} /\ MayDecide(copy.row, u)
  \/ /\ kind = "hold"
     /\ copy.row.status = "pending_fulfillment"
     /\ InScope(copy, Role[u])
  \/ /\ kind = "fulfill"
     /\ copy.row.status \in Fulfillable
     /\ InScope(copy, Role[u])

AfterRead(kind) ==
  CASE kind \in {"approve", "reject"} -> "checked"
    [] kind = "hold"                  -> "deciding"
    [] kind = "fulfill"               -> "link"

Read(q, kind, r, u, dto) ==
  /\ Arrives(q, kind, r, u)
  /\ kind # "create"
  /\ Accepts(kind, Loaded(r), u)
  /\ mine' = [mine EXCEPT ![q] = Loaded(r)]
  /\ todo' = [todo EXCEPT ![q] = IF kind = "fulfill" THEN dto ELSE <<>>]
  /\ Goto(q, AfterRead(kind))
  /\ UNCHANGED <<tables, locks, duty, base, seen, draw, hooks, history>>

Refuse(q, kind, r, u) ==
  /\ Arrives(q, kind, r, u)
  /\ kind # "create"
  /\ ~Accepts(kind, Loaded(r), u)
  /\ End(q, "refused")
  /\ UNCHANGED <<tables, duty, history>>

(* ... record the decision ...                                             *)
Decision(q) == IF job[q].kind = "approve" THEN "approved" ELSE "rejected"

RecordDecision(q) ==
  /\ pc[q] = "checked"
  /\ approvals' = approvals \cup
       {[request |-> q, req |-> Target(q), approver |-> job[q].actor,
         action |-> Decision(q)]}
  /\ Goto(q, "deciding")
  /\ UNCHANGED <<req, itemRows, link, asset, audit, locks, duty, job, mine,
                 base, todo, seen, draw, hooks, history>>

(* ... and save the requisition: the copy with its new columns.            *)
OutcomeStatusForgotten(q, row) ==       \* mutant: reject() sets no status
  CASE job[q].kind = "approve" ->
         [row EXCEPT !.status = "pending_fulfillment", !.decision = "approved"]
    [] job[q].kind = "reject" -> [row EXCEPT !.decision = "rejected"]
    [] job[q].kind = "hold" -> [row EXCEPT !.status = "on_hold"]
    [] job[q].kind = "fulfill" ->
         [row EXCEPT !.status = "fulfilled", !.fulfiller = job[q].actor]

Outcome(q, row) ==
  CASE job[q].kind = "approve" ->
         [row EXCEPT !.status = "pending_fulfillment", !.decision = "approved"]
    [] job[q].kind = "reject" ->
         [row EXCEPT !.status = "rejected", !.decision = "rejected"]
    [] job[q].kind = "hold" -> [row EXCEPT !.status = "on_hold"]
    [] job[q].kind = "fulfill" ->
         [row EXCEPT !.status = "fulfilled", !.fulfiller = job[q].actor]

(* save() loads the row and its lines again.                               *)
LoadForSave(q) ==
  /\ \/ pc[q] = "deciding" /\ Goto(q, "saving")
     \/ pc[q] = "link" /\ todo[q] = <<>> /\ Goto(q, "reloaded")
  /\ base' = [base EXCEPT ![q] = Loaded(Target(q))]
  /\ mine' = [mine EXCEPT ![q].row = Outcome(q, @)]
  /\ UNCHANGED <<tables, locks, duty, job, todo, seen, draw, hooks, history>>

(* A line inserted after the copy was read looks removed to save(), which  *)
(* would set its NOT NULL requisition_id to null: the UPDATE fails.        *)
Orphans(q) == base[q].items \ mine[q].items

ItemsFree(q) ==
  \A i \in CascadedItems(base[q], mine[q]) : itemLock[i] \in {None, q}

(* The UPDATEs save() issues for the requisition and its lines.            *)
WriteSaved(q) ==
  /\ req' = [req EXCEPT ![Target(q)] = SavedRow(@, base[q].row, mine[q].row)]
  /\ link' = SavedLink(base[q], mine[q])

Save(q) ==
  /\ pc[q] = "saving"
  /\ Orphans(q) = {}
  /\ ItemsFree(q)
  /\ WriteSaved(q)
  /\ Goto(q, "saved")
  /\ UNCHANGED <<itemRows, approvals, asset, audit, locks, duty, job, mine,
                 base, todo, seen, draw, hooks, history>>

SaveFails(q) ==
  /\ pc[q] \in {"saving", "reloaded"}
  /\ Orphans(q) # {}
  /\ End(q, "failed")
  /\ UNCHANGED <<tables, duty, job, history>>

(* The notifications go out and the audit entry is written, last.          *)
Finish(q) ==
  /\ pc[q] = "saved"
  /\ hooks[q] = <<>>
  /\ audit' = Audited(q)
  /\ End(q, "done")
  /\ UNCHANGED <<req, itemRows, link, approvals, asset, duty, job, history>>

-----------------------------------------------------------------------------
(***************************************************************************)
(* fulfill(): the transaction.  Its writes stay in mine, seen and draw     *)
(* until the commit; the row locks it takes are visible at once.  For each *)
(* fulfilledItems entry:                                                   *)
(*   - UPDATE requisition_items SET fulfilled_asset_id locks the line, and *)
(*     its foreign key takes a FOR KEY SHARE lock on the asset;            *)
(*   - for a supply line, SELECT ... FOR UPDATE on the asset, which waits  *)
(*     for every other transaction's lock on that row, shared ones too.    *)
(***************************************************************************)
Entry(q) == Head(todo[q])

UpdateItem(q) ==
  /\ pc[q] = "link" /\ todo[q] # <<>>
  /\ LET i == Entry(q).item
         s == Entry(q).asset
     IN \/ /\ i \notin mine[q].items            \* not on this requisition: 400
           /\ End(q, "refused")
        \/ /\ i \in mine[q].items
           /\ itemLock[i] \in {None, q}
           /\ itemLock' = [itemLock EXCEPT ![i] = q]
           /\ mine' = [mine EXCEPT ![q].link[i] = s]
           /\ Goto(q, "fk")
           /\ UNCHANGED <<base, todo, seen, draw, hooks, keyShare, rowLock>>
  /\ UNCHANGED <<tables, duty, job, history>>

(* The foreign key is checked only when the column changes.                *)
CheckForeignKey(q) ==
  /\ pc[q] = "fk"
  /\ LET i == Entry(q).item
         s == Entry(q).asset
     IN /\ \/ /\ link[i] # s
              /\ rowLock[s] \in {None, q}
              /\ keyShare' = [keyShare EXCEPT ![s] = @ \cup {q}]
           \/ /\ link[i] = s
              /\ UNCHANGED keyShare
        /\ IF ItemClass[i] = "IES"
           THEN Goto(q, "stock") /\ UNCHANGED todo
           ELSE Goto(q, "link") /\ todo' = [todo EXCEPT ![q] = Tail(@)]
  /\ UNCHANGED <<tables, duty, job, mine, base, seen, draw, hooks, itemLock,
                 rowLock, history>>

LockSkipped(q, s) == TRUE               \* mutant: no pessimistic lock

MayLock(q, s) == rowLock[s] \in {None, q} /\ keyShare[s] \subseteq {q}

(* The quantity the transaction sees: its own writes included.             *)
OnHand(q, s) ==
  IF rowLock[s] = q THEN seen[q][s] - draw[q][s] ELSE asset[s].quantity

EnoughAssumed(q, i, s) == TRUE          \* mutant: no stock check

Enough(q, i, s) == Quantity[i] <= OnHand(q, s)

DrawStock(q) ==
  /\ pc[q] = "stock"
  /\ LET i == Entry(q).item
         s == Entry(q).asset
     IN /\ MayLock(q, s)
        /\ \/ /\ ~Enough(q, i, s)                \* insufficient stock: 400
              /\ End(q, "refused")
           \/ /\ Enough(q, i, s)
              /\ seen' = [seen EXCEPT ![q][s] = OnHand(q, s) + draw[q][s]]
              /\ draw' = [draw EXCEPT ![q][s] = @ + Quantity[i]]
              /\ rowLock' = [rowLock EXCEPT ![s] = q]
              /\ todo' = [todo EXCEPT ![q] = Tail(@)]
              /\ hooks' = [hooks EXCEPT ![q] = Append(@, s)]
              /\ Goto(q, "link")
              /\ UNCHANGED <<mine, base, itemLock, keyShare>>
  /\ UNCHANGED <<tables, duty, job, history>>

CommitFulfill(q) ==
  /\ pc[q] = "reloaded"
  /\ Orphans(q) = {}
  /\ ItemsFree(q)
  /\ WriteSaved(q)
  /\ asset' = [s \in Assets |->
                 IF draw[q][s] = 0 THEN asset[s]
                 ELSE [asset[s] EXCEPT !.quantity = seen[q][s] - draw[q][s]]]
  /\ issued' = [s \in Assets |-> issued[s] + draw[q][s]]
  /\ Release(q)
  /\ Goto(q, "saved")
  /\ UNCHANGED <<itemRows, approvals, audit, duty, job, mine, base, todo,
                 seen, draw, hooks, primary, lowNotices>>

(***************************************************************************)
(* The low-stock hook of each drawn asset runs after the commit.           *)
(***************************************************************************)
NeedsAlertBelow(s) ==                   \* mutant: off by one
  /\ s \in Supplies
  /\ ~asset[s].alerted
  /\ asset[s].quantity < Threshold[s]

NeedsAlert(s) ==
  /\ s \in Supplies
  /\ ~asset[s].alerted
  /\ asset[s].quantity <= Threshold[s]

PopHook(q) == hooks' = [hooks EXCEPT ![q] = Tail(@)]

RunHook(q) ==
  /\ pc[q] = "saved" /\ hooks[q] # <<>>
  /\ LET s == Head(hooks[q])
     IN \/ /\ NeedsAlert(s)
           /\ lowNotices' = [lowNotices EXCEPT ![s] = @ + 1]
           /\ Goto(q, "alerted")
           /\ UNCHANGED hooks
        \/ /\ ~NeedsAlert(s)
           /\ PopHook(q)
           /\ UNCHANGED <<pc, lowNotices>>
  /\ UNCHANGED <<tables, locks, duty, job, mine, base, todo, seen, draw,
                 primary, issued>>

StampAlert(q) ==
  /\ pc[q] = "alerted"
  /\ LET s == Head(hooks[q])
     IN /\ rowLock[s] = None
        /\ asset' = [asset EXCEPT ![s].alerted = TRUE]
  /\ PopHook(q)
  /\ Goto(q, "saved")
  /\ UNCHANGED <<req, itemRows, link, approvals, audit, locks, duty, job,
                 mine, base, todo, seen, draw, history>>

(* An error inside the hook is logged and swallowed.                       *)
HookFails(q) ==
  /\ Faults
  /\ pc[q] \in {"saved", "alerted"} /\ hooks[q] # <<>>
  /\ PopHook(q)
  /\ Goto(q, "saved")
  /\ UNCHANGED <<tables, locks, duty, job, mine, base, todo, seen, draw,
                 history>>

-----------------------------------------------------------------------------
(* What the environment does.                                              *)

(* An await throws, or the server restarts: the request is gone and its    *)
(* open transaction is rolled back; what it had written stays.             *)
Fail(q) ==
  /\ Faults
  /\ InProgress(q)
  /\ End(q, "failed")
  /\ UNCHANGED <<tables, duty, job, history>>

(* q waits for a lock that p holds.                                        *)
WaitsFor(q, p) ==
  /\ p # q
  /\ \/ /\ pc[q] = "link" /\ todo[q] # <<>>
        /\ Entry(q).item \in mine[q].items /\ itemLock[Entry(q).item] = p
     \/ /\ pc[q] = "fk" /\ link[Entry(q).item] # Entry(q).asset
        /\ rowLock[Entry(q).asset] = p
     \/ /\ pc[q] = "stock"
        /\ \/ rowLock[Entry(q).asset] = p
           \/ p \in keyShare[Entry(q).asset]
     \/ /\ pc[q] \in {"saving", "reloaded"}
        /\ \E i \in CascadedItems(base[q], mine[q]) : itemLock[i] = p

(* A cycle of waiting transactions: each waits for one of them, and is     *)
(* waited for by one of them.                                              *)
Deadlocked(q) ==
  \E S \in SUBSET Requests :
    /\ q \in S
    /\ \A p \in S : /\ \E o \in S : WaitsFor(p, o)
                    /\ \E o \in S : WaitsFor(o, p)

(* PostgreSQL breaks a cycle by aborting one of its transactions.          *)
DeadlockVictim(q) ==
  /\ Deadlocked(q)
  /\ End(q, "killed")
  /\ UNCHANGED <<tables, duty, job, history>>

(* A user goes away or comes back, or an administrator deactivates or      *)
(* reactivates them.                                                       *)
SetDuty(u, d) ==
  /\ u \in Absentees
  /\ duty[u] # d
  /\ duty' = [duty EXCEPT ![u] = d]
  /\ UNCHANGED <<tables, locks, handlers, history>>

-----------------------------------------------------------------------------
Submit ==
  \E q \in Requests, r \in Reqs, u \in Users :
    \/ \E sup \in Users : BeginCreate(q, r, u, sup)
    \/ RefuseCreate(q, r, u)

Open ==
  \E q \in Requests, r \in Reqs, u \in Users, kind \in Kinds :
    \/ \E dto \in Dtos \cup {<<>>} : Read(q, kind, r, u, dto)
    \/ Refuse(q, kind, r, u)

(* What a request in progress does next, unless it fails.                  *)
Proceed(q) ==
  \/ InsertRequisition(q) \/ InsertItems(q)
  \/ RecordDecision(q) \/ LoadForSave(q) \/ Save(q) \/ SaveFails(q)
  \/ UpdateItem(q) \/ CheckForeignKey(q) \/ DrawStock(q) \/ CommitFulfill(q)
  \/ RunHook(q) \/ StampAlert(q) \/ Finish(q)
  \/ DeadlockVictim(q)

Disturb(q) == HookFails(q) \/ Fail(q)

(* No request is in progress: the server waits for the next one.           *)
Idle == (\A q \in Requests : ~InProgress(q)) /\ UNCHANGED vars

Next ==
  \/ Submit \/ Open
  \/ \E q \in Requests : Proceed(q) \/ Disturb(q)
  \/ \E u \in Users, d \in {"present", "away", "inactive"} : SetDuty(u, d)
  \/ Idle

Spec == Init /\ [][Next]_vars

(* Node.js keeps running the continuations of the requests it has taken.   *)
FairSpec == Spec /\ \A q \in Requests : WF_vars(Proceed(q))

-----------------------------------------------------------------------------
(* Types.                                                                  *)
TypeOK ==
  /\ req \in [Reqs -> Row]
  /\ itemRows \subseteq Items
  /\ link \in [Items -> Assets \cup {None}]
  /\ approvals \subseteq Approval
  /\ asset \in [Assets -> AssetRow]
  /\ audit \subseteq [request: Requests \cup {None}, req: Reqs,
                      action: Kinds \cup {"reassign"}]
  /\ itemLock \in [Items -> Requests \cup {None}]
  /\ keyShare \in [Assets -> SUBSET Requests]
  /\ rowLock \in [Assets -> Requests \cup {None}]
  /\ duty \in [Users -> {"present", "away", "inactive"}]
  /\ pc \in [Requests -> Pcs]
  /\ job \in [Requests -> Job]
  /\ mine \in [Requests -> Copy]
  /\ base \in [Requests -> Copy]
  /\ todo \in [Requests -> Seq([item: Items, asset: Assets])]
  /\ seen \in [Requests -> [Assets -> Nat]]
  /\ draw \in [Requests -> [Assets -> Nat]]
  /\ hooks \in [Requests -> Seq(Assets)]
  /\ primary \in [Reqs -> Users \cup {None}]
  /\ issued \in [Assets -> Nat]
  /\ lowNotices \in [Assets -> Nat]
-----------------------------------------------------------------------------
(* Properties that hold however requests overlap and fail.                 *)

HasDecision(r, d) == \E a \in approvals : a.req = r /\ a.action = d

(***************************************************************************)
(* Nothing is fulfilled, held or waiting for fulfilment without an         *)
(* 'approved' row in the immutable approvals table, and nothing is         *)
(* rejected without a 'rejected' row: approve() and reject() insert the    *)
(* row in one statement and move the requisition in a later one, and every *)
(* other handler writes back a copy it read some time ago.                 *)
(***************************************************************************)
DecisionOnRecord ==
  \A r \in Reqs :
    /\ req[r].status \in {"pending_fulfillment", "on_hold", "fulfilled"}
         => HasDecision(r, "approved")
    /\ req[r].status = "rejected" => HasDecision(r, "rejected")

(***************************************************************************)
(* No decrement is lost and no stock is invented: what an asset has left   *)
(* and what committed fulfilments took from it always add up to what there *)
(* was.  This is what the pessimistic lock in fulfill() is for.            *)
(***************************************************************************)
StockAccounted ==
  \A s \in Assets : asset[s].quantity + issued[s] = Stock[s]

(***************************************************************************)
(* An open transaction's view of a supply it drew from is still the row's  *)
(* quantity, and covers what it is about to take: the insufficient-stock   *)
(* guard cannot be bypassed, and a commit never makes a quantity negative. *)
(***************************************************************************)
GuardStillHolds ==
  \A q \in Requests, s \in Assets :
    draw[q][s] > 0 /\ pc[q] \in {"link", "fk", "stock", "reloaded"} =>
      /\ rowLock[s] = q
      /\ seen[q][s] = asset[s].quantity
      /\ draw[q][s] <= asset[s].quantity

(***************************************************************************)
(* While no await throws, a supply that fulfilments drew down to its       *)
(* reorder level is stamped, and somebody was told, as soon as no request  *)
(* that committed has its hook still to run: whichever hooks interleave,   *)
(* the last one sees every decrement.                                      *)
(***************************************************************************)
LowStockNoticed ==
  \A s \in Supplies :
    /\ issued[s] > 0
    /\ asset[s].quantity <= Threshold[s]
    /\ \A q \in Requests : pc[q] \in {"saved", "alerted"} =>
         \A n \in DOMAIN hooks[q] : hooks[q][n] # s
    => asset[s].alerted /\ lowNotices[s] > 0

(***************************************************************************)
(* Request numbers have no gaps: create() numbers a requisition one above  *)
(* a count it took earlier, the UNIQUE constraint makes the loser of a     *)
(* race fail, and the failed number is given out again.                    *)
(***************************************************************************)
NumbersDense ==
  {req[r].number : r \in Submitted} = 1..Cardinality(Submitted)

(***************************************************************************)
(* A requisition that left the supervisor's queue never comes back to it,  *)
(* whatever stale copy is saved over it.                                   *)
(***************************************************************************)
NeverReopened ==
  [][\A r \in Reqs :
       req'[r].status = "pending_supervisor" =>
         req[r].status \in {"absent", "pending_supervisor"}]_vars

(* Where a requisition is before anybody has decided on it.                *)
Undecided == {"absent", "pending_supervisor"}

(***************************************************************************)
(* The audit log tells the truth: though an entry is written some awaits   *)
(* after the change it reports, and other requests save stale copies over  *)
(* that change, a requisition with an entry is there, a decision that was  *)
(* logged is in the approvals table by the very request that logged it,    *)
(* and a requisition somebody is on record to have decided, held or        *)
(* fulfilled is never found undecided.                                     *)
(***************************************************************************)
AuditTellsTruth ==
  \A e \in audit :
    /\ e.req \in Submitted
    /\ e.action \in {"approve", "reject"} =>
         \E a \in approvals :
           /\ a.request = e.request /\ a.req = e.req
           /\ a.action = IF e.action = "approve" THEN "approved" ELSE "rejected"
    /\ e.action \in {"approve", "reject", "hold", "fulfill"} =>
         req[e.req].status \notin Undecided

(* The operation that leaves a requisition with a status.                  *)
Doing ==
  [pending_supervisor |-> "create", pending_fulfillment |-> "approve",
   rejected |-> "reject", on_hold |-> "hold", fulfilled |-> "fulfill"]

(***************************************************************************)
(* No change goes unlogged but by a failure: the status a requisition has  *)
(* is in the audit log as somebody's operation, or the request whose       *)
(* operation it was is still on its way to log it, or it was cut short by  *)
(* an await that threw after the row was written.                          *)
(***************************************************************************)
ChangesLogged ==
  \A r \in Reqs :
    req[r].status # Seed[r] =>
      \E q \in Requests :
        /\ Target(q) = r /\ job[q].kind = Doing[req[r].status]
        /\ \/ [request |-> q, req |-> r, action |-> job[q].kind] \in audit
           \/ pc[q] \in {"inserted", "saved", "alerted"}
           \/ Faults /\ pc[q] = "failed"

(***************************************************************************)
(* A request that is taken ends: no interleaving of the row locks that     *)
(* fulfill() takes line by line leaves it waiting for ever.                *)
(***************************************************************************)
EveryRequestEnds ==
  \A q \in Requests : InProgress(q) ~> ~InProgress(q)

(***************************************************************************)
(* When no two requests on the same requisition overlap, the handlers      *)
(* implement the workflow, whatever fails in between and however the       *)
(* requests on other requisitions compete for the same supplies.           *)
(***************************************************************************)
Workflow ==
  INSTANCE RequisitionWorkflow
    WITH status <- [r \in Reqs |-> req[r].status],
         decision <- [r \in Reqs |-> req[r].decision],
         linked <- link,
         quantity <- [s \in Assets |-> asset[s].quantity]

ImplementsWorkflow == Workflow!Spec

(***************************************************************************)
(* When they do overlap, the handlers still keep the ledger: nothing an    *)
(* interleaving, a failure or a stale save can do is not one of its steps. *)
(***************************************************************************)
Ledger ==
  INSTANCE RequisitionLedger
    WITH Administrators <- {u \in Users : Role[u] = "system_admin"},
         status <- [r \in Reqs |-> req[r].status],
         verdicts <- {[req |-> a.req, by |-> a.approver, action |-> a.action] :
                        a \in approvals},
         holder <- [r \in Reqs |-> req[r].supervisor],
         first <- [r \in Reqs |-> IF req[r].status = "absent" THEN None
                                  ELSE primary[r]],
         quantity <- [s \in Assets |-> asset[s].quantity]

KeepsLedger == Ledger!Spec

(***************************************************************************)
(* Whoever fulfils a requisition has authority over every line of it, even *)
(* though the check looks at lines read before the transaction.            *)
(***************************************************************************)
FulfilledInScope ==
  \A r \in Reqs :
    req[r].fulfiller # None =>
      \A i \in itemRows \cap ItemsOf(r) :
        ItemType[i] \in AssetTypeScope(Role[req[r].fulfiller])

-----------------------------------------------------------------------------
(* What the repository says and the code does not do when requests on the  *)
(* same requisition or the same supply overlap.                            *)

(* fulfill(): "Status: pending_fulfillment | on_hold -> fulfilled".  A      *)
(* second fulfilment of the same requisition commits as well, and takes    *)
(* its stock again.                                                        *)
StockTakenFromFulfillable ==
  [][\A q \in Requests :
       CommitFulfill(q) /\ issued' # issued =>
         req[Target(q)].status \in Fulfillable]_vars

(* The pessimistic lock "serialises concurrent fulfillments drawing from   *)
(* the same supply row".  The link's foreign key has locked that row in    *)
(* share mode before, so two of them may wait for each other, and          *)
(* PostgreSQL aborts one.                                                  *)
FulfillmentsSerialise == \A q \in Requests : pc[q] # "killed"
=============================================================================
