------------------------- MODULE Requisitions_proofs -------------------------
(***************************************************************************)
(* Theorems about Requisitions, for every value of its constants: its      *)
(* safety, and, at the end, that it implements RequisitionWorkflow.        *)
(***************************************************************************)
EXTENDS Requisitions, FiniteSetTheorems, SequenceTheorems, TLAPS

-----------------------------------------------------------------------------
(* The inductive invariant.                                                *)

Transaction == {"link", "fk", "stock", "reloaded"}

(* What the place a request is at says of what it was asked and holds.     *)
ControlAt(q) ==
  /\ pc[q] # "idle" => job[q].kind \in Kinds /\ Target(q) \in Reqs
  /\ pc[q] \in {"counted", "inserted"} => job[q].kind = "create"
  /\ pc[q] = "checked" => job[q].kind \in {"approve", "reject"}
  /\ pc[q] \in {"deciding", "saving"} =>
       job[q].kind \in {"approve", "reject", "hold"}
  /\ pc[q] \in Transaction => job[q].kind = "fulfill"
  /\ pc[q] \in {"fk", "stock"} => todo[q] # <<>>
  /\ pc[q] = "alerted" => hooks[q] # <<>>
  /\ pc[q] = "idle" => draw[q] = Nothing
  /\ pc[q] = "counted" => mine[q].row.status = "pending_supervisor"

Control == \A q \in Requests : ControlAt(q)

(* A row lock on an asset belongs to an open transaction that drew from    *)
(* it, and what that transaction read under the lock is still the truth.   *)
HeldAt(q, s) ==
  /\ rowLock[s] = q => pc[q] \in Transaction /\ draw[q][s] > 0
  /\ draw[q][s] > 0 /\ pc[q] \in Transaction =>
       /\ rowLock[s] = q
       /\ seen[q][s] = asset[s].quantity
       /\ draw[q][s] <= asset[s].quantity

Held == \A q \in Requests, s \in Assets : HeldAt(q, s)

IInv == TypeOK /\ Control /\ Held

-----------------------------------------------------------------------------
(* The initial rows, locks and requests have their types.                  *)
LEMMA InitTypeOK == Init => TypeOK
<1> SUFFICES ASSUME Init PROVE TypeOK
  OBVIOUS
<1> USE StoreAssumption, RequestAssumption
<1>1. Cardinality(Reqs) \in Nat
  BY FS_CardinalityType
<1>2. PICK number \in [Reqs -> 0..Cardinality(Reqs)], sup \in [Reqs -> Users] :
        SeedRows(number, sup)
  BY DEF Init
<1>4. \A r \in Reqs : SeedRow(r, number[r], sup[r]) \in Row
  <2> TAKE r \in Reqs
  <2>1. number[r] \in Nat /\ sup[r] \in Users
    BY <1>1
  <2>2. Seed[r] \in {"absent", "pending_supervisor", "pending_fulfillment"}
    OBVIOUS
  <2> QED
    BY <2>1, <2>2 DEF SeedRow, NoRow, Row, RequisitionStatus
<1>5. approvals \subseteq Approval
  BY <1>2 DEF Approval, SeedRows
<1>3. NoCopy \in Copy
  BY DEF NoCopy, Copy, NoRow, Row
<1> QED
  BY <1>2, <1>3, <1>4, <1>5 DEF SeedRows, Init, TypeOK, AssetRow, Pcs, Job, NoJob, Nothing, Ended

-----------------------------------------------------------------------------
(* TypeOK is preserved.                                                    *)

(* A request that moves to a known place leaves pc well typed.             *)
LEMMA GotoTyped ==
  ASSUME TypeOK, NEW q \in Requests, NEW label \in Pcs, Goto(q, label)
  PROVE  pc' \in [Requests -> Pcs]
BY DEF Goto, TypeOK

(* A request that ends, whatever its answer, leaves its own variables and  *)
(* the locks it gives up well typed.                                       *)
LEMMA EndTyped ==
  ASSUME TypeOK, NEW q \in Requests, NEW label \in Ended, End(q, label)
  PROVE  /\ pc' \in [Requests -> Pcs]
         /\ mine' \in [Requests -> Copy] /\ base' \in [Requests -> Copy]
         /\ todo' \in [Requests -> Seq([item: Items, asset: Assets])]
         /\ seen' \in [Requests -> [Assets -> Nat]]
         /\ draw' \in [Requests -> [Assets -> Nat]]
         /\ hooks' \in [Requests -> Seq(Assets)]
         /\ itemLock' \in [Items -> Requests \cup {None}]
         /\ keyShare' \in [Assets -> SUBSET Requests]
         /\ rowLock' \in [Assets -> Requests \cup {None}]
<1>1. NoCopy \in Copy
  BY DEF NoCopy, Copy, NoRow, Row
<1>2. Nothing \in [Assets -> Nat]
  BY DEF Nothing
<1>3. /\ itemLock' \in [Items -> Requests \cup {None}]
      /\ keyShare' \in [Assets -> SUBSET Requests]
      /\ rowLock' \in [Assets -> Requests \cup {None}]
  BY DEF End, Release, TypeOK
<1>4. /\ pc' \in [Requests -> Pcs]
      /\ mine' \in [Requests -> Copy] /\ base' \in [Requests -> Copy]
  BY <1>1 DEF End, Goto, TypeOK, Pcs
<1>5. /\ todo' \in [Requests -> Seq([item: Items, asset: Assets])]
      /\ hooks' \in [Requests -> Seq(Assets)]
  <2>1. <<>> \in Seq([item: Items, asset: Assets]) /\ <<>> \in Seq(Assets)
    OBVIOUS
  <2> QED
    BY <2>1 DEF End, TypeOK
<1>6. /\ seen' \in [Requests -> [Assets -> Nat]]
      /\ draw' \in [Requests -> [Assets -> Nat]]
  BY <1>2 DEF End, TypeOK
<1> QED
  BY <1>3, <1>4, <1>5, <1>6

(* What save() writes is a row, when what it compares are rows.            *)
LEMMA SavedRowTyped ==
  ASSUME NEW row \in Row, NEW b \in Row, NEW m \in Row
  PROVE  /\ SavedRow(row, b, m) \in Row
         /\ SavedRow(row, b, m).status \in {row.status, m.status}
BY DEF SavedRow, Row, Columns

(* The row POST /requisitions inserts is a row, whoever the approver is.   *)
LEMMA NewRowTyped ==
  ASSUME NEW n \in Nat, NEW a \in Users, NEW b \in BOOLEAN
  PROVE  [NoRow EXCEPT !.status = "pending_supervisor", !.number = n,
            !.supervisor = a, !.routed = b] \in Row
BY DEF NoRow, Row, RequisitionStatus

(* The fulfilledItems entry a transaction is working on, and the rest.     *)
LEMMA EntryTyped ==
  ASSUME TypeOK, NEW q \in Requests, todo[q] # <<>>
  PROVE  /\ Entry(q).item \in Items /\ Entry(q).asset \in Assets
         /\ Tail(todo[q]) \in Seq([item: Items, asset: Assets])
<1>1. todo[q] \in Seq([item: Items, asset: Assets])
  BY DEF TypeOK
<1>2. /\ Head(todo[q]) \in [item: Items, asset: Assets]
      /\ Tail(todo[q]) \in Seq([item: Items, asset: Assets])
  BY <1>1, HeadTailProperties
<1> QED
  BY <1>2 DEF Entry

(* A request that changes the row of its copy leaves a copy well typed.    *)
LEMMA RowReplaced ==
  ASSUME TypeOK, NEW q \in Requests, NEW row \in Row
  PROVE  [mine EXCEPT ![q].row = row] \in [Requests -> Copy]
<1>1. mine[q] \in Copy
  BY DEF TypeOK
<1>2. [mine[q] EXCEPT !.row = row] \in Copy
  BY <1>1 DEF Copy
<1> QED
  BY <1>2 DEF TypeOK

(* What findOne returns is a copy.                                         *)
LEMMA LoadedTyped ==
  ASSUME TypeOK, NEW r \in Reqs
  PROVE  Loaded(r) \in Copy
BY DEF TypeOK, Loaded, Copy

(* save() keeps the two tables it writes well typed.                       *)
LEMMA WriteSavedTyped ==
  ASSUME TypeOK, NEW q \in Requests, WriteSaved(q)
  PROVE  /\ req' \in [Reqs -> Row]
         /\ link' \in [Items -> Assets \cup {None}]
<1>1. mine[q] \in Copy /\ base[q] \in Copy
  BY DEF TypeOK
<1>2. mine[q].row \in Row /\ base[q].row \in Row
      /\ mine[q].link \in [Items -> Assets \cup {None}]
  BY <1>1 DEF Copy
<1>3. ASSUME NEW r \in Reqs
      PROVE  SavedRow(req[r], base[q].row, mine[q].row) \in Row
  BY <1>2, SavedRowTyped DEF TypeOK
<1> QED
  BY <1>2, <1>3 DEF WriteSaved, SavedLink, TypeOK

(* Every step preserves TypeOK.                                            *)
LEMMA NextTypeOK ==
  ASSUME TypeOK, Control, Held, [Next]_vars
  PROVE  TypeOK'
<1> USE StoreAssumption, RequestAssumption
<1>1. ASSUME NEW q \in Requests, NEW r \in Reqs, NEW u \in Users,
             NEW sup \in Users, BeginCreate(q, r, u, sup)
      PROVE  TypeOK'
  <2>1. Cardinality(Submitted) \in Nat
    BY FS_Subset, FS_CardinalityType DEF Submitted
  <2>2. Approver(sup) \in Users
    BY DEF Approver, UsableAlternate
  <2>3. [NoRow EXCEPT !.status = "pending_supervisor",
          !.number = Cardinality(Submitted) + 1,
          !.supervisor = Approver(sup),
          !.routed = (Approver(sup) # sup)] \in Row
    <3>1. (Approver(sup) # sup) \in BOOLEAN
      OBVIOUS
    <3>2. Cardinality(Submitted) + 1 \in Nat
      BY <2>1
    <3> HIDE StoreAssumption, RequestAssumption
    <3> QED
      BY <2>2, <3>1, <3>2, NewRowTyped, Zenon
  <2>4. mine' \in [Requests -> Copy]
    BY <1>1, <2>3, RowReplaced DEF BeginCreate, TypeOK
  <2>5. job' \in [Requests -> Job] /\ pc' \in [Requests -> Pcs]
        /\ primary' \in [Reqs -> Users \cup {None}]
    BY <1>1 DEF BeginCreate, Arrives, Goto, TypeOK, Job, Pcs
  <2> QED
    BY <1>1, <2>4, <2>5
    DEF BeginCreate, TypeOK, tables, locks
<1>2. ASSUME NEW q \in Requests, NEW r \in Reqs, NEW u \in Users,
             RefuseCreate(q, r, u)
      PROVE  TypeOK'
  <2>1. job' \in [Requests -> Job]
    BY <1>2 DEF RefuseCreate, Arrives, TypeOK, Job
  <2> QED
    BY <1>2, <2>1, EndTyped
    DEF RefuseCreate, TypeOK, tables, history, Ended
<1>3. ASSUME NEW q \in Requests, NEW kind \in Kinds, NEW r \in Reqs,
             NEW u \in Users, NEW dto \in Dtos \cup {<<>>},
             Read(q, kind, r, u, dto)
      PROVE  TypeOK'
  <2>1. job' \in [Requests -> Job]
    BY <1>3 DEF Read, Arrives, TypeOK, Job
  <2>2. mine' \in [Requests -> Copy]
    BY <1>3, LoadedTyped DEF Read, TypeOK
  <2>3. dto \in Seq([item: Items, asset: Assets])
        /\ <<>> \in Seq([item: Items, asset: Assets])
    <3>1. <<>> \in Seq([item: Items, asset: Assets])
      OBVIOUS
    <3>2. dto \in Dtos \/ dto = <<>>
      OBVIOUS
    <3>3. Dtos \subseteq Seq([item: Items, asset: Assets])
      OBVIOUS
    <3> QED
      BY <3>1, <3>2, <3>3
  <2>4. todo' \in [Requests -> Seq([item: Items, asset: Assets])]
    BY <1>3, <2>3 DEF Read, TypeOK
  <2>5. AfterRead(kind) \in Pcs
    BY <1>3 DEF AfterRead, Pcs, Read
  <2>6. pc' \in [Requests -> Pcs]
    BY <1>3, <2>5 DEF Read, Goto, TypeOK
  <2> QED
    BY <1>3, <2>1, <2>2, <2>4, <2>6 DEF Read, TypeOK, tables, locks, history
<1>4. ASSUME NEW q \in Requests, NEW kind \in Kinds, NEW r \in Reqs,
             NEW u \in Users, Refuse(q, kind, r, u)
      PROVE  TypeOK'
  <2>1. job' \in [Requests -> Job]
    BY <1>4 DEF Refuse, Arrives, TypeOK, Job
  <2> QED
    BY <1>4, <2>1, EndTyped DEF Refuse, TypeOK, tables, history, Ended
<1>5. ASSUME NEW q \in Requests, InsertRequisition(q)
      PROVE  TypeOK'
  <2>1. CASE NumberTaken(mine[q].row.number)
    BY <1>5, <2>1, EndTyped
    DEF InsertRequisition, TypeOK, history, Ended
  <2>2. CASE ~NumberTaken(mine[q].row.number)
    <3>1. mine[q].row \in Row
      BY DEF TypeOK, Copy
    <3>2. req' \in [Reqs -> Row] /\ pc' \in [Requests -> Pcs]
      BY ZenonT(60), <1>5, <2>2, <3>1 DEF InsertRequisition, Goto, TypeOK, Pcs
    <3> QED
      BY ZenonT(60), <1>5, <2>2, <3>2
      DEF InsertRequisition, TypeOK, locks, history
  <2> QED
    BY <2>1, <2>2
<1>6. ASSUME NEW q \in Requests, InsertItems(q)
      PROVE  TypeOK'
  <2>1. itemRows' \subseteq Items /\ pc' \in [Requests -> Pcs]
    BY <1>6 DEF InsertItems, ItemsOf, Goto, TypeOK, Pcs
  <2> QED
    BY <1>6, <2>1 DEF InsertItems, TypeOK, locks, history
<1>7. ASSUME NEW q \in Requests, RecordDecision(q)
      PROVE  TypeOK'
  <2>1. Target(q) \in Reqs /\ job[q].actor \in Users \cup {None}
    BY <1>7 DEF RecordDecision, Control, ControlAt, TypeOK, Job
  <2>2. approvals' \subseteq Approval
    BY <1>7, <2>1 DEF RecordDecision, Decision, Approval, TypeOK
  <2>3. pc' \in [Requests -> Pcs]
    BY <1>7 DEF RecordDecision, Goto, TypeOK, Pcs
  <2> QED
    BY <1>7, <2>2, <2>3 DEF RecordDecision, TypeOK, locks, history
<1>8. ASSUME NEW q \in Requests, LoadForSave(q)
      PROVE  TypeOK'
  <2>1. Target(q) \in Reqs
    BY <1>8 DEF LoadForSave, Control, ControlAt
  <2>2. base' \in [Requests -> Copy]
    BY <1>8, <2>1, LoadedTyped DEF LoadForSave, TypeOK
  <2>3. job[q].kind \in {"approve", "reject", "hold", "fulfill"}
    BY <1>8 DEF LoadForSave, Control, ControlAt, Transaction
  <2>4. job[q].actor \in Users \cup {None} /\ mine[q].row \in Row
    BY DEF TypeOK, Job, Copy
  <2>5. Outcome(q, mine[q].row) \in Row
    BY <2>3, <2>4 DEF Outcome, Row, RequisitionStatus
  <2>6. mine' \in [Requests -> Copy]
    BY <1>8, <2>5, RowReplaced DEF LoadForSave, TypeOK
  <2>7. pc' \in [Requests -> Pcs]
    <3>1. \/ pc' = [pc EXCEPT ![q] = "saving"]
          \/ pc' = [pc EXCEPT ![q] = "reloaded"]
      BY <1>8 DEF LoadForSave, Goto
    <3> QED
      BY ZenonT(60), <3>1 DEF TypeOK, Pcs
  <2> QED
    BY <1>8, <2>2, <2>6, <2>7 DEF LoadForSave, TypeOK, tables, locks, history
<1>9. ASSUME NEW q \in Requests, Save(q)
      PROVE  TypeOK'
  <2>1. pc' \in [Requests -> Pcs]
    BY <1>9 DEF Save, Goto, TypeOK, Pcs
  <2> QED
    BY <1>9, <2>1, WriteSavedTyped DEF Save, TypeOK, locks, history
<1>10. ASSUME NEW q \in Requests, SaveFails(q)
       PROVE  TypeOK'
  BY <1>10, EndTyped DEF SaveFails, TypeOK, tables, history, Ended
<1>11. ASSUME NEW q \in Requests, UpdateItem(q)
       PROVE  TypeOK'
  <2>1. Entry(q).item \in Items /\ Entry(q).asset \in Assets
    BY <1>11, EntryTyped DEF UpdateItem
  <2>2. CASE End(q, "refused")
    BY <1>11, <2>2, EndTyped DEF UpdateItem, TypeOK, tables, history, Ended
  <2>3. CASE ~End(q, "refused")
    <3> DEFINE i == Entry(q).item
               s == Entry(q).asset
               written == [mine[q].link EXCEPT ![i] = s]
    <3>1. /\ itemLock' = [itemLock EXCEPT ![i] = q]
          /\ mine' = [mine EXCEPT ![q].link[i] = s]
          /\ pc' = [pc EXCEPT ![q] = "fk"]
          /\ UNCHANGED <<base, todo, seen, draw, hooks, keyShare, rowLock>>
      BY <1>11, <2>3 DEF UpdateItem, Goto
    <3>2. mine[q] \in Copy
      BY DEF TypeOK
    <3>3. written \in [Items -> Assets \cup {None}]
      BY <2>1, <3>2 DEF Copy
    <3>4. [mine[q] EXCEPT !.link = written] \in Copy
      <4> HIDE DEF written
      <4> QED
        BY <3>2, <3>3 DEF Copy
    <3>5. mine' \in [Requests -> Copy]
      BY <3>1, <3>4 DEF TypeOK
    <3>6. itemLock' \in [Items -> Requests \cup {None}]
          /\ pc' \in [Requests -> Pcs]
      BY <3>1 DEF TypeOK, Pcs
    <3> QED
      BY <1>11, <3>1, <3>5, <3>6 DEF UpdateItem, TypeOK, tables, history
  <2> QED
    BY <2>2, <2>3
<1>12. ASSUME NEW q \in Requests, CheckForeignKey(q)
       PROVE  TypeOK'
  <2>1. keyShare' \in [Assets -> SUBSET Requests]
    <3>1. \/ keyShare' = [keyShare EXCEPT ![Entry(q).asset] = @ \cup {q}]
          \/ UNCHANGED keyShare
      BY <1>12 DEF CheckForeignKey
    <3>2. \A x \in Assets : keyShare[x] \cup {q} \in SUBSET Requests
      BY DEF TypeOK
    <3>3. keyShare \in [Assets -> SUBSET Requests]
      BY DEF TypeOK
    <3> HIDE DEF TypeOK
    <3> QED
      BY SMTT(30), <3>1, <3>2, <3>3
  <2>2. Tail(todo[q]) \in Seq([item: Items, asset: Assets])
    BY <1>12, EntryTyped DEF CheckForeignKey, Control, ControlAt
  <2>3. todo' = [todo EXCEPT ![q] = Tail(@)] \/ UNCHANGED todo
    BY <1>12 DEF CheckForeignKey
  <2>4. todo' \in [Requests -> Seq([item: Items, asset: Assets])]
    BY ZenonT(60), <2>2, <2>3 DEF TypeOK
  <2>5. pc' \in [Requests -> Pcs]
    <3>1. \/ pc' = [pc EXCEPT ![q] = "stock"]
          \/ pc' = [pc EXCEPT ![q] = "link"]
      BY <1>12 DEF CheckForeignKey, Goto
    <3> QED
      BY ZenonT(60), <3>1 DEF TypeOK, Pcs
  <2> QED
    BY <1>12, <2>1, <2>4, <2>5
    DEF CheckForeignKey, TypeOK, tables, history
<1>13. ASSUME NEW q \in Requests, DrawStock(q)
       PROVE  TypeOK'
  <2>1. PICK i \in Items, s \in Assets :
               i = Entry(q).item /\ s = Entry(q).asset
    BY <1>13, EntryTyped DEF DrawStock, Control, ControlAt
  <2>2. Tail(todo[q]) \in Seq([item: Items, asset: Assets])
    BY <1>13, EntryTyped DEF DrawStock, Control, ControlAt
  <2>3. CASE End(q, "refused")
    BY <1>13, <2>3, EndTyped DEF DrawStock, TypeOK, tables, history, Ended
  <2>4. CASE ~End(q, "refused")
    <3>1. /\ seen' = [seen EXCEPT ![q][s] = OnHand(q, s) + draw[q][s]]
          /\ draw' = [draw EXCEPT ![q][s] = @ + Quantity[i]]
          /\ rowLock' = [rowLock EXCEPT ![s] = q]
          /\ todo' = [todo EXCEPT ![q] = Tail(@)]
          /\ hooks' = [hooks EXCEPT ![q] = Append(@, s)]
          /\ pc' = [pc EXCEPT ![q] = "link"]
          /\ UNCHANGED <<mine, base, itemLock, keyShare>>
      BY <1>13, <2>1, <2>4 DEF DrawStock, Goto
    <3>2. /\ draw[q] \in [Assets -> Nat] /\ seen[q] \in [Assets -> Nat]
          /\ draw[q][s] \in Nat /\ seen[q][s] \in Nat
          /\ asset[s].quantity \in Nat
      BY DEF TypeOK, AssetRow
    <3>3. OnHand(q, s) + draw[q][s] \in Nat
      <4>1. CASE rowLock[s] = q
        BY <3>2, <4>1 DEF OnHand
      <4>2. CASE rowLock[s] # q
        BY <3>2, <4>2 DEF OnHand
      <4> QED
        BY <4>1, <4>2
    <3>4. seen' \in [Requests -> [Assets -> Nat]]
      <4>1. [seen[q] EXCEPT ![s] = OnHand(q, s) + draw[q][s]] \in [Assets -> Nat]
        BY <3>2, <3>3
      <4> QED
        BY <3>1, <4>1 DEF TypeOK
    <3>5. draw' \in [Requests -> [Assets -> Nat]]
      <4>1. draw[q][s] + Quantity[i] \in Nat
        BY <3>2
      <4>2. [draw[q] EXCEPT ![s] = draw[q][s] + Quantity[i]] \in [Assets -> Nat]
        BY <3>2, <4>1
      <4> QED
        BY <3>1, <4>2 DEF TypeOK
    <3>6. /\ todo' \in [Requests -> Seq([item: Items, asset: Assets])]
          /\ pc' \in [Requests -> Pcs]
          /\ rowLock' \in [Assets -> Requests \cup {None}]
      BY <2>2, <3>1 DEF TypeOK, Pcs
    <3>7. hooks' \in [Requests -> Seq(Assets)]
      BY <2>2, <3>1 DEF TypeOK
    <3> QED
      BY <1>13, <3>1, <3>4, <3>5, <3>6, <3>7
      DEF DrawStock, TypeOK, tables, history
  <2> QED
    BY <2>3, <2>4
<1>14. ASSUME NEW q \in Requests, CommitFulfill(q)
       PROVE  TypeOK'
  <2>1. asset' \in [Assets -> AssetRow]
    <3>1. ASSUME NEW s \in Assets, draw[q][s] # 0
          PROVE  [asset[s] EXCEPT !.quantity = seen[q][s] - draw[q][s]]
                   \in AssetRow
      <4>1. /\ draw[q][s] \in Nat /\ asset[s].quantity \in Nat
            /\ asset[s] \in AssetRow
        BY DEF TypeOK, AssetRow
      <4>2. seen[q][s] = asset[s].quantity /\ draw[q][s] <= asset[s].quantity
        BY <1>14, <3>1, <4>1 DEF CommitFulfill, Held, HeldAt, Transaction
      <4>3. seen[q][s] - draw[q][s] \in Nat
        BY <4>1, <4>2
      <4> QED
        BY <4>1, <4>3 DEF AssetRow
    <3>2. asset' = [s \in Assets |->
                      IF draw[q][s] = 0 THEN asset[s]
                      ELSE [asset[s] EXCEPT
                              !.quantity = seen[q][s] - draw[q][s]]]
      BY <1>14 DEF CommitFulfill
    <3> QED
      BY <3>1, <3>2 DEF TypeOK
  <2>2. issued' \in [Assets -> Nat]
    BY <1>14 DEF CommitFulfill, TypeOK
  <2>3. /\ itemLock' \in [Items -> Requests \cup {None}]
        /\ keyShare' \in [Assets -> SUBSET Requests]
        /\ rowLock' \in [Assets -> Requests \cup {None}]
    BY <1>14 DEF CommitFulfill, Release, TypeOK
  <2>4. pc' \in [Requests -> Pcs]
    BY <1>14 DEF CommitFulfill, Goto, TypeOK, Pcs
  <2> QED
    BY <1>14, <2>1, <2>2, <2>3, <2>4, WriteSavedTyped
    DEF CommitFulfill, TypeOK
<1>15. ASSUME NEW q \in Requests, PopHook(q), hooks[q] # <<>>
       PROVE  hooks' \in [Requests -> Seq(Assets)]
  <2>1. Tail(hooks[q]) \in Seq(Assets)
    BY <1>15 DEF TypeOK
  <2> QED
    BY <1>15, <2>1 DEF PopHook, TypeOK
<1>16. ASSUME NEW q \in Requests, RunHook(q)
       PROVE  TypeOK'
  <2>1. hooks' \in [Requests -> Seq(Assets)]
    BY <1>15, <1>16 DEF RunHook, TypeOK
  <2>2. pc' \in [Requests -> Pcs]
    BY <1>16, GotoTyped DEF RunHook, TypeOK, Pcs
  <2>3. lowNotices' \in [Assets -> Nat]
    <3>1. \/ lowNotices' = [lowNotices EXCEPT ![Head(hooks[q])] = @ + 1]
          \/ UNCHANGED lowNotices
      BY <1>16 DEF RunHook
    <3>2. \A s \in Assets : lowNotices[s] + 1 \in Nat
      BY DEF TypeOK
    <3>3. lowNotices \in [Assets -> Nat]
      BY DEF TypeOK
    <3> QED
      BY SMTT(30), <3>1, <3>2, <3>3
  <2> QED
    BY <1>16, <2>1, <2>2, <2>3 DEF RunHook, TypeOK, tables, locks
<1>17. ASSUME NEW q \in Requests, StampAlert(q)
       PROVE  TypeOK'
  <2>1. hooks' \in [Requests -> Seq(Assets)]
    BY <1>15, <1>17 DEF StampAlert, Control, ControlAt
  <2>2. pc' \in [Requests -> Pcs]
    BY <1>17, GotoTyped DEF StampAlert, Pcs
  <2>3. asset' \in [Assets -> AssetRow]
    <3>1. asset' = [asset EXCEPT ![Head(hooks[q])].alerted = TRUE]
      BY <1>17 DEF StampAlert
    <3>2. ASSUME NEW s \in Assets
          PROVE  [asset[s] EXCEPT !.alerted = TRUE] \in AssetRow
      <4>1. asset[s] \in AssetRow
        BY DEF TypeOK
      <4> QED
        BY <4>1 DEF AssetRow
    <3> QED
      BY <3>1, <3>2 DEF TypeOK
  <2> QED
    BY <1>17, <2>1, <2>2, <2>3 DEF StampAlert, TypeOK, locks, history
<1>18. ASSUME NEW q \in Requests, Finish(q)
       PROVE  TypeOK'
  <2>1. job[q].kind \in Kinds /\ Target(q) \in Reqs
    BY <1>18 DEF Finish, Control, ControlAt
  <2>2. audit' \subseteq [request: Requests \cup {None}, req: Reqs,
                         action: Kinds \cup {"reassign"}]
    BY <1>18, <2>1 DEF Finish, Audited, TypeOK
  <2> QED
    BY <1>18, <2>2, EndTyped DEF Finish, TypeOK, history, Ended
<1>19. ASSUME NEW q \in Requests, DeadlockVictim(q)
       PROVE  TypeOK'
  BY <1>19, EndTyped DEF DeadlockVictim, TypeOK, tables, history, Ended
<1>20. ASSUME NEW q \in Requests, HookFails(q)
       PROVE  TypeOK'
  <2>1. hooks' \in [Requests -> Seq(Assets)]
    BY <1>15, <1>20 DEF HookFails
  <2>2. pc' \in [Requests -> Pcs]
    BY <1>20, GotoTyped DEF HookFails, Pcs
  <2> QED
    BY <1>20, <2>1, <2>2 DEF HookFails, TypeOK, tables, locks, history
<1>21. ASSUME NEW q \in Requests, Fail(q)
       PROVE  TypeOK'
  BY <1>21, EndTyped DEF Fail, TypeOK, tables, history, Ended
<1>22. ASSUME NEW u \in Users, NEW d \in {"present", "away", "inactive"},
              SetDuty(u, d)
       PROVE  TypeOK'
  BY <1>22 DEF SetDuty, TypeOK, tables, locks, handlers, history
<1>23. ASSUME UNCHANGED vars
       PROVE  TypeOK'
  BY <1>23 DEF vars, TypeOK, tables, locks, handlers, history
<1> QED
  BY <1>1, <1>2, <1>3, <1>4, <1>5, <1>6, <1>7, <1>8, <1>9, <1>10, <1>11,
     <1>12, <1>13, <1>14, <1>16, <1>17, <1>18, <1>19, <1>20, <1>21, <1>22,
     <1>23
  DEF Next, Submit, Open, Proceed, Disturb, Idle

-----------------------------------------------------------------------------
(* Control is preserved.                                                   *)

(* A request that arrives or that ends is well placed, and the others stay *)
(* where they are.                                                         *)
LEMMA ArrivesControl ==
  ASSUME TypeOK, NEW q \in Requests, NEW kind, NEW r, NEW u,
         Arrives(q, kind, r, u)
  PROVE  /\ kind \in Kinds /\ pc[q] = "idle"
         /\ job'[q].kind = kind /\ job'[q].target = r /\ job'[q].actor = u
         /\ \A p \in Requests : p # q => job'[p] = job[p]
BY DEF Arrives, TypeOK

(* A request that ends leaves what Control says of every request.          *)
LEMMA EndControl ==
  ASSUME TypeOK, NEW p \in Requests, NEW q \in Requests, ControlAt(p),
         NEW label \in Ended, End(q, label),
         \/ UNCHANGED job /\ pc[q] # "idle"
         \/ \E kind \in Kinds, r \in Reqs, u \in Users : Arrives(q, kind, r, u)
  PROVE  ControlAt(p)'
<1>1. CASE p # q
  <2>1. /\ pc'[p] = pc[p] /\ todo'[p] = todo[p] /\ hooks'[p] = hooks[p]
        /\ draw'[p] = draw[p] /\ mine'[p] = mine[p]
    BY <1>1 DEF End, Goto, TypeOK
  <2>2. job'[p] = job[p]
    BY <1>1, ArrivesControl
  <2> QED
    BY <2>1, <2>2 DEF ControlAt, Target, Nothing
<1>2. CASE p = q
  <2>1. pc'[p] \in Ended
    BY <1>2 DEF End, Goto, TypeOK
  <2>2. job'[p].kind \in Kinds /\ job'[p].target \in Reqs
    <3>1. CASE UNCHANGED job /\ pc[q] # "idle"
      BY <1>2, <3>1 DEF ControlAt, Target
    <3>2. CASE \E kind \in Kinds, r \in Reqs, u \in Users :
                 Arrives(q, kind, r, u)
      BY <1>2, <3>2, ArrivesControl
    <3> QED
      BY <3>1, <3>2
  <2> QED
    BY <2>1, <2>2 DEF ControlAt, Target, Ended, Transaction
<1> QED
  BY <1>1, <1>2

(* The steps inside the handlers: q moves on, and nobody is asked anew.    *)
LEMMA MoveControl ==
  ASSUME TypeOK, NEW p \in Requests, NEW q \in Requests, p # q, ControlAt(p),
         NEW label, pc' = [pc EXCEPT ![q] = label], job'[p] = job[p],
         todo'[p] = todo[p], hooks'[p] = hooks[p], draw'[p] = draw[p],
         mine'[p] = mine[p]
  PROVE  ControlAt(p)'
<1>1. pc'[p] = pc[p]
  BY DEF TypeOK
<1> QED
  BY <1>1 DEF ControlAt, Target, Nothing

(* Every step preserves Control: a request at a place of a handler was     *)
(* asked for by a call of that handler.                                    *)
LEMMA NextControl ==
  ASSUME TypeOK, Control, [Next]_vars
  PROVE  Control'
<1> SUFFICES ASSUME NEW p \in Requests
             PROVE  ControlAt(p)'
  BY DEF Control
<1> USE DEF Control
<1>1. ASSUME NEW q \in Requests, NEW r \in Reqs, NEW u \in Users,
             NEW sup \in Users, BeginCreate(q, r, u, sup)
      PROVE  ControlAt(p)'
  <2>1. CASE p # q
    <3>1. Arrives(q, "create", r, u) /\ pc' = [pc EXCEPT ![q] = "counted"]
          /\ UNCHANGED <<todo, hooks, draw>> /\ mine'[p] = mine[p]
      BY <1>1, <2>1 DEF BeginCreate, Goto, TypeOK
    <3> QED
      BY <2>1, <3>1, MoveControl, ArrivesControl
  <2>2. CASE p = q
    <3>1. /\ pc'[p] = "counted" /\ job'[p].kind = "create"
          /\ job'[p].kind \in Kinds /\ job'[p].target \in Reqs
      <4>1. Arrives(q, "create", r, u) /\ pc'[q] = "counted"
        BY <1>1 DEF BeginCreate, Goto, TypeOK
      <4> QED
        BY <2>2, <4>1, ArrivesControl
    <3>2. mine'[p].row.status = "pending_supervisor"
      BY <1>1, <2>2 DEF BeginCreate, TypeOK, Copy, NoRow
    <3> QED
      BY <3>1, <3>2 DEF ControlAt, Target, Transaction
  <2> QED
    BY <2>1, <2>2
<1>2. ASSUME NEW q \in Requests, NEW r \in Reqs, NEW u \in Users,
             RefuseCreate(q, r, u)
      PROVE  ControlAt(p)'
  BY <1>2, EndControl DEF RefuseCreate, Arrives, Ended
<1>3. ASSUME NEW q \in Requests, NEW kind \in Kinds, NEW r \in Reqs,
             NEW u \in Users, NEW dto \in Dtos \cup {<<>>},
             Read(q, kind, r, u, dto)
      PROVE  ControlAt(p)'
  <2>1. CASE p # q
    <3>1. Arrives(q, kind, r, u) /\ pc' = [pc EXCEPT ![q] = AfterRead(kind)]
          /\ UNCHANGED <<hooks, draw>> /\ mine'[p] = mine[p]
          /\ todo'[p] = todo[p]
      BY <1>3, <2>1 DEF Read, Goto, TypeOK
    <3> QED
      BY <2>1, <3>1, MoveControl, ArrivesControl
  <2>2. CASE p = q
    <3>1. /\ pc'[p] = AfterRead(kind) /\ job'[p].kind = kind
          /\ job'[p].target \in Reqs
      <4>1. Arrives(q, kind, r, u) /\ pc'[q] = AfterRead(kind)
        BY <1>3 DEF Read, Goto, TypeOK
      <4> QED
        BY <2>2, <4>1, ArrivesControl
    <3>2. kind \in {"approve", "reject", "hold", "fulfill"}
      BY <1>3 DEF Read, Accepts
    <3> QED
      BY <3>1, <3>2 DEF ControlAt, Target, Transaction, AfterRead
  <2> QED
    BY <2>1, <2>2
<1>4. ASSUME NEW q \in Requests, NEW kind \in Kinds, NEW r \in Reqs,
             NEW u \in Users, Refuse(q, kind, r, u)
      PROVE  ControlAt(p)'
  BY <1>4, EndControl DEF Refuse, Ended
<1>5. ASSUME NEW q \in Requests, InsertRequisition(q)
      PROVE  ControlAt(p)'
  <2>1. CASE End(q, "failed")
    BY <1>5, <2>1, EndControl DEF InsertRequisition, Ended
  <2>2. CASE ~End(q, "failed")
    <3>1. /\ pc' = [pc EXCEPT ![q] = "inserted"]
          /\ UNCHANGED <<job, mine, todo, hooks, draw>>
      BY <1>5, <2>2 DEF InsertRequisition, Goto
    <3>2. pc[q] = "counted"
      BY <1>5 DEF InsertRequisition
    <3> QED
      BY <3>1, <3>2 DEF ControlAt, Target, TypeOK, Transaction, Nothing
  <2> QED
    BY <2>1, <2>2
<1>6. ASSUME NEW q \in Requests, InsertItems(q)
      PROVE  ControlAt(p)'
  BY <1>6 DEF InsertItems, Goto, ControlAt, Target, TypeOK, Transaction, Nothing
<1>7. ASSUME NEW q \in Requests, RecordDecision(q)
      PROVE  ControlAt(p)'
  BY <1>7 DEF RecordDecision, Goto, ControlAt, Target, TypeOK, Transaction,
              Nothing
<1>8. ASSUME NEW q \in Requests, LoadForSave(q)
      PROVE  ControlAt(p)'
  <2>1. PICK label \in {"saving", "reloaded"} :
               pc' = [pc EXCEPT ![q] = label]
               /\ (label = "saving" => pc[q] = "deciding")
               /\ (label = "reloaded" => pc[q] = "link")
    BY <1>8 DEF LoadForSave, Goto
  <2>2. CASE p # q
    BY <1>8, <2>1, <2>2, MoveControl DEF LoadForSave, TypeOK
  <2>3. CASE p = q
    <3>1. UNCHANGED job /\ pc'[p] = label
      BY <1>8, <2>1, <2>3 DEF LoadForSave, TypeOK
    <3> QED
      BY <2>1, <2>3, <3>1 DEF ControlAt, Target, Transaction
  <2> QED
    BY <2>2, <2>3
<1>9. ASSUME NEW q \in Requests, Save(q)
      PROVE  ControlAt(p)'
  BY <1>9 DEF Save, Goto, ControlAt, Target, TypeOK, Transaction, Nothing
<1>10. ASSUME NEW q \in Requests, SaveFails(q)
       PROVE  ControlAt(p)'
  BY <1>10, EndControl DEF SaveFails, Ended
<1>11. ASSUME NEW q \in Requests, UpdateItem(q)
       PROVE  ControlAt(p)'
  <2>1. CASE End(q, "refused")
    BY <1>11, <2>1, EndControl DEF UpdateItem, Ended
  <2>2. CASE ~End(q, "refused")
    <3>1. /\ pc' = [pc EXCEPT ![q] = "fk"]
          /\ UNCHANGED <<job, todo, hooks, draw>>
          /\ p # q => mine'[p] = mine[p]
      BY <1>11, <2>2 DEF UpdateItem, Goto, TypeOK
    <3>2. pc[q] = "link" /\ todo[q] # <<>>
      BY <1>11 DEF UpdateItem
    <3> QED
      BY <3>1, <3>2 DEF ControlAt, Target, TypeOK, Transaction, Nothing
  <2> QED
    BY <2>1, <2>2
<1>12. ASSUME NEW q \in Requests, CheckForeignKey(q)
       PROVE  ControlAt(p)'
  <2>1. PICK label \in {"stock", "link"} :
               /\ pc' = [pc EXCEPT ![q] = label]
               /\ label = "stock" => UNCHANGED todo
    BY <1>12 DEF CheckForeignKey, Goto
  <2>2. /\ UNCHANGED <<job, mine, hooks, draw>> /\ pc[q] = "fk"
        /\ p # q => todo'[p] = todo[p]
    BY <1>12 DEF CheckForeignKey, TypeOK
  <2> QED
    BY <2>1, <2>2 DEF ControlAt, Target, TypeOK, Transaction, Nothing
<1>13. ASSUME NEW q \in Requests, DrawStock(q)
       PROVE  ControlAt(p)'
  <2>1. CASE End(q, "refused")
    BY <1>13, <2>1, EndControl DEF DrawStock, Ended
  <2>2. CASE ~End(q, "refused")
    <3>1. /\ pc' = [pc EXCEPT ![q] = "link"] /\ pc[q] = "stock"
          /\ UNCHANGED <<job, mine>>
          /\ p # q => /\ todo'[p] = todo[p] /\ hooks'[p] = hooks[p]
                      /\ draw'[p] = draw[p]
      BY <1>13, <2>2 DEF DrawStock, Goto, TypeOK
    <3> QED
      BY <3>1 DEF ControlAt, Target, TypeOK, Transaction, Nothing
  <2> QED
    BY <2>1, <2>2
<1>14. ASSUME NEW q \in Requests, CommitFulfill(q)
       PROVE  ControlAt(p)'
  BY <1>14 DEF CommitFulfill, Goto, ControlAt, Target, TypeOK, Transaction,
               Nothing
<1>15. ASSUME NEW q \in Requests, RunHook(q)
       PROVE  ControlAt(p)'
  <2>1. /\ UNCHANGED <<job, mine, todo, draw>> /\ pc[q] = "saved"
        /\ p # q => hooks'[p] = hooks[p]
    BY <1>15 DEF RunHook, PopHook, TypeOK
  <2>2. \/ UNCHANGED pc
        \/ pc' = [pc EXCEPT ![q] = "alerted"] /\ UNCHANGED hooks
    BY <1>15 DEF RunHook, Goto
  <2>3. hooks[q] # <<>>
    BY <1>15 DEF RunHook
  <2> QED
    BY ZenonT(60), <2>1, <2>2, <2>3 DEF ControlAt, Target, TypeOK, Transaction, Nothing
<1>16. ASSUME NEW q \in Requests, StampAlert(q) \/ HookFails(q)
       PROVE  ControlAt(p)'
  <2>1. /\ UNCHANGED <<job, mine, todo, draw>> /\ pc[q] \in {"saved", "alerted"}
        /\ pc' = [pc EXCEPT ![q] = "saved"]
        /\ p # q => hooks'[p] = hooks[p]
    BY <1>16 DEF StampAlert, HookFails, PopHook, Goto, TypeOK
  <2> QED
    BY <2>1 DEF ControlAt, Target, TypeOK, Transaction, Nothing
<1>17. ASSUME NEW q \in Requests,
              Finish(q) \/ DeadlockVictim(q) \/ Fail(q)
       PROVE  ControlAt(p)'
  <2>1. pc[q] # "idle" /\ UNCHANGED job
    BY <1>17 DEF Finish, DeadlockVictim, Deadlocked, WaitsFor, Fail, InProgress
  <2>2. \E label \in Ended : End(q, label)
    BY <1>17 DEF Finish, DeadlockVictim, Fail, Ended
  <2> QED
    BY <2>1, <2>2, EndControl
<1>18. ASSUME NEW u \in Users, NEW d \in {"present", "away", "inactive"},
              SetDuty(u, d)
       PROVE  ControlAt(p)'
  BY <1>18 DEF SetDuty, handlers, ControlAt, Target, Nothing
<1>19. ASSUME UNCHANGED vars
       PROVE  ControlAt(p)'
  BY <1>19 DEF vars, handlers, ControlAt, Target, Nothing
<1> QED
  BY <1>1, <1>2, <1>3, <1>4, <1>5, <1>6, <1>7, <1>8, <1>9, <1>10, <1>11,
     <1>12, <1>13, <1>14, <1>15, <1>16, <1>17, <1>18, <1>19
  DEF Next, Submit, Open, Proceed, Disturb, Idle

-----------------------------------------------------------------------------
(* Held is preserved.                                                      *)

(* Steps that leave p's transaction, its locks and the quantity alone.     *)
LEMMA QuietHeld ==
  ASSUME NEW p \in Requests, NEW s \in Assets, HeldAt(p, s),
         rowLock'[s] = p <=> rowLock[s] = p,
         asset'[s].quantity = asset[s].quantity,
         draw'[p] = draw[p], seen'[p] = seen[p],
         pc'[p] \in Transaction <=> pc[p] \in Transaction
  PROVE  HeldAt(p, s)'
BY DEF HeldAt, Transaction

(* A transaction that ends gives its locks up.                             *)
LEMMA EndHeld ==
  ASSUME TypeOK, NEW p \in Requests, NEW s \in Assets, HeldAt(p, s),
         NEW q \in Requests, NEW label \in Ended, End(q, label),
         UNCHANGED asset
  PROVE  HeldAt(p, s)'
<1>1. None \notin Requests
  BY StoreAssumption
<1>2. CASE p # q
  <2>1. /\ pc'[p] = pc[p] /\ draw'[p] = draw[p] /\ seen'[p] = seen[p]
        /\ rowLock'[s] = p <=> rowLock[s] = p
    BY <1>1, <1>2 DEF End, Goto, Release, TypeOK
  <2> QED
    BY <2>1, QuietHeld
<1>3. CASE p = q
  <2>1. pc'[p] \in Ended /\ rowLock'[s] # p
    BY <1>1, <1>3 DEF End, Goto, Release, TypeOK
  <2> QED
    BY <2>1 DEF HeldAt, Ended, Transaction
<1> QED
  BY <1>2, <1>3

(* Every step preserves Held: nobody changes a quantity another            *)
(* transaction has read under its row lock.                                *)
LEMMA NextHeld ==
  ASSUME TypeOK, Control, Held, [Next]_vars
  PROVE  Held'
<1> SUFFICES ASSUME NEW p \in Requests, NEW s \in Assets
             PROVE  HeldAt(p, s)'
  BY DEF Held
<1>0. HeldAt(p, s)
  BY DEF Held
<1>1. ASSUME NEW q \in Requests,
             \/ \E r \in Reqs, u \in Users :
                  \/ \E sup \in Users : BeginCreate(q, r, u, sup)
                  \/ RefuseCreate(q, r, u)
                  \/ \E kind \in Kinds : Refuse(q, kind, r, u)
             \/ InsertRequisition(q) \/ SaveFails(q)
             \/ Finish(q) \/ DeadlockVictim(q) \/ Fail(q)
      PROVE  HeldAt(p, s)'
  <2>1. CASE \E label \in Ended : End(q, label)
    <3>1. UNCHANGED asset
      BY <1>1 DEF BeginCreate, RefuseCreate, Refuse, InsertRequisition,
                  SaveFails, Finish, DeadlockVictim, Fail, tables
    <3> QED
      BY <1>0, <2>1, <3>1, EndHeld
  <2>2. CASE ~ \E label \in Ended : End(q, label)
    <3>1. /\ UNCHANGED <<rowLock, asset, draw, seen>>
          /\ \/ pc' = [pc EXCEPT ![q] = "counted"] /\ pc[q] = "idle"
             \/ pc' = [pc EXCEPT ![q] = "inserted"] /\ pc[q] = "counted"
      BY ZenonT(60), <1>1, <2>2
      DEF BeginCreate, RefuseCreate, Refuse, InsertRequisition, SaveFails,
          Finish, DeadlockVictim, Fail, Arrives, Goto, tables, locks, Ended
    <3>2. pc'[p] \in Transaction <=> pc[p] \in Transaction
      BY <3>1 DEF TypeOK, Transaction
    <3> QED
      BY <1>0, <3>1, <3>2, QuietHeld
  <2> QED
    BY <2>1, <2>2
<1>2. ASSUME NEW q \in Requests, NEW kind \in Kinds, NEW r \in Reqs,
             NEW u \in Users, NEW dto \in Dtos \cup {<<>>},
             Read(q, kind, r, u, dto)
      PROVE  HeldAt(p, s)'
  <2>1. UNCHANGED <<rowLock, asset, draw, seen>>
    BY <1>2 DEF Read, tables, locks
  <2>2. CASE p # q
    <3>1. pc'[p] = pc[p]
      BY <1>2, <2>2 DEF Read, Goto, TypeOK
    <3> QED
      BY <1>0, <2>1, <3>1, QuietHeld
  <2>3. CASE p = q
    <3>1. pc[p] = "idle"
      BY <1>2, <2>3 DEF Read, Arrives
    <3>2. draw[p][s] = 0
      BY <3>1 DEF Control, ControlAt, Nothing
    <3> QED
      BY <1>0, <2>1, <3>1, <3>2 DEF HeldAt, Transaction
  <2> QED
    BY <2>2, <2>3
<1>3. ASSUME NEW q \in Requests,
             InsertItems(q) \/ RecordDecision(q) \/ Save(q)
             \/ RunHook(q) \/ HookFails(q)
      PROVE  HeldAt(p, s)'
  <2>1. UNCHANGED <<rowLock, asset, draw, seen>>
    BY <1>3 DEF InsertItems, RecordDecision, Save, RunHook, HookFails,
                tables, locks
  <2>2. pc'[p] \in Transaction <=> pc[p] \in Transaction
    BY <1>3 DEF InsertItems, RecordDecision, Save, RunHook, HookFails, Goto,
                TypeOK, Transaction
  <2> QED
    BY <1>0, <2>1, <2>2, QuietHeld
<1>4. ASSUME NEW q \in Requests, LoadForSave(q)
      PROVE  HeldAt(p, s)'
  <2>1. UNCHANGED <<rowLock, asset, draw, seen>>
    BY <1>4 DEF LoadForSave, tables, locks
  <2>2. pc'[p] \in Transaction <=> pc[p] \in Transaction
    BY <1>4 DEF LoadForSave, Goto, TypeOK, Transaction
  <2> QED
    BY <1>0, <2>1, <2>2, QuietHeld
<1>5. ASSUME NEW q \in Requests, UpdateItem(q)
      PROVE  HeldAt(p, s)'
  <2>1. UNCHANGED asset
    BY <1>5 DEF UpdateItem, tables
  <2>2. CASE End(q, "refused")
    BY <1>0, <2>1, <2>2, EndHeld DEF Ended
  <2>3. CASE ~End(q, "refused")
    <3>1. /\ UNCHANGED <<rowLock, draw, seen>>
          /\ pc' = [pc EXCEPT ![q] = "fk"] /\ pc[q] = "link"
      BY <1>5, <2>3 DEF UpdateItem, Goto
    <3>2. pc'[p] \in Transaction <=> pc[p] \in Transaction
      BY <3>1 DEF TypeOK, Transaction
    <3> QED
      BY <1>0, <2>1, <3>1, <3>2, QuietHeld
  <2> QED
    BY <2>2, <2>3
<1>6. ASSUME NEW q \in Requests, CheckForeignKey(q)
      PROVE  HeldAt(p, s)'
  <2>1. UNCHANGED <<rowLock, asset, draw, seen>>
    BY <1>6 DEF CheckForeignKey, tables
  <2>2. PICK label \in {"stock", "link"} : pc' = [pc EXCEPT ![q] = label]
    BY <1>6 DEF CheckForeignKey, Goto
  <2>3. pc[q] = "fk"
    BY <1>6 DEF CheckForeignKey
  <2>4. pc'[p] \in Transaction <=> pc[p] \in Transaction
    BY <2>2, <2>3 DEF TypeOK, Transaction
  <2> QED
    BY <1>0, <2>1, <2>4, QuietHeld
<1>7. ASSUME NEW q \in Requests, DrawStock(q)
      PROVE  HeldAt(p, s)'
  <2>1. UNCHANGED asset
    BY <1>7 DEF DrawStock, tables
  <2>2. CASE End(q, "refused")
    BY <1>0, <2>1, <2>2, EndHeld DEF Ended
  <2>3. CASE ~End(q, "refused")
    <3>1. PICK i \in Items, t \in Assets :
                 i = Entry(q).item /\ t = Entry(q).asset
      BY <1>7, EntryTyped DEF DrawStock, Control, ControlAt
    <3>2. /\ MayLock(q, t) /\ Quantity[i] <= OnHand(q, t)
          /\ seen' = [seen EXCEPT ![q][t] = OnHand(q, t) + draw[q][t]]
          /\ draw' = [draw EXCEPT ![q][t] = @ + Quantity[i]]
          /\ rowLock' = [rowLock EXCEPT ![t] = q]
          /\ pc' = [pc EXCEPT ![q] = "link"] /\ pc[q] = "stock"
      BY <1>7, <2>3, <3>1 DEF DrawStock, Enough, Goto
    <3>3. pc'[p] \in Transaction <=> pc[p] \in Transaction
      BY <3>2 DEF TypeOK, Transaction
    <3>4. CASE p # q
      <4>1. draw'[p] = draw[p] /\ seen'[p] = seen[p]
        BY <3>2, <3>4 DEF TypeOK
      <4>2. rowLock'[s] = p <=> rowLock[s] = p
        BY <3>2, <3>4, StoreAssumption DEF MayLock, TypeOK
      <4> QED
        BY <1>0, <2>1, <3>3, <4>1, <4>2, QuietHeld
    <3>5. CASE p = q /\ s # t
      <4>1. /\ draw'[p][s] = draw[p][s] /\ seen'[p][s] = seen[p][s]
            /\ rowLock'[s] = rowLock[s]
        BY <3>2, <3>5 DEF TypeOK
      <4> QED
        BY <1>0, <2>1, <3>3, <4>1 DEF HeldAt
    <3>6. CASE p = q /\ s = t
      <4>1. /\ draw[q][t] \in Nat /\ seen[q][t] \in Nat
            /\ asset[t].quantity \in Nat /\ Quantity[i] \in Nat \ {0}
        BY StoreAssumption DEF TypeOK, AssetRow
      <4>2. /\ seen'[q][t] = OnHand(q, t) + draw[q][t]
            /\ draw'[q][t] = draw[q][t] + Quantity[i]
            /\ rowLock'[t] = q /\ pc'[q] = "link"
        BY <3>2 DEF TypeOK
      <4>3. CASE rowLock[t] = q
        <5>1. seen[q][t] = asset[t].quantity
          BY <1>0, <3>6, <4>3 DEF HeldAt
        <5>2. OnHand(q, t) = seen[q][t] - draw[q][t]
          BY <4>3 DEF OnHand
        <5>3. /\ seen'[q][t] = asset[t].quantity
              /\ draw'[q][t] <= asset[t].quantity /\ draw'[q][t] > 0
          BY <3>2, <4>1, <4>2, <5>1, <5>2
        <5> QED
          BY <2>1, <3>6, <4>2, <5>3 DEF HeldAt, Transaction
      <4>4. CASE rowLock[t] # q
        <5>1. draw[q][t] = 0
          BY <1>0, <3>2, <3>6, <4>1, <4>4 DEF HeldAt, Transaction
        <5>2. OnHand(q, t) = asset[t].quantity
          BY <4>4 DEF OnHand
        <5>3. /\ seen'[q][t] = asset[t].quantity
              /\ draw'[q][t] <= asset[t].quantity /\ draw'[q][t] > 0
          BY <3>2, <4>1, <4>2, <5>1, <5>2
        <5> QED
          BY <2>1, <3>6, <4>2, <5>3 DEF HeldAt, Transaction
      <4> QED
        BY <4>3, <4>4
    <3> QED
      BY <3>4, <3>5, <3>6
  <2> QED
    BY <2>2, <2>3
<1>8. ASSUME NEW q \in Requests, CommitFulfill(q)
      PROVE  HeldAt(p, s)'
  <2>1. /\ UNCHANGED <<draw, seen>> /\ pc' = [pc EXCEPT ![q] = "saved"]
        /\ pc[q] = "reloaded"
        /\ asset'[s] = IF draw[q][s] = 0 THEN asset[s]
                       ELSE [asset[s] EXCEPT
                               !.quantity = seen[q][s] - draw[q][s]]
        /\ rowLock'[s] = IF rowLock[s] = q THEN None ELSE rowLock[s]
    BY <1>8 DEF CommitFulfill, Goto, Release
  <2>2. CASE p = q
    BY <2>1, <2>2, StoreAssumption DEF HeldAt, Transaction, TypeOK
  <2>3. CASE p # q
    <3>1. pc'[p] = pc[p]
      BY <2>1, <2>3 DEF TypeOK
    <3>2. rowLock'[s] = p <=> rowLock[s] = p
      BY <2>1, <2>3, StoreAssumption
    <3>3. draw[q][s] \in Nat /\ draw[p][s] \in Nat
      BY DEF TypeOK
    <3>4. CASE draw[q][s] = 0
      BY <1>0, <2>1, <3>1, <3>2, <3>4, QuietHeld
    <3>5. CASE draw[q][s] # 0
      <4>1. rowLock[s] = q
        BY <2>1, <3>3, <3>5 DEF Held, HeldAt, Transaction
      <4>2. rowLock[s] # p /\ rowLock'[s] # p
        BY <2>1, <2>3, <4>1, StoreAssumption
      <4>3. draw[p][s] = 0 \/ pc[p] \notin Transaction
        BY <1>0, <3>3, <4>2 DEF HeldAt
      <4> QED
        BY <2>1, <3>1, <4>2, <4>3 DEF HeldAt
    <3> QED
      BY <3>4, <3>5
  <2> QED
    BY <2>2, <2>3
<1>9. ASSUME NEW q \in Requests, StampAlert(q)
      PROVE  HeldAt(p, s)'
  <2>1. UNCHANGED <<rowLock, draw, seen>>
    BY <1>9 DEF StampAlert, locks
  <2>2. asset'[s].quantity = asset[s].quantity
    <3>1. asset' = [asset EXCEPT ![Head(hooks[q])].alerted = TRUE]
      BY <1>9 DEF StampAlert
    <3>2. asset[s] \in AssetRow /\ asset \in [Assets -> AssetRow]
      BY DEF TypeOK
    <3> QED
      BY <3>1, <3>2 DEF AssetRow
  <2>3. pc'[p] \in Transaction <=> pc[p] \in Transaction
    BY <1>9 DEF StampAlert, Goto, TypeOK, Transaction
  <2> QED
    BY <1>0, <2>1, <2>2, <2>3, QuietHeld
<1>10. ASSUME \/ UNCHANGED vars
              \/ \E u \in Users, d \in {"present", "away", "inactive"} :
                    SetDuty(u, d)
       PROVE  HeldAt(p, s)'
  <2>1. UNCHANGED <<rowLock, asset, draw, seen, pc>>
    BY <1>10 DEF vars, SetDuty, tables, locks, handlers
  <2> QED
    BY <1>0, <2>1, QuietHeld
<1> QED
  BY <1>1, <1>2, <1>3, <1>4, <1>5, <1>6, <1>7, <1>8, <1>9, <1>10
  DEF Next, Submit, Open, Proceed, Disturb, Idle

-----------------------------------------------------------------------------
(* Initially nobody holds a lock or is inside a handler.                   *)
LEMMA InitIInv == Init => IInv
<1> SUFFICES ASSUME Init PROVE Control /\ Held
  BY InitTypeOK DEF IInv
<1>1. Control
  BY DEF Init, Control, ControlAt, Transaction
<1>2. Held
  BY StoreAssumption DEF Init, Held, HeldAt, Nothing
<1> QED
  BY <1>1, <1>2

(* IInv is inductive.                                                      *)
LEMMA NextIInv == IInv /\ [Next]_vars => IInv'
BY NextTypeOK, NextControl, NextHeld DEF IInv

(* The inductive invariant behind TypeCorrect, GuardSafe and StockSafe     *)
(* holds in every reachable state.                                         *)
THEOREM Inductive == Spec => []IInv
BY InitIInv, NextIInv, PTL DEF Spec

(***************************************************************************)
(* Every variable keeps its type, however requests interleave and fail; in *)
(* particular no quantity ever becomes negative.                           *)
(***************************************************************************)
THEOREM TypeCorrect == Spec => []TypeOK
<1>1. IInv => TypeOK
  BY DEF IInv
<1> QED
  BY <1>1, Inductive, PTL

(***************************************************************************)
(* fulfill()'s insufficient-stock guard cannot be bypassed: until it       *)
(* commits, a transaction holds the row lock of each supply it drew from,  *)
(* and what it read is still the row's quantity.                           *)
(***************************************************************************)
THEOREM GuardSafe == Spec => []GuardStillHolds
<1>1. IInv => GuardStillHolds
  BY DEF IInv, Held, HeldAt, GuardStillHolds, Transaction
<1> QED
  BY <1>1, Inductive, PTL

(* Quantities and what was taken from them add up at the start ...         *)
LEMMA InitAccounted == Init => StockAccounted
<1> SUFFICES ASSUME Init, NEW s \in Assets
             PROVE  asset[s].quantity + issued[s] = Stock[s]
  BY DEF StockAccounted
<1>1. Stock[s] \in Nat
  BY RequestAssumption
<1> QED
  BY <1>1 DEF Init

(* ... and after every step.                                               *)
LEMMA NextAccounted ==
  ASSUME IInv, StockAccounted, [Next]_vars
  PROVE  StockAccounted'
<1> SUFFICES ASSUME NEW s \in Assets
             PROVE  (asset[s].quantity + issued[s] = Stock[s])'
  BY DEF StockAccounted
<1>0. /\ TypeOK /\ asset[s].quantity + issued[s] = Stock[s]
      /\ asset[s] \in AssetRow /\ asset[s].quantity \in Nat
      /\ issued[s] \in Nat
  BY DEF StockAccounted, IInv, TypeOK, AssetRow
<1>1. ASSUME NEW q \in Requests, CommitFulfill(q)
      PROVE  (asset[s].quantity + issued[s] = Stock[s])'
  <2>1. draw[q][s] \in Nat
    BY <1>0 DEF TypeOK
  <2>2. /\ asset'[s] = IF draw[q][s] = 0 THEN asset[s]
                       ELSE [asset[s] EXCEPT
                               !.quantity = seen[q][s] - draw[q][s]]
        /\ issued'[s] = issued[s] + draw[q][s]
    BY <1>1 DEF CommitFulfill
  <2>3. CASE draw[q][s] = 0
    BY <1>0, <2>2, <2>3
  <2>4. CASE draw[q][s] # 0
    <3>1. seen[q][s] = asset[s].quantity
      BY <1>1, <2>1, <2>4
      DEF CommitFulfill, IInv, Held, HeldAt, Transaction
    <3>2. asset'[s].quantity = asset[s].quantity - draw[q][s]
      BY <1>0, <2>2, <2>4, <3>1 DEF AssetRow
    <3> QED
      BY <1>0, <2>1, <2>2, <3>2
  <2> QED
    BY <2>3, <2>4
<1>2. ASSUME NEW q \in Requests, StampAlert(q)
      PROVE  (asset[s].quantity + issued[s] = Stock[s])'
  <2>1. asset' = [asset EXCEPT ![Head(hooks[q])].alerted = TRUE]
        /\ UNCHANGED issued
    BY <1>2 DEF StampAlert, history
  <2>2. asset'[s].quantity = asset[s].quantity
    <3>1. asset \in [Assets -> AssetRow]
      BY <1>0 DEF TypeOK
    <3> QED
      BY <1>0, <2>1, <3>1 DEF AssetRow
  <2> QED
    BY <1>0, <2>1, <2>2
<1>3. ASSUME UNCHANGED <<asset, issued>>
      PROVE  (asset[s].quantity + issued[s] = Stock[s])'
  BY <1>0, <1>3
<1>4. ASSUME Submit \/ Open
      PROVE  UNCHANGED <<asset, issued>>
  <2>1. CASE Submit
    BY ZenonT(60), <2>1 DEF Submit, BeginCreate, RefuseCreate, tables, history
  <2>2. CASE Open
    BY <2>2 DEF Open, Read, Refuse, tables, history
  <2> QED
    BY <1>4, <2>1, <2>2
<1>5. ASSUME NEW q \in Requests, Proceed(q), ~CommitFulfill(q),
             ~StampAlert(q)
      PROVE  UNCHANGED <<asset, issued>>
  BY <1>5 DEF Proceed, InsertRequisition, InsertItems, RecordDecision,
              LoadForSave, Save, SaveFails, UpdateItem, CheckForeignKey,
              DrawStock, RunHook, Finish, DeadlockVictim, tables, history
<1>6. ASSUME \/ \E q \in Requests : Disturb(q)
             \/ \E u \in Users, d \in {"present", "away", "inactive"} :
                   SetDuty(u, d)
             \/ UNCHANGED vars
      PROVE  UNCHANGED <<asset, issued>>
  BY <1>6 DEF Disturb, HookFails, Fail, SetDuty, vars, tables, history
<1> QED
  BY <1>1, <1>2, <1>3, <1>4, <1>5, <1>6 DEF Next, Idle

(***************************************************************************)
(* No decrement is lost: what an asset has left and what committed         *)
(* fulfilments took from it add up to what there was, for any number of    *)
(* requests, supplies and lines.                                           *)
(***************************************************************************)
THEOREM StockSafe == Spec => []StockAccounted
BY InitAccounted, NextAccounted, Inductive, PTL DEF Spec

-----------------------------------------------------------------------------
(* Decisions: what a request intends to write is backed by a decision row. *)

StatusAfter ==
  [approve |-> "pending_fulfillment", reject |-> "rejected",
   hold |-> "on_hold", fulfill |-> "fulfilled"]

IntentAt(q) ==
  /\ pc[q] \in {"deciding", "saving"} =>
       /\ job[q].kind \in {"approve", "hold"} => HasDecision(Target(q), "approved")
       /\ job[q].kind = "reject" => HasDecision(Target(q), "rejected")
  /\ pc[q] \in Transaction => HasDecision(Target(q), "approved")
  /\ pc[q] \in {"saving", "reloaded"} =>
       mine[q].row.status = StatusAfter[job[q].kind]

Intent == \A q \in Requests : IntentAt(q)

(* A requisition is submitted once: nobody else's submission has its row,  *)
(* and the other operations only start on one that is there.               *)
OnceAt(p, q) ==
  job[p].kind = "create" /\ job[q].kind = "create" /\ Target(p) = Target(q)
    => p = q

CreationAt(q) ==
  /\ pc[q] = "counted" => req[Target(q)].status = "absent"
  /\ InProgress(q) /\ job[q].kind # "create" => req[Target(q)].status # "absent"

Creation == /\ \A q \in Requests : CreationAt(q)
            /\ \A p, q \in Requests : OnceAt(p, q)

DInv == IInv /\ DecisionOnRecord /\ Intent /\ Creation

(* The approvals table only grows.                                         *)
LEMMA ApprovalsGrow ==
  ASSUME [Next]_vars
  PROVE  approvals \subseteq approvals'
<1>1. CASE Submit
  BY ZenonT(60), <1>1 DEF Submit, BeginCreate, RefuseCreate, tables
<1>2. CASE Open
  BY <1>2 DEF Open, Read, Refuse, tables
<1>3. ASSUME NEW q \in Requests, Proceed(q)
      PROVE  approvals \subseteq approvals'
  BY <1>3 DEF Proceed, InsertRequisition, InsertItems, RecordDecision,
              LoadForSave, Save, SaveFails, UpdateItem, CheckForeignKey,
              DrawStock, CommitFulfill, RunHook, StampAlert, Finish,
              DeadlockVictim, tables
<1>4. ASSUME NEW q \in Requests, Disturb(q)
      PROVE  approvals \subseteq approvals'
  BY <1>4 DEF Disturb, HookFails, Fail, tables
<1>5. ASSUME \/ \E u \in Users, d \in {"present", "away", "inactive"} :
                  SetDuty(u, d)
             \/ UNCHANGED vars
      PROVE  approvals \subseteq approvals'
  BY <1>5 DEF SetDuty, vars, tables
<1> QED
  BY <1>1, <1>2, <1>3, <1>4, <1>5 DEF Next, Idle

(* A row of the approvals table that records a decision still does after   *)
(* any step.                                                               *)
LEMMA DecisionStays ==
  ASSUME [Next]_vars, NEW r, NEW d, HasDecision(r, d)
  PROVE  HasDecision(r, d)'
BY ApprovalsGrow DEF HasDecision

(* How a requisition's status can change: by the INSERT of its row, or by  *)
(* a save() whose copy has the new status.                                 *)
Inserts(q, r) ==
  /\ pc[q] = "counted" /\ pc'[q] = "inserted" /\ UNCHANGED job
  /\ Target(q) = r
  /\ req'[r].status = mine[q].row.status

Saves(q, r) ==
  /\ pc[q] \in {"saving", "reloaded"} /\ pc'[q] = "saved" /\ UNCHANGED job
  /\ Target(q) = r
  /\ req'[r].status = mine[q].row.status

(* A step that changes the status of a requisition is a submission or a    *)
(* save() by one of the requests that loaded it.                           *)
LEMMA StatusSteps ==
  ASSUME IInv, [Next]_vars, NEW r \in Reqs
  PROVE  \/ req'[r].status = req[r].status
         \/ \E q \in Requests : Inserts(q, r) \/ Saves(q, r)
<1>0. TypeOK /\ Control
  BY DEF IInv
<1>1. CASE UNCHANGED req
  BY <1>1
<1>2. ASSUME NEW q \in Requests, Save(q) \/ CommitFulfill(q)
      PROVE  req'[r].status = req[r].status \/ Saves(q, r)
  <2>0. /\ WriteSaved(q) /\ pc[q] \in {"saving", "reloaded"}
        /\ pc'[q] = "saved" /\ UNCHANGED job
    BY <1>0, <1>2 DEF Save, CommitFulfill, Goto, TypeOK
  <2>1. req[r] \in Row /\ mine[q].row \in Row /\ base[q].row \in Row
    BY <1>0 DEF TypeOK, Copy
  <2>2. CASE Target(q) # r
    BY <1>0, <2>0, <2>2 DEF WriteSaved, TypeOK
  <2>3. CASE Target(q) = r
    <3>1. req'[r] = SavedRow(req[r], base[q].row, mine[q].row)
      BY <1>0, <2>0, <2>3 DEF WriteSaved, TypeOK
    <3>2. req'[r].status \in {req[r].status, mine[q].row.status}
      BY <2>1, <3>1, SavedRowTyped
    <3> QED
      BY <2>0, <2>3, <3>2 DEF Saves
  <2> QED
    BY <2>2, <2>3
<1>3. ASSUME NEW q \in Requests, InsertRequisition(q)
      PROVE  req'[r].status = req[r].status \/ Inserts(q, r)
  BY <1>0, <1>3 DEF InsertRequisition, Inserts, TypeOK, Goto
<1>4. CASE Submit
  BY ZenonT(60), <1>1, <1>4 DEF Submit, BeginCreate, RefuseCreate, tables
<1>5. CASE Open
  BY <1>1, <1>5 DEF Open, Read, Refuse, tables
<1>6. ASSUME NEW q \in Requests, Proceed(q)
      PROVE  UNCHANGED req \/ InsertRequisition(q) \/ Save(q) \/ CommitFulfill(q)
  BY <1>6 DEF Proceed, InsertItems, RecordDecision,
              LoadForSave, Save, SaveFails, UpdateItem, CheckForeignKey,
              DrawStock, CommitFulfill, RunHook, StampAlert, Finish,
              DeadlockVictim, tables
<1>7. ASSUME \/ \E q \in Requests : Disturb(q)
             \/ \E u \in Users, d \in {"present", "away", "inactive"} :
                  SetDuty(u, d)
             \/ UNCHANGED vars
      PROVE  UNCHANGED req
  BY <1>7 DEF Disturb, HookFails, Fail, SetDuty, vars, tables
<1> QED
  BY <1>1, <1>2, <1>3, <1>4, <1>5, <1>6, <1>7 DEF Next, Idle

(* What one step does to one request p: nothing, or p arrives, or p moves  *)
(* on within its operation.                                                *)
Still(p) == /\ pc'[p] = pc[p] /\ job'[p] = job[p]
            /\ mine'[p].row = mine[p].row

Opens(p) ==
  \E r \in Reqs, u \in Users :
    \/ \E sup \in Users : BeginCreate(p, r, u, sup)
    \/ RefuseCreate(p, r, u)
    \/ \E kind \in Kinds : Refuse(p, kind, r, u)
    \/ \E kind \in Kinds, dto \in Dtos \cup {<<>>} : Read(p, kind, r, u, dto)

Leaves(p) ==
  /\ InProgress(p) /\ job'[p] = job[p]
  /\ pc'[p] \in Ended \cup {"inserted", "saved", "alerted"}

Works(p) ==
  /\ pc[p] \in Transaction /\ job'[p] = job[p]
  /\ pc'[p] \in {"link", "fk", "stock"}

(* What one request does leaves every other request where it is.           *)
LEMMA OtherStill ==
  ASSUME IInv, NEW p \in Requests, NEW q \in Requests, q # p,
         Opens(q) \/ Proceed(q) \/ Disturb(q)
  PROVE  Still(p)
<1>0. TypeOK /\ Control
  BY DEF IInv
<1>1. CASE Opens(q)
  <2>3. PICK r1 \in Reqs, u1 \in Users :
          \/ \E sup \in Users : BeginCreate(q, r1, u1, sup)
          \/ RefuseCreate(q, r1, u1)
          \/ \E kind1 \in Kinds : Refuse(q, kind1, r1, u1)
          \/ \E kind1 \in Kinds, dto \in Dtos \cup {<<>>} :
               Read(q, kind1, r1, u1, dto)
    BY <1>1 DEF Opens
  <2>1. \E kind : Arrives(q, kind, r1, u1)
    BY <2>3 DEF BeginCreate, RefuseCreate, Read, Refuse
  <2>2. job'[p] = job[p]
    BY <1>0, <1>1, <2>1, ArrivesControl
  <2>4. pc'[p] = pc[p] /\ mine'[p] = mine[p]
    <3>1. ASSUME NEW sup \in Users, BeginCreate(q, r1, u1, sup)
          PROVE  pc'[p] = pc[p] /\ mine'[p] = mine[p]
      BY <1>0, <1>1, <3>1 DEF BeginCreate, Goto, TypeOK
    <3>2. ASSUME \E label \in Ended : End(q, label)
          PROVE  pc'[p] = pc[p] /\ mine'[p] = mine[p]
      BY <1>0, <1>1, <3>2 DEF End, Goto, TypeOK
    <3>3. ASSUME NEW kind1 \in Kinds, NEW dto \in Dtos \cup {<<>>},
                 Read(q, kind1, r1, u1, dto)
          PROVE  pc'[p] = pc[p] /\ mine'[p] = mine[p]
      BY <1>0, <1>1, <3>3 DEF Read, Goto, TypeOK
    <3> QED
      BY <2>3, <3>1, <3>2, <3>3 DEF RefuseCreate, Refuse, Ended
  <2> QED
    BY <2>2, <2>4 DEF Still
<1>2. CASE Proceed(q) \/ Disturb(q)
  <2>1. UNCHANGED job
    BY <1>2 DEF Proceed, Disturb, InsertRequisition, InsertItems,
       RecordDecision, LoadForSave, Save, SaveFails, UpdateItem,
       CheckForeignKey, DrawStock, CommitFulfill, RunHook, StampAlert, Finish,
       DeadlockVictim, HookFails, Fail
  <2>2. ASSUME NEW label, End(q, label) \/ Goto(q, label)
        PROVE  pc'[p] = pc[p]
    BY <1>0, <1>2, <2>2 DEF End, Goto, TypeOK
  <2>3. pc'[p] = pc[p]
    BY <1>2, <2>2 DEF Proceed, Disturb, InsertRequisition, InsertItems,
       RecordDecision, LoadForSave, Save, SaveFails, UpdateItem,
       CheckForeignKey, DrawStock, CommitFulfill, RunHook, StampAlert, Finish,
       DeadlockVictim, HookFails, Fail
  <2>4. mine'[p] = mine[p]
    <3>1. ASSUME NEW label, End(q, label)
          PROVE  mine'[p] = mine[p]
      BY <1>0, <1>2, <3>1 DEF End, TypeOK
    <3>2. ASSUME UpdateItem(q) \/ LoadForSave(q)
          PROVE  mine'[p] = mine[p]
      BY <1>0, <1>2, <3>1, <3>2 DEF UpdateItem, LoadForSave, TypeOK
    <3> QED
      BY <1>2, <3>1, <3>2 DEF Proceed, Disturb, InsertRequisition, InsertItems,
         RecordDecision, Save, SaveFails, CheckForeignKey, DrawStock,
         CommitFulfill, RunHook, StampAlert, Finish, DeadlockVictim, HookFails,
         Fail
  <2> QED
    BY <2>1, <2>3, <2>4 DEF Still
<1> QED
  BY <1>1, <1>2

(* What a step means for one request p: it stays, opens, leaves, works on, *)
(* records its decision or loads for its save().                           *)
LEMMA OneMoves ==
  ASSUME IInv, [Next]_vars, NEW p \in Requests
  PROVE  \/ Still(p) \/ Opens(p) \/ Leaves(p) \/ Works(p)
         \/ RecordDecision(p) \/ LoadForSave(p)
<1>0. TypeOK /\ Control
  BY DEF IInv
<1>3. ASSUME Proceed(p) \/ Disturb(p)
      PROVE  \/ Still(p) \/ Leaves(p) \/ Works(p)
             \/ RecordDecision(p) \/ LoadForSave(p)
  <2>1. ASSUME NEW label \in Ended, End(p, label), UNCHANGED job, InProgress(p)
        PROVE  Leaves(p)
    BY <1>0, <2>1 DEF End, Goto, Leaves, TypeOK
  <2>2. ASSUME \/ SaveFails(p) \/ Finish(p) \/ DeadlockVictim(p) \/ Fail(p)
        PROVE  Leaves(p)
    <3>1. InProgress(p) /\ UNCHANGED job /\ \E label \in Ended : End(p, label)
      BY <2>2 DEF SaveFails, Finish, DeadlockVictim, Deadlocked, WaitsFor,
                  Fail, InProgress, Ended
    <3> QED
      BY <2>1, <3>1
  <2>3. ASSUME InsertRequisition(p)
        PROVE  Leaves(p)
    <3>1. InProgress(p) /\ UNCHANGED job
      BY <2>3 DEF InsertRequisition, InProgress, Ended
    <3>2. End(p, "failed") \/ pc' = [pc EXCEPT ![p] = "inserted"]
      BY <2>3 DEF InsertRequisition, Goto
    <3> QED
      BY <1>0, <2>1, <3>1, <3>2 DEF Ended, Leaves, TypeOK
  <2>4. ASSUME InsertItems(p) \/ Save(p) \/ CommitFulfill(p) \/ StampAlert(p)
               \/ HookFails(p)
        PROVE  Leaves(p)
    BY <1>0, <2>4 DEF InsertItems, Save, CommitFulfill, StampAlert, HookFails,
                      Goto, Leaves, InProgress, Ended, TypeOK
  <2>5. ASSUME RunHook(p)
        PROVE  Leaves(p)
    BY <1>0, <2>5 DEF RunHook, Goto, Leaves, InProgress, Ended, TypeOK
  <2>6. ASSUME UpdateItem(p) \/ DrawStock(p)
        PROVE  Leaves(p) \/ Works(p)
    <3>1. UNCHANGED job /\ pc[p] \in Transaction /\ InProgress(p)
      BY <2>6 DEF UpdateItem, DrawStock, Transaction, InProgress, Ended
    <3>2. \/ End(p, "refused")
          \/ \E label \in {"link", "fk"} : pc' = [pc EXCEPT ![p] = label]
      BY <2>6 DEF UpdateItem, DrawStock, Goto
    <3> QED
      BY <1>0, <2>1, <3>1, <3>2 DEF Works, Ended, TypeOK
  <2>7. ASSUME CheckForeignKey(p)
        PROVE  Works(p)
    BY <1>0, <2>7 DEF CheckForeignKey, Goto, Works, Transaction, TypeOK
  <2> QED
    BY <1>3, <2>2, <2>3, <2>4, <2>5, <2>6, <2>7 DEF Proceed, Disturb
<1>4. ASSUME \/ \E u \in Users, d \in {"present", "away", "inactive"} :
                  SetDuty(u, d)
             \/ UNCHANGED vars
      PROVE  Still(p)
  BY <1>4 DEF SetDuty, vars, handlers, Still
<1>5. (Submit \/ Open) => \E q \in Requests : Opens(q)
  BY DEF Submit, Open, Opens
<1> QED
  BY <1>3, <1>4, <1>5, OtherStill DEF Next, Idle

-----------------------------------------------------------------------------
(* Every step preserves Intent.                                            *)
LEMMA NextIntent ==
  ASSUME IInv, DecisionOnRecord, Intent, [Next]_vars
  PROVE  Intent'
<1> SUFFICES ASSUME NEW p \in Requests
             PROVE  IntentAt(p)'
  BY DEF Intent
<1>0. TypeOK /\ Control /\ ControlAt(p) /\ IntentAt(p)
  BY DEF IInv, Control, Intent
<1>1. CASE Still(p)
  BY <1>0, <1>1, DecisionStays DEF Still, IntentAt, Target
<1>2. CASE Opens(p)
  <2>1. PICK r \in Reqs, u \in Users :
          \/ \E sup \in Users : BeginCreate(p, r, u, sup)
          \/ RefuseCreate(p, r, u)
          \/ \E kind \in Kinds : Refuse(p, kind, r, u)
          \/ \E kind \in Kinds, dto \in Dtos \cup {<<>>} :
                Read(p, kind, r, u, dto)
    BY <1>2 DEF Opens
  <2>2. CASE pc'[p] \in Ended \cup {"counted", "checked"}
    BY <2>2 DEF IntentAt, Ended, Transaction
  <2>3. ASSUME NEW sup \in Users, BeginCreate(p, r, u, sup)
        PROVE  pc'[p] = "counted"
    BY <1>0, <2>3 DEF BeginCreate, Goto, TypeOK
  <2>4. ASSUME \E label \in Ended : End(p, label)
        PROVE  pc'[p] \in Ended
    BY <1>0, <2>4 DEF End, Goto, TypeOK
  <2>5. ASSUME NEW kind \in Kinds, NEW dto \in Dtos \cup {<<>>},
               Read(p, kind, r, u, dto)
        PROVE  IntentAt(p)'
    <3>1. Arrives(p, kind, r, u) /\ Accepts(kind, Loaded(r), u)
          /\ pc'[p] = AfterRead(kind)
      BY <1>0, <2>5 DEF Read, Goto, TypeOK
    <3>2. job'[p].kind = kind /\ job'[p].target = r
      BY <1>0, <3>1, ArrivesControl
    <3>3. CASE kind \in {"approve", "reject"}
      BY <3>1, <3>3 DEF IntentAt, AfterRead, Transaction
    <3>4. CASE kind \in {"hold", "fulfill"}
      <4>1. req[r].status \in {"pending_fulfillment", "on_hold"}
        BY <3>1, <3>4 DEF Accepts, Loaded, Fulfillable
      <4>2. HasDecision(r, "approved")'
        BY <4>1, DecisionStays DEF DecisionOnRecord
      <4> QED
        BY <3>1, <3>2, <3>4, <4>2 DEF IntentAt, AfterRead, Target, Transaction
    <3> QED
      BY <3>1, <3>3, <3>4 DEF Accepts
  <2> QED
    BY <2>1, <2>2, <2>3, <2>4, <2>5 DEF RefuseCreate, Refuse, Ended
<1>3. CASE Leaves(p)
  BY <1>3 DEF Leaves, IntentAt, Ended, Transaction
<1>4. CASE Works(p)
  BY <1>0, <1>4, DecisionStays DEF Works, IntentAt, Target, Transaction
<1>5. CASE RecordDecision(p)
  <2>1. pc[p] = "checked" /\ pc'[p] = "deciding" /\ UNCHANGED job
    BY <1>0, <1>5 DEF RecordDecision, Goto, TypeOK
  <2>2. job[p].kind \in {"approve", "reject"}
    BY <1>0, <2>1 DEF ControlAt
  <2>3. \E a \in approvals' : a.req = Target(p) /\ a.action = Decision(p)
    <3> DEFINE a == [request |-> p, req |-> Target(p), approver |-> job[p].actor,
                     action |-> Decision(p)]
    <3>1. a \in approvals'
      BY <1>5 DEF RecordDecision
    <3>2. a.req = Target(p) /\ a.action = Decision(p)
      OBVIOUS
    <3> QED
      BY <3>1, <3>2
  <2>4. HasDecision(Target(p), Decision(p))'
    BY <2>1, <2>3 DEF HasDecision, Target, Decision
  <2> QED
    BY <2>1, <2>2, <2>4 DEF IntentAt, Decision, Target, Transaction
<1>6. CASE LoadForSave(p)
  <2>1. /\ UNCHANGED job
        /\ \/ pc[p] = "deciding" /\ pc'[p] = "saving"
           \/ pc[p] = "link" /\ pc'[p] = "reloaded"
    BY <1>0, <1>6 DEF LoadForSave, Goto, TypeOK
  <2>2. mine'[p].row = Outcome(p, mine[p].row)
    <3>1. mine[p] \in Copy
      BY <1>0 DEF TypeOK
    <3> QED
      BY <1>0, <1>6, <3>1 DEF LoadForSave, TypeOK, Copy
  <2>3. job[p].kind \in {"approve", "reject", "hold", "fulfill"}
    BY <1>0, <2>1 DEF ControlAt, Transaction
  <2>4. mine[p].row \in Row
    BY <1>0 DEF TypeOK, Copy
  <2>5. Outcome(p, mine[p].row).status = StatusAfter[job[p].kind]
    BY <2>3, <2>4 DEF Outcome, StatusAfter, Row
  <2> QED
    BY <1>0, <2>1, <2>2, <2>5, DecisionStays
    DEF IntentAt, ControlAt, Target, Transaction
<1> QED
  BY <1>1, <1>2, <1>3, <1>4, <1>5, <1>6, OneMoves

(* Every step preserves DecisionOnRecord.                                  *)
LEMMA NextDecision ==
  ASSUME IInv, DecisionOnRecord, Intent, [Next]_vars
  PROVE  DecisionOnRecord'
<1> SUFFICES ASSUME NEW r \in Reqs
             PROVE  /\ req'[r].status \in
                          {"pending_fulfillment", "on_hold", "fulfilled"}
                          => HasDecision(r, "approved")'
                    /\ req'[r].status = "rejected"
                          => HasDecision(r, "rejected")'
  BY DEF DecisionOnRecord
<1>1. CASE req'[r].status = req[r].status
  BY <1>1, DecisionStays DEF DecisionOnRecord
<1>2. ASSUME NEW q \in Requests, Inserts(q, r)
      PROVE  req'[r].status = "pending_supervisor"
  BY <1>2 DEF Inserts, IInv, Control, ControlAt
<1>3. ASSUME NEW q \in Requests, Saves(q, r)
      PROVE  /\ req'[r].status \in
                   {"pending_fulfillment", "on_hold", "fulfilled"}
                   => HasDecision(r, "approved")
             /\ req'[r].status = "rejected" => HasDecision(r, "rejected")
  <2>1. req'[r].status = StatusAfter[job[q].kind] /\ Target(q) = r
        /\ IntentAt(q) /\ ControlAt(q)
    BY <1>3 DEF Saves, Intent, IntentAt, IInv, Control
  <2>2. CASE pc[q] = "saving"
    <3>1. CASE job[q].kind \in {"approve", "hold"}
      BY <2>1, <2>2, <3>1 DEF IntentAt, StatusAfter
    <3>2. CASE job[q].kind = "reject"
      BY <2>1, <2>2, <3>2 DEF IntentAt, StatusAfter
    <3> QED
      BY <2>1, <2>2, <3>1, <3>2 DEF ControlAt
  <2>3. CASE pc[q] = "reloaded"
    BY <2>1, <2>3 DEF IntentAt, ControlAt, StatusAfter, Transaction
  <2> QED
    BY <1>3, <2>2, <2>3 DEF Saves
<1> QED
  BY <1>1, <1>2, <1>3, StatusSteps, DecisionStays

(* Every step preserves Creation.                                          *)
LEMMA NextCreation ==
  ASSUME IInv, Intent, Creation, [Next]_vars
  PROVE  Creation'
<1>0. /\ TypeOK /\ Control
      /\ \A q \in Requests : CreationAt(q) /\ IntentAt(q) /\ ControlAt(q)
  BY DEF IInv, Control, Intent, Creation
<1>1. ASSUME NEW r \in Reqs, req[r].status # "absent"
      PROVE  req'[r].status # "absent"
  <2>1. ASSUME NEW q \in Requests, Inserts(q, r)
        PROVE  req'[r].status # "absent"
    BY <1>0, <2>1 DEF Inserts, ControlAt
  <2>2. ASSUME NEW q \in Requests, Saves(q, r)
        PROVE  req'[r].status # "absent"
    BY <1>0, <2>2 DEF Saves, IntentAt, ControlAt, StatusAfter, Transaction
  <2> QED
    BY <1>1, <2>1, <2>2, StatusSteps
<1>2. ASSUME NEW p \in Requests
      PROVE  CreationAt(p)'
  <2>1. CASE Still(p)
    <3>1. CASE pc[p] = "counted"
      <4>1. Target(p) \in Reqs /\ job[p].kind = "create"
            /\ req[Target(p)].status = "absent"
        BY <1>0, <3>1 DEF CreationAt, ControlAt
      <4>2. ASSUME NEW q \in Requests, Inserts(q, Target(p))
            PROVE  FALSE
        <5>1. job[q].kind = "create" /\ Target(q) = Target(p)
              /\ pc'[q] = "inserted"
          BY <1>0, <4>2 DEF Inserts, ControlAt
        <5>2. p = q
          BY <4>1, <5>1 DEF Creation, OnceAt
        <5> QED
          BY <2>1, <3>1, <5>1, <5>2 DEF Still
      <4>3. ASSUME NEW q \in Requests, Saves(q, Target(p))
            PROVE  FALSE
        <5>1. InProgress(q) /\ job[q].kind # "create"
          BY <1>0, <4>3 DEF Saves, ControlAt, InProgress, Ended, Transaction
        <5> QED
          BY <1>0, <4>1, <4>3, <5>1 DEF Saves, CreationAt
      <4>4. req'[Target(p)].status = "absent"
        BY <4>1, <4>2, <4>3, StatusSteps
      <4> QED
        BY <2>1, <3>1, <4>1, <4>4 DEF Still, CreationAt, Target
    <3>2. CASE pc[p] # "counted"
      <4>1. InProgress(p) => Target(p) \in Reqs
        BY <1>0 DEF ControlAt, InProgress
      <4> QED
        BY <1>0, <1>1, <2>1, <3>2, <4>1 DEF Still, CreationAt, Target, InProgress
    <3> QED
      BY <3>1, <3>2
  <2>2. CASE Opens(p)
    <3>1. PICK r \in Reqs, u \in Users :
            \/ \E sup \in Users : BeginCreate(p, r, u, sup)
            \/ RefuseCreate(p, r, u)
            \/ \E kind \in Kinds : Refuse(p, kind, r, u)
            \/ \E kind \in Kinds, dto \in Dtos \cup {<<>>} :
                  Read(p, kind, r, u, dto)
      BY <2>2 DEF Opens
    <3>2. ASSUME NEW sup \in Users, BeginCreate(p, r, u, sup)
          PROVE  CreationAt(p)'
      <4>1. /\ Arrives(p, "create", r, u) /\ pc'[p] = "counted"
            /\ req[r].status = "absent" /\ UNCHANGED req
        BY <1>0, <3>2 DEF BeginCreate, Goto, TypeOK, tables
      <4>2. job'[p].kind = "create" /\ job'[p].target = r
        BY <1>0, <4>1, ArrivesControl
      <4> QED
        BY <4>1, <4>2 DEF CreationAt, Target
    <3>3. ASSUME \E label \in Ended : End(p, label)
          PROVE  CreationAt(p)'
      <4>1. pc'[p] \in Ended
        BY <1>0, <3>3 DEF End, Goto, TypeOK
      <4> QED
        BY <4>1 DEF CreationAt, InProgress, Ended
    <3>4. ASSUME NEW kind \in Kinds, NEW dto \in Dtos \cup {<<>>},
                 Read(p, kind, r, u, dto)
          PROVE  CreationAt(p)'
      <4>1. /\ Arrives(p, kind, r, u) /\ Accepts(kind, Loaded(r), u)
            /\ pc'[p] = AfterRead(kind) /\ UNCHANGED req /\ kind # "create"
        BY <1>0, <3>4 DEF Read, Goto, TypeOK, tables
      <4>2. job'[p].kind = kind /\ job'[p].target = r
        BY <1>0, <4>1, ArrivesControl
      <4>3. req[r].status # "absent"
        BY <4>1 DEF Accepts, MayDecide, Loaded, Fulfillable
      <4>4. pc'[p] # "counted"
        BY <4>1 DEF AfterRead, Accepts
      <4> QED
        BY <4>1, <4>2, <4>3, <4>4 DEF CreationAt, Target
    <3> QED
      BY <3>1, <3>2, <3>3, <3>4 DEF RefuseCreate, Refuse, Ended
  <2>3. ASSUME job'[p] = job[p], InProgress(p), pc'[p] # "counted"
        PROVE  CreationAt(p)'
    <3>1. Target(p) \in Reqs
      BY <1>0, <2>3 DEF ControlAt, InProgress
    <3> QED
      BY <1>0, <1>1, <2>3, <3>1 DEF CreationAt, Target
  <2>4. ASSUME Leaves(p) \/ Works(p) \/ RecordDecision(p) \/ LoadForSave(p)
        PROVE  job'[p] = job[p] /\ InProgress(p) /\ pc'[p] # "counted"
    BY <1>0, <2>4 DEF Leaves, Works, RecordDecision, LoadForSave, InProgress,
                      Ended, Transaction, Goto, TypeOK
  <2> QED
    BY <2>1, <2>2, <2>3, <2>4, OneMoves
<1>3. ASSUME NEW p \in Requests, NEW q \in Requests
      PROVE  OnceAt(p, q)'
  <2>1. ASSUME NEW x \in Requests
        PROVE  \/ job'[x] = job[x]
               \/ job'[x].kind # "create"
               \/ \A y \in Requests :
                    /\ job[y].kind = "create" => job[y].target # job'[x].target
                    /\ y # x => job'[y] = job[y]
    <3>1. CASE Opens(x)
      <4>1. PICK r \in Reqs, u \in Users :
              \/ \E sup \in Users : BeginCreate(x, r, u, sup)
              \/ RefuseCreate(x, r, u)
              \/ \E kind \in Kinds : Refuse(x, kind, r, u)
              \/ \E kind \in Kinds, dto \in Dtos \cup {<<>>} :
                    Read(x, kind, r, u, dto)
        BY <3>1 DEF Opens
      <4>2. \/ /\ Arrives(x, "create", r, u)
               /\ \A y \in Requests : job[y].kind = "create" => job[y].target # r
            \/ \E kind \in Kinds : Arrives(x, kind, r, u) /\ kind # "create"
        BY <4>1 DEF BeginCreate, RefuseCreate, Refuse, Read, Target
      <4> QED
        BY <1>0, <4>2, ArrivesControl
    <3>2. CASE ~Opens(x)
      BY <3>2, OneMoves DEF Still, Leaves, Works, RecordDecision, LoadForSave
    <3> QED
      BY <3>1, <3>2
  <2>2. OnceAt(p, q)
    BY DEF Creation
  <2> QED
    BY <2>1, <2>2 DEF OnceAt, Target
<1> QED
  BY <1>2, <1>3 DEF Creation

(* The seeded requisitions that are past their approval have their         *)
(* approval on record.                                                     *)
LEMMA InitDInv == Init => DInv
<1> SUFFICES ASSUME Init PROVE DecisionOnRecord /\ Intent /\ Creation
  BY InitIInv DEF DInv
<1>1. PICK number \in [Reqs -> 0..Cardinality(Reqs)], sup \in [Reqs -> Users] :
        SeedRows(number, sup)
  BY DEF Init
<1>2. ASSUME NEW r \in Reqs
      PROVE  req[r].status = Seed[r]
  BY <1>1 DEF SeedRows, SeedRow, NoRow
<1>3. ASSUME NEW r \in Reqs, Seed[r] = "pending_fulfillment"
      PROVE  HasDecision(r, "approved")
  <2> DEFINE a == [request |-> None, req |-> r, approver |-> sup[r],
                   action |-> "approved"]
  <2>1. a \in approvals
    BY <1>1, <1>3 DEF SeedRows
  <2>2. a.req = r /\ a.action = "approved"
    OBVIOUS
  <2> QED
    BY <2>1, <2>2 DEF HasDecision
<1>4. DecisionOnRecord
  BY <1>2, <1>3, RequestAssumption DEF DecisionOnRecord
<1>5. Intent
  BY DEF Init, Intent, IntentAt, Transaction
<1>6. Creation
  BY DEF Init, Creation, CreationAt, OnceAt, NoJob, InProgress
<1> QED
  BY <1>4, <1>5, <1>6

(* The inductive invariant behind DecisionSafe and StaysDecided holds in   *)
(* every reachable state.                                                  *)
THEOREM InductiveDecisions == Spec => []DInv
<1>1. DInv /\ [Next]_vars => DInv'
  BY NextIInv, NextDecision, NextIntent, NextCreation DEF DInv
<1> QED
  BY <1>1, InitDInv, PTL DEF Spec

(***************************************************************************)
(* A requisition is only where an approval, or a rejection, on record puts *)
(* it: however stale the copies that approve(), reject(), putOnHold() and  *)
(* fulfill() save over each other, and wherever a request is cut short.    *)
(***************************************************************************)
THEOREM DecisionSafe == Spec => []DecisionOnRecord
<1>1. DInv => DecisionOnRecord
  BY DEF DInv
<1> QED
  BY <1>1, InductiveDecisions, PTL

(* No step puts a requisition back into the supervisor's queue.            *)
LEMMA NotReopened ==
  ASSUME DInv, [Next]_vars, NEW r \in Reqs,
         req'[r].status = "pending_supervisor"
  PROVE  req[r].status \in {"absent", "pending_supervisor"}
<1>0. IInv /\ \A q \in Requests : /\ ControlAt(q) /\ IntentAt(q)
                                  /\ CreationAt(q)
  BY DEF DInv, IInv, Control, Intent, Creation
<1>1. CASE \E q \in Requests : Inserts(q, r)
  BY <1>0, <1>1 DEF Inserts, CreationAt
<1>2. ASSUME NEW q \in Requests, Saves(q, r)
      PROVE  FALSE
  <2>1. job[q].kind \in {"approve", "reject", "hold", "fulfill"}
    BY <1>0, <1>2 DEF Saves, ControlAt, Transaction
  <2> QED
    BY <1>0, <1>2, <2>1 DEF Saves, IntentAt, StatusAfter
<1> QED
  BY <1>0, <1>1, <1>2, StatusSteps

(***************************************************************************)
(* A requisition that left the supervisor's queue never comes back to it.  *)
(***************************************************************************)
THEOREM StaysDecided == Spec => NeverReopened
<1>1. DInv /\ [Next]_vars =>
        [\A r \in Reqs :
           req'[r].status = "pending_supervisor" =>
             req[r].status \in {"absent", "pending_supervisor"}]_vars
  BY NotReopened
<1> QED
  BY <1>1, InductiveDecisions, PTL DEF Spec, NeverReopened
-----------------------------------------------------------------------------
(* How a requisition's row changes: by the INSERT of a number nobody has,  *)
(* or by a save().                                                         *)
InsertsRow(q, r) ==
  /\ pc[q] = "counted" /\ pc'[q] = "inserted"
  /\ Target(q) = r
  /\ ~NumberTaken(mine[q].row.number)
  /\ req' = [req EXCEPT ![r] = mine[q].row]

SavesRow(q, r) ==
  /\ pc[q] \in {"saving", "reloaded"} /\ pc'[q] = "saved" /\ UNCHANGED job
  /\ Target(q) = r
  /\ req' = [req EXCEPT ![r] = SavedRow(@, base[q].row, mine[q].row)]

(* A step writes the row of at most one requisition, and only one of these *)
(* two ways.                                                               *)
LEMMA RowMoves ==
  ASSUME IInv, [Next]_vars
  PROVE  \/ UNCHANGED req
         \/ \E q \in Requests, r \in Reqs : InsertsRow(q, r) \/ SavesRow(q, r)
<1>0. TypeOK /\ Control
  BY DEF IInv
<1>1. ASSUME NEW q \in Requests, InsertRequisition(q)
      PROVE  UNCHANGED req \/ InsertsRow(q, Target(q))
  BY <1>0, <1>1 DEF InsertRequisition, InsertsRow, Goto, TypeOK
<1>2. ASSUME NEW q \in Requests, Save(q) \/ CommitFulfill(q)
      PROVE  SavesRow(q, Target(q))
  BY <1>0, <1>2 DEF Save, CommitFulfill, WriteSaved, SavesRow, Goto, TypeOK
<1>3. ASSUME NEW q \in Requests,
             InsertRequisition(q) \/ Save(q) \/ CommitFulfill(q)
      PROVE  Target(q) \in Reqs
  BY <1>0, <1>3 DEF Control, ControlAt, InsertRequisition, Save, CommitFulfill
<1>4. CASE Submit
  BY ZenonT(60), <1>4 DEF Submit, BeginCreate, RefuseCreate, tables
<1>5. CASE Open
  BY <1>5 DEF Open, Read, Refuse, tables
<1>6. ASSUME NEW q \in Requests, Proceed(q)
      PROVE  UNCHANGED req \/ InsertRequisition(q) \/ Save(q) \/ CommitFulfill(q)
  BY <1>6 DEF Proceed, InsertItems, RecordDecision, LoadForSave, SaveFails,
              UpdateItem, CheckForeignKey, DrawStock, RunHook, StampAlert,
              Finish, DeadlockVictim, tables
<1>7. ASSUME \/ \E q \in Requests : Disturb(q)
             \/ \E u \in Users, d \in {"present", "away", "inactive"} :
                  SetDuty(u, d)
             \/ UNCHANGED vars
      PROVE  UNCHANGED req
  BY <1>7 DEF Disturb, HookFails, Fail, SetDuty, vars, tables
<1> QED
  BY <1>1, <1>2, <1>3, <1>4, <1>5, <1>6, <1>7 DEF Next, Idle

(* What a step does to the copy of request p: it is made, loaded, left     *)
(* alone or thrown away.                                                   *)
Creates(p) == \E r \in Reqs, u \in Users, sup \in Users : BeginCreate(p, r, u, sup)

Reads(p) ==
  \E kind \in Kinds, r \in Reqs, u \in Users, dto \in Dtos \cup {<<>>} :
    Read(p, kind, r, u, dto)

Keeps(p) ==
  /\ job'[p] = job[p] /\ mine'[p].row = mine[p].row /\ base'[p] = base[p]
  /\ \/ pc'[p] = pc[p]
     \/ pc[p] = "checked" /\ pc'[p] = "deciding"
     \/ {pc[p], pc'[p]} \subseteq {"link", "fk", "stock"}

(* The row is written; what follows writes no row.                         *)
Written(p) ==
  /\ job'[p] = job[p] /\ mine'[p].row = mine[p].row /\ base'[p] = base[p]
  /\ \/ InsertsRow(p, Target(p))
     \/ pc'[p] \in {"saved", "alerted"}

LEMMA CopyMoves ==
  ASSUME IInv, [Next]_vars, NEW p \in Requests
  PROVE  \/ Creates(p) \/ Reads(p) \/ LoadForSave(p)
         \/ Keeps(p) \/ Written(p) \/ pc'[p] \in Ended
<1>0. TypeOK /\ Control
  BY DEF IInv
<1>1. ASSUME NEW label \in Ended, End(p, label)
      PROVE  pc'[p] \in Ended
  BY <1>0, <1>1 DEF End, Goto, TypeOK
<1>2. CASE Opens(p)
  BY <1>1, <1>2 DEF Opens, Creates, Reads, RefuseCreate, Refuse, Ended
<1>3. ASSUME NEW q \in Requests, q # p, Opens(q) \/ Proceed(q) \/ Disturb(q)
      PROVE  Keeps(p)
  <2>1. ASSUME NEW label, End(q, label)
        PROVE  base'[p] = base[p]
    BY <1>0, <1>3, <2>1 DEF End, TypeOK
  <2>2. base'[p] = base[p]
    <3>1. CASE Opens(q)
      BY ZenonT(60), <2>1, <3>1 DEF Opens, BeginCreate, RefuseCreate, Read, Refuse
    <3>2. CASE LoadForSave(q)
      BY <1>0, <1>3, <3>2 DEF LoadForSave, TypeOK
    <3> QED
      BY <1>3, <2>1, <3>1, <3>2 DEF Proceed, Disturb, InsertRequisition,
         InsertItems, RecordDecision, Save, SaveFails, UpdateItem,
         CheckForeignKey, DrawStock, CommitFulfill, RunHook, StampAlert,
         Finish, DeadlockVictim, HookFails, Fail
  <2>3. Still(p)
    BY <1>3, OtherStill
  <2> QED
    BY <2>2, <2>3 DEF Still, Keeps
<1>4. ASSUME Proceed(p) \/ Disturb(p), ~LoadForSave(p), pc'[p] \notin Ended
      PROVE  Keeps(p) \/ Written(p)
  <2>1. ~\E label \in Ended : End(p, label)
    BY <1>1, <1>4
  <2>2. job'[p] = job[p] /\ base'[p] = base[p]
    BY <1>4, <2>1 DEF Proceed, Disturb, InsertRequisition,
       InsertItems, RecordDecision, Save, SaveFails, UpdateItem,
       CheckForeignKey, DrawStock, CommitFulfill, RunHook, StampAlert,
       Finish, DeadlockVictim, HookFails, Fail, Ended
  <2>3. mine'[p].row = mine[p].row
    <3>1. CASE UpdateItem(p)
      <4>1. mine[p] \in Copy
        BY <1>0 DEF TypeOK
      <4> QED
        BY <1>0, <2>1, <3>1, <4>1 DEF UpdateItem, TypeOK, Copy, Ended
    <3> QED
      BY <1>4, <2>1, <3>1 DEF Proceed, Disturb, InsertRequisition,
         InsertItems, RecordDecision, Save, SaveFails,
         CheckForeignKey, DrawStock, CommitFulfill, RunHook, StampAlert,
         Finish, DeadlockVictim, HookFails, Fail, Ended
  <2>4. \/ pc'[p] \in {"saved", "alerted"} \/ pc'[p] = pc[p]
        \/ InsertsRow(p, Target(p))
        \/ pc[p] = "checked" /\ pc'[p] = "deciding"
        \/ {pc[p], pc'[p]} \subseteq {"link", "fk", "stock"}
    <3>1. CASE InsertRequisition(p) \/ InsertItems(p) \/ RecordDecision(p)
      BY <1>0, <2>1, <3>1 DEF InsertRequisition, InsertItems, RecordDecision,
         InsertsRow, Goto, TypeOK, Ended
    <3>2. CASE Save(p) \/ CommitFulfill(p) \/ StampAlert(p) \/ HookFails(p)
      BY <1>0, <3>2 DEF Save, CommitFulfill, StampAlert, HookFails, Goto, TypeOK
    <3>3. CASE RunHook(p)
      BY <1>0, <3>3 DEF RunHook, Goto, TypeOK
    <3>4. CASE UpdateItem(p) \/ DrawStock(p)
      BY <1>0, <2>1, <3>4 DEF UpdateItem, DrawStock, Goto, TypeOK, Ended
    <3>5. CASE CheckForeignKey(p)
      BY <1>0, <3>5 DEF CheckForeignKey, Goto, TypeOK
    <3> QED
      BY <1>4, <2>1, <3>1, <3>2, <3>3, <3>4, <3>5
      DEF Proceed, Disturb, SaveFails, Finish, DeadlockVictim, Fail, Ended
  <2> QED
    BY <2>2, <2>3, <2>4 DEF Keeps, Written
<1>5. ASSUME \/ \E u \in Users, d \in {"present", "away", "inactive"} :
                  SetDuty(u, d)
             \/ UNCHANGED vars
      PROVE  Keeps(p)
  BY <1>5 DEF SetDuty, vars, handlers, Keeps
<1>6. (Submit \/ Open) => \E q \in Requests : Opens(q)
  BY DEF Submit, Open, Opens
<1> QED
  BY <1>2, <1>3, <1>4, <1>5, <1>6 DEF Next, Idle, Proceed

(* What a request that has just read its requisition knows.                *)
HasRead(p, kind, r, u) ==
  /\ Arrives(p, kind, r, u) /\ Accepts(kind, Loaded(r), u)
  /\ job'[p] = [kind |-> kind, target |-> r, actor |-> u]
  /\ kind \in {"approve", "reject", "hold", "fulfill"}
  /\ req[r].status # "absent"
  /\ mine'[p].row = req[r]
  /\ pc'[p] = AfterRead(kind)
  /\ UNCHANGED <<req, itemRows, primary, approvals>>

LEMMA ReadKnows ==
  ASSUME IInv, NEW p \in Requests, Reads(p)
  PROVE  \E kind \in Kinds, r \in Reqs, u \in Users : HasRead(p, kind, r, u)
<1>1. PICK kind \in Kinds, r \in Reqs, u \in Users, dto \in Dtos \cup {<<>>} :
        Read(p, kind, r, u, dto)
  BY DEF Reads
<1>2. /\ Arrives(p, kind, r, u) /\ Accepts(kind, Loaded(r), u)
      /\ job'[p] = [kind |-> kind, target |-> r, actor |-> u]
      /\ mine'[p].row = req[r] /\ pc'[p] = AfterRead(kind)
      /\ UNCHANGED <<req, itemRows, primary, approvals>>
  BY <1>1 DEF Read, Arrives, Goto, Loaded, IInv, TypeOK, tables, history
<1>3. kind \in {"approve", "reject", "hold", "fulfill"}
      /\ req[r].status # "absent"
  BY <1>2 DEF Accepts, MayDecide, Loaded, Fulfillable
<1> QED
  BY <1>2, <1>3 DEF HasRead

(* What a submission that has just been numbered holds.                    *)
HasCreated(p, r, u, sup) ==
  /\ Arrives(p, "create", r, u) /\ req[r].status = "absent"
  /\ \A y \in Requests : job[y].kind = "create" => Target(y) # r
  /\ job'[p] = [kind |-> "create", target |-> r, actor |-> u]
  /\ mine'[p].row = [NoRow EXCEPT !.status = "pending_supervisor",
                       !.number = Cardinality(Submitted) + 1,
                       !.supervisor = Approver(sup),
                       !.routed = (Approver(sup) # sup)]
  /\ Role[sup] = "supervisor"
  /\ primary' = [primary EXCEPT ![r] = sup]
  /\ pc'[p] = "counted"
  /\ UNCHANGED <<req, itemRows, approvals>>

LEMMA CreateKnows ==
  ASSUME IInv, NEW p \in Requests, Creates(p)
  PROVE  \E r \in Reqs, u \in Users, sup \in Users : HasCreated(p, r, u, sup)
<1>1. PICK r \in Reqs, u \in Users, sup \in Users : BeginCreate(p, r, u, sup)
  BY DEF Creates
<1> DEFINE row == [NoRow EXCEPT !.status = "pending_supervisor",
                     !.number = Cardinality(Submitted) + 1,
                     !.supervisor = Approver(sup),
                     !.routed = (Approver(sup) # sup)]
<1>2. /\ Arrives(p, "create", r, u) /\ req[r].status = "absent"
      /\ \A y \in Requests : job[y].kind = "create" => Target(y) # r
      /\ mine' = [mine EXCEPT ![p].row = row]
      /\ Role[sup] = "supervisor"
      /\ primary' = [primary EXCEPT ![r] = sup]
      /\ pc' = [pc EXCEPT ![p] = "counted"]
      /\ UNCHANGED <<req, itemRows, approvals>>
  BY <1>1, Zenon DEF BeginCreate, Goto, tables
<1>3. job'[p] = [kind |-> "create", target |-> r, actor |-> u]
      /\ pc'[p] = "counted"
  BY <1>2 DEF Arrives, IInv, TypeOK
<1>4. mine'[p].row = row
  <2> HIDE DEF row
  <2>1. mine \in [Requests -> Copy] /\ mine[p] \in Copy
    BY DEF IInv, TypeOK
  <2> QED
    BY <1>2, <2>1 DEF Copy
<1> QED
  BY <1>2, <1>3, <1>4, Zenon DEF HasCreated

(* What save() will write: the copy, with the columns of the outcome.      *)
LEMMA LoadKnows ==
  ASSUME IInv, NEW p \in Requests, LoadForSave(p)
  PROVE  /\ job' = job /\ Target(p) \in Reqs
         /\ job[p].kind \in {"approve", "reject", "hold", "fulfill"}
         /\ \/ pc[p] = "deciding" /\ pc'[p] = "saving"
            \/ pc[p] = "link" /\ pc'[p] = "reloaded"
         /\ mine[p].row \in Row
         /\ mine'[p].row = Outcome(p, mine[p].row)
         /\ base'[p].row = req[Target(p)]
         /\ UNCHANGED <<req, itemRows, primary, approvals>>
<1>1. TypeOK /\ ControlAt(p) /\ mine[p] \in Copy /\ mine[p].row \in Row
  BY DEF IInv, TypeOK, Control, Copy
<1>2. /\ job' = job
      /\ \/ pc[p] = "deciding" /\ pc'[p] = "saving"
         \/ pc[p] = "link" /\ pc'[p] = "reloaded"
      /\ mine' = [mine EXCEPT ![p].row = Outcome(p, @)]
      /\ base' = [base EXCEPT ![p] = Loaded(Target(p))]
      /\ UNCHANGED <<req, itemRows, primary, approvals>>
  BY <1>1 DEF LoadForSave, Goto, TypeOK, tables, history
<1>3. mine'[p].row = Outcome(p, mine[p].row)
  BY <1>1, <1>2 DEF TypeOK, Copy
<1>4. base'[p].row = req[Target(p)]
  BY <1>1, <1>2 DEF TypeOK, Loaded
<1>5. Target(p) \in Reqs /\ job[p].kind \in {"approve", "reject", "hold", "fulfill"}
  BY <1>1, <1>2 DEF ControlAt, Transaction
<1> QED
  BY <1>1, <1>2, <1>3, <1>4, <1>5

(* A requisition that is submitted stays submitted.                        *)
LEMMA SubmittedStays ==
  ASSUME DInv, [Next]_vars, NEW r \in Submitted
  PROVE  r \in Submitted'
<1>0. \A q \in Requests : ControlAt(q) /\ IntentAt(q)
  BY DEF DInv, IInv, Control, Intent
<1>1. ASSUME NEW q \in Requests, Inserts(q, r) \/ Saves(q, r)
      PROVE  req'[r].status # "absent"
  BY <1>0, <1>1 DEF Inserts, Saves, ControlAt, IntentAt, StatusAfter, Transaction
<1> QED
  BY <1>1, StatusSteps DEF Submitted, DInv
-----------------------------------------------------------------------------
(* A save() that compares two equal statuses does not move a requisition   *)
(* that was decided since it was read.                                     *)
DecidedBase(q) ==
  pc[q] \in {"saving", "reloaded"} /\ base[q].row.status \notin Undecided =>
    req[Target(q)].status \notin Undecided

Based == \A q \in Requests : DecidedBase(q)

(* A save() never leaves a requisition in the supervisor's queue.          *)
LEMMA SavesDecide ==
  ASSUME DInv, NEW q \in Requests, NEW r \in Reqs, SavesRow(q, r),
         DecidedBase(q)
  PROVE  /\ req'[r].status \notin Undecided
         /\ \A x \in Reqs : x # r => req'[x] = req[x]
<1>1. /\ req \in [Reqs -> Row] /\ ControlAt(q) /\ IntentAt(q)
  BY DEF DInv, IInv, TypeOK, Control, Intent
<1>2. req'[r] = SavedRow(req[r], base[q].row, mine[q].row)
      /\ \A x \in Reqs : x # r => req'[x] = req[x]
  BY <1>1 DEF SavesRow
<1>3. mine[q].row.status \notin Undecided
  BY <1>1 DEF SavesRow, IntentAt, ControlAt, StatusAfter, Transaction, Undecided
<1>4. req'[r].status = IF mine[q].row.status # base[q].row.status
                       THEN mine[q].row.status ELSE req[r].status
  BY <1>2 DEF SavedRow, Columns
<1> QED
  BY <1>2, <1>3, <1>4 DEF SavesRow, DecidedBase

(* What a step of a request does to one requisition: nothing, or it is     *)
(* submitted, or it is left decided.                                       *)
LEMMA RowSteps ==
  ASSUME DInv, Based, [Next]_vars, NEW r \in Reqs
  PROVE  \/ req'[r] = req[r]
         \/ req[r].status = "absent" /\ req'[r].status # "absent"
         \/ req'[r].status \notin Undecided
<1>0. /\ IInv /\ req \in [Reqs -> Row]
      /\ \A q \in Requests : /\ ControlAt(q) /\ CreationAt(q) /\ DecidedBase(q)
  BY DEF DInv, IInv, TypeOK, Control, Creation, Based
<1>1. ASSUME NEW q \in Requests, NEW x \in Reqs, InsertsRow(q, x)
      PROVE  \/ req'[r] = req[r]
             \/ req[r].status = "absent" /\ req'[r].status # "absent"
  BY <1>0, <1>1 DEF InsertsRow, ControlAt, CreationAt
<1>2. ASSUME NEW q \in Requests, NEW x \in Reqs, SavesRow(q, x)
      PROVE  req'[r] = req[r] \/ req'[r].status \notin Undecided
  BY <1>0, <1>2, SavesDecide
<1> QED
  BY <1>0, <1>1, <1>2, RowMoves

(* What is decided stays decided.                                          *)
LEMMA DecidedStays ==
  ASSUME DInv, Based, [Next]_vars, NEW r \in Reqs,
         req[r].status \notin Undecided
  PROVE  req'[r].status \notin Undecided
BY RowSteps DEF Undecided

(* Every step preserves Based.                                             *)
LEMMA NextBased ==
  ASSUME DInv, Based, [Next]_vars
  PROVE  Based'
<1>0. /\ IInv /\ \A q \in Requests : ControlAt(q) /\ DecidedBase(q)
  BY DEF DInv, IInv, Control, Based
<1> SUFFICES ASSUME NEW p \in Requests,
                    pc'[p] \in {"saving", "reloaded"},
                    base'[p].row.status \notin Undecided
             PROVE  req'[Target(p)'].status \notin Undecided
  BY DEF Based, DecidedBase
<1>1. CASE LoadForSave(p)
  BY <1>0, <1>1, LoadKnows, DecidedStays DEF Target
<1>2. CASE Keeps(p)
  <2>1. /\ pc[p] = pc'[p] /\ job'[p] = job[p] /\ base'[p] = base[p]
    BY <1>2 DEF Keeps
  <2>2. Target(p)' = Target(p) /\ Target(p) \in Reqs
    BY <1>0, <2>1 DEF Target, ControlAt, Transaction
  <2> QED
    BY <1>0, <2>1, <2>2, DecidedStays DEF DecidedBase
<1>3. CASE Creates(p)
  BY <1>0, <1>3, CreateKnows DEF HasCreated
<1>4. CASE Reads(p)
  BY <1>0, <1>4, ReadKnows DEF HasRead, AfterRead
<1>5. CASE Written(p) \/ pc'[p] \in Ended
  BY <1>5 DEF Written, InsertsRow, Ended
<1> QED
  BY <1>0, <1>1, <1>2, <1>3, <1>4, <1>5, CopyMoves

(* No request is saving at the start.                                      *)
LEMMA InitBased == Init => Based
BY DEF Init, Based, DecidedBase

-----------------------------------------------------------------------------
(* The audit log.  A request that is past its write is on its way to the   *)
(* entry that reports it, or has written it.                               *)
Past == {"inserted", "saved", "alerted"}

(* The row of the approvals table that request q inserts.                  *)
Ruling(q) ==
  [request |-> q, req |-> Target(q), approver |-> job[q].actor,
   action |-> Decision(q)]

ReportAt(q) ==
  /\ pc[q] \in Past \cup {"done"} => Target(q) \in Submitted
  /\ pc[q] \in (Past \cup {"done"}) \ {"inserted"} /\ job[q].kind # "create" =>
       req[Target(q)].status \notin Undecided
  /\ /\ pc[q] \in {"deciding", "saving", "saved", "alerted", "done"}
     /\ job[q].kind \in {"approve", "reject"}
     => Ruling(q) \in approvals

EntryAt(e) ==
  /\ e.req \in Submitted
  /\ \/ e.action = "reassign"
     \/ /\ e.request \in Requests /\ pc[e.request] = "done"
        /\ Target(e.request) = e.req /\ job[e.request].kind = e.action

Reported == /\ \A q \in Requests : ReportAt(q)
            /\ \A e \in audit : EntryAt(e)

(* How a request gets past its write.                                      *)
LEMMA PastMoves ==
  ASSUME IInv, [Next]_vars, NEW p \in Requests,
         pc'[p] \in Past \cup {"done"}
  PROVE  /\ job'[p] = job[p]
         /\ \/ pc'[p] = pc[p]
            \/ InsertsRow(p, Target(p)) /\ pc'[p] = "inserted"
            \/ SavesRow(p, Target(p)) /\ pc'[p] = "saved"
            \/ pc[p] \in Past /\ pc'[p] # "inserted"
<1>0. TypeOK /\ Control
  BY DEF IInv
<1>1. ASSUME NEW label, End(p, label)
      PROVE  pc'[p] = label
  BY <1>0, <1>1 DEF End, Goto, TypeOK
<1>2. ASSUME NEW label, Goto(p, label)
      PROVE  pc'[p] = label
  BY <1>0, <1>2 DEF Goto, TypeOK
<1>3. CASE Opens(p)
  <2>1. PICK r \in Reqs, u \in Users :
          \/ \E sup \in Users : BeginCreate(p, r, u, sup)
          \/ RefuseCreate(p, r, u)
          \/ \E kind \in Kinds : Refuse(p, kind, r, u)
          \/ \E kind \in Kinds, dto \in Dtos \cup {<<>>} :
               Read(p, kind, r, u, dto)
    BY <1>3 DEF Opens
  <2>2. pc'[p] = "counted" \/ pc'[p] = "refused"
        \/ \E kind \in Kinds : Accepts(kind, Loaded(r), u) /\ pc'[p] = AfterRead(kind)
    BY <1>1, <1>2, <2>1 DEF BeginCreate, RefuseCreate, Refuse, Read
  <2> QED
    BY <2>2 DEF AfterRead, Accepts, Past
<1>4. CASE Proceed(p) \/ Disturb(p)
  <2>1. job' = job
    BY <1>4 DEF Proceed, Disturb, InsertRequisition, InsertItems,
       RecordDecision, LoadForSave, Save, SaveFails, UpdateItem,
       CheckForeignKey, DrawStock, CommitFulfill, RunHook, StampAlert, Finish,
       DeadlockVictim, HookFails, Fail
  <2>2. CASE InsertRequisition(p)
    BY <1>0, <1>1, <1>2, <2>2 DEF InsertRequisition, InsertsRow, Past
  <2>3. CASE Save(p) \/ CommitFulfill(p)
    BY <1>0, <1>2, <2>1, <2>3
    DEF Save, CommitFulfill, WriteSaved, SavesRow, TypeOK
  <2>4. CASE \/ InsertItems(p) \/ RunHook(p) \/ StampAlert(p) \/ Finish(p)
             \/ HookFails(p)
    BY <1>0, <1>1, <1>2, <2>4
    DEF InsertItems, RunHook, StampAlert, Finish, HookFails, Past
  <2>5. CASE \/ RecordDecision(p) \/ LoadForSave(p) \/ SaveFails(p)
             \/ UpdateItem(p) \/ CheckForeignKey(p) \/ DrawStock(p)
             \/ DeadlockVictim(p) \/ Fail(p)
    BY <1>1, <1>2, <2>5 DEF RecordDecision, LoadForSave, SaveFails, UpdateItem,
       CheckForeignKey, DrawStock, DeadlockVictim, Fail, Past
  <2> QED
    BY <1>4, <2>1, <2>2, <2>3, <2>4, <2>5 DEF Proceed, Disturb
<1>5. ASSUME NEW q \in Requests, q # p, Opens(q) \/ Proceed(q) \/ Disturb(q)
      PROVE  Still(p)
  BY <1>5, OtherStill
<1>6. ASSUME \/ \E u \in Users, d \in {"present", "away", "inactive"} :
                  SetDuty(u, d)
             \/ UNCHANGED vars
      PROVE  Still(p)
  BY <1>6 DEF SetDuty, vars, handlers, Still
<1>7. (Submit \/ Open) => \E q \in Requests : Opens(q)
  BY DEF Submit, Open, Opens
<1> QED
  BY <1>3, <1>4, <1>5, <1>6, <1>7 DEF Next, Idle, Still

(* A request that opens reads, is numbered or is refused.                  *)
LEMMA OpensCopy ==
  ASSUME IInv, NEW p \in Requests, Opens(p)
  PROVE  Reads(p) \/ Creates(p) \/ pc'[p] \in Ended
<1>1. ASSUME NEW label \in Ended, End(p, label)
      PROVE  pc'[p] \in Ended
  BY <1>1 DEF End, Goto, IInv, TypeOK
<1> QED
  BY <1>1 DEF Opens, Creates, Reads, RefuseCreate, Refuse, Ended

(* A request that has ended stays ended.                                   *)
LEMMA DoneStays ==
  ASSUME IInv, [Next]_vars, NEW p \in Requests, pc[p] \in Ended
  PROVE  pc'[p] = pc[p] /\ job'[p] = job[p]
<1>0. ASSUME NEW kind, NEW r, NEW u
      PROVE  ~Arrives(p, kind, r, u)
  BY DEF Arrives, Ended
<1>1. ~Opens(p)
  BY <1>0, Zenon DEF Opens, BeginCreate, RefuseCreate, Refuse, Read
<1>2. ~Leaves(p) /\ ~Works(p) /\ ~RecordDecision(p) /\ ~LoadForSave(p)
  BY DEF Leaves, Works, RecordDecision, LoadForSave, InProgress, Ended,
     Transaction
<1> QED
  BY <1>1, <1>2, OneMoves DEF Still

(* The audit log only grows, by what a request that ends well reports.     *)
LEMMA AuditMoves ==
  ASSUME IInv, [Next]_vars
  PROVE  \/ audit' = audit
         \/ \E q \in Requests : Finish(q)
<1>1. CASE Submit
  BY ZenonT(60), <1>1 DEF Submit, BeginCreate, RefuseCreate, tables
<1>2. CASE Open
  BY <1>2 DEF Open, Read, Refuse, tables
<1>3. ASSUME NEW q \in Requests, Proceed(q)
      PROVE  audit' = audit \/ Finish(q)
  BY <1>3 DEF Proceed, InsertRequisition, InsertItems, RecordDecision,
              LoadForSave, Save, SaveFails, UpdateItem, CheckForeignKey,
              DrawStock, CommitFulfill, RunHook, StampAlert,
              DeadlockVictim, tables
<1>4. ASSUME NEW q \in Requests, Disturb(q)
      PROVE  audit' = audit
  BY <1>4 DEF Disturb, HookFails, Fail, tables
<1>5. ASSUME \/ \E u \in Users, d \in {"present", "away", "inactive"} :
                  SetDuty(u, d)
             \/ UNCHANGED vars
      PROVE  audit' = audit
  BY <1>5 DEF SetDuty, vars, tables
<1> QED
  BY <1>1, <1>2, <1>3, <1>4, <1>5 DEF Next, Idle

(* A request that ends well was past its write, and reports that.          *)
LEMMA FinishKnows ==
  ASSUME IInv, NEW q \in Requests, Finish(q)
  PROVE  /\ pc[q] = "saved" /\ pc'[q] = "done" /\ job' = job
         /\ UNCHANGED <<req, approvals>>
         /\ audit \subseteq audit'
         /\ [request |-> q, req |-> Target(q), action |-> job[q].kind] \in audit'
         /\ \A e \in audit' \ audit :
              /\ e.request = q /\ e.req = Target(q)
              /\ e.action \in {job[q].kind, "reassign"}
<1>1. /\ pc[q] = "saved" /\ pc'[q] = "done" /\ job' = job
      /\ UNCHANGED <<req, approvals>>
      /\ audit' = Audited(q)
  BY DEF Finish, End, Goto, IInv, TypeOK
<1> DEFINE actions == {job[q].kind} \cup
                        (IF job[q].kind = "create" /\ mine[q].row.routed
                         THEN {"reassign"} ELSE {})
<1>2. audit' = audit \cup
        {[request |-> q, req |-> Target(q), action |-> a] : a \in actions}
  BY <1>1 DEF Audited
<1>3. job[q].kind \in actions /\ actions \subseteq {job[q].kind, "reassign"}
  OBVIOUS
<1> HIDE DEF actions
<1>4. [request |-> q, req |-> Target(q), action |-> job[q].kind] \in audit'
  BY <1>2, <1>3
<1>5. ASSUME NEW e \in audit' \ audit
      PROVE  /\ e.request = q /\ e.req = Target(q)
             /\ e.action \in {job[q].kind, "reassign"}
  BY <1>2, <1>3, <1>5
<1> QED
  BY <1>1, <1>2, <1>4, <1>5

(* Every step preserves Reported.                                          *)
LEMMA NextReported ==
  ASSUME DInv, Based, Reported, [Next]_vars
  PROVE  Reported'
<1>0. /\ IInv /\ TypeOK
      /\ \A q \in Requests : /\ ControlAt(q) /\ CreationAt(q)
                             /\ DecidedBase(q) /\ ReportAt(q)
  BY DEF DInv, IInv, Control, Creation, Based, Reported
<1>1. ASSUME NEW p \in Requests, pc'[p] \in Past \cup {"done"}
      PROVE  /\ Target(p)' = Target(p) /\ Target(p) \in Submitted'
             /\ pc'[p] # "inserted" /\ job[p].kind # "create" =>
                  req'[Target(p)].status \notin Undecided
  <2>0. /\ job'[p] = job[p] /\ Target(p)' = Target(p)
        /\ \/ pc'[p] = pc[p]
           \/ InsertsRow(p, Target(p)) /\ pc'[p] = "inserted"
           \/ SavesRow(p, Target(p)) /\ pc'[p] = "saved"
           \/ pc[p] \in Past /\ pc'[p] # "inserted"
    BY <1>0, <1>1, PastMoves DEF Target
  <2>1. CASE pc[p] \in Past \cup {"done"}
    <3>1. Target(p) \in Submitted /\ Target(p) \in Reqs
      BY <1>0, <2>1 DEF ReportAt, Submitted
    <3>2. CASE pc[p] = "inserted"
      BY <1>0, <2>0, <3>1, <3>2, SubmittedStays DEF ControlAt
    <3>3. CASE pc[p] # "inserted"
      BY <1>0, <2>0, <2>1, <3>1, <3>3, SubmittedStays, DecidedStays DEF ReportAt
    <3> QED
      BY <3>2, <3>3
  <2>2. CASE InsertsRow(p, Target(p)) /\ pc'[p] = "inserted"
    <3>1. Target(p) \in Reqs /\ mine[p].row.status = "pending_supervisor"
      BY <1>0, <2>2 DEF InsertsRow, ControlAt
    <3>2. req'[Target(p)] = mine[p].row
      BY <1>0, <2>2, <3>1 DEF InsertsRow, TypeOK
    <3> QED
      BY <2>0, <2>2, <3>1, <3>2 DEF Submitted
  <2>3. CASE SavesRow(p, Target(p)) /\ pc'[p] = "saved"
    <3>1. Target(p) \in Reqs
      BY <1>0, <2>3 DEF SavesRow, ControlAt, Transaction
    <3>2. req'[Target(p)].status \notin Undecided
      BY <1>0, <2>3, <3>1, SavesDecide
    <3> QED
      BY <2>0, <3>1, <3>2 DEF Submitted, Undecided
  <2> QED
    BY <1>1, <2>0, <2>1, <2>2, <2>3
<1>2. ASSUME NEW p \in Requests,
             pc'[p] \in {"deciding", "saving", "saved", "alerted", "done"},
             job'[p].kind \in {"approve", "reject"}
      PROVE  Ruling(p)' \in approvals'
  <2>1. ASSUME job'[p] = job[p], Ruling(p) \in approvals
        PROVE  Ruling(p)' \in approvals'
    BY <2>1, ApprovalsGrow DEF Ruling, Target, Decision
  <2>2. CASE pc'[p] \in Past \cup {"done"}
    <3>1. /\ job'[p] = job[p]
          /\ pc[p] \in {"saving", "reloaded"} \cup Past \cup {"done"}
      BY <1>0, <1>2, <2>2, PastMoves DEF SavesRow, Past
    <3>2. pc[p] \in {"deciding", "saving", "saved", "alerted", "done"}
      BY <1>0, <1>2, <3>1 DEF ControlAt, Transaction, Past
    <3> QED
      BY <1>0, <1>2, <2>1, <3>1, <3>2 DEF ReportAt
  <2>3. CASE pc'[p] \in {"deciding", "saving"}
    <3>1. CASE Still(p)
      BY <1>0, <1>2, <2>1, <3>1 DEF Still, ReportAt
    <3>2. CASE Opens(p)
      <4>1. \/ Reads(p) \/ Creates(p) \/ pc'[p] \in Ended
        BY <1>0, <2>3, <3>2, OpensCopy
      <4>2. CASE Reads(p)
        <5>1. PICK kind \in Kinds, r \in Reqs, u \in Users :
                HasRead(p, kind, r, u)
          BY <1>0, <4>2, ReadKnows
        <5>2. kind \in {"approve", "reject"} /\ pc'[p] = "checked"
          BY <1>2, <5>1 DEF HasRead, AfterRead
        <5> QED
          BY <2>3, <5>2
      <4>3. CASE Creates(p)
        BY <1>0, <2>3, <4>3, CreateKnows DEF HasCreated
      <4> QED
        BY <2>3, <4>1, <4>2, <4>3 DEF Ended
    <3>3. CASE RecordDecision(p)
      <4>1. job' = job /\ Ruling(p) \in approvals'
        BY <3>3 DEF RecordDecision, Ruling
      <4> QED
        BY <4>1 DEF Ruling, Target, Decision
    <3>4. CASE LoadForSave(p)
      <4>1. job' = job /\ pc[p] = "deciding"
        BY <1>0, <2>3, <3>4, LoadKnows
      <4> QED
        BY <1>0, <1>2, <2>1, <4>1 DEF ReportAt
    <3> QED
      BY <1>0, <2>3, <3>1, <3>2, <3>3, <3>4, OneMoves DEF Leaves, Works, Ended
  <2> QED
    BY <1>2, <2>2, <2>3 DEF Past
<1>3. ASSUME NEW p \in Requests
      PROVE  ReportAt(p)'
  <2>1. pc'[p] \in Past \cup {"done"} => job'[p] = job[p]
    BY <1>0, PastMoves
  <2> QED
    BY <1>1, <1>2, <2>1 DEF ReportAt
<1>4. ASSUME NEW e \in audit, EntryAt(e)
      PROVE  EntryAt(e)'
  <2>1. e.req \in Submitted'
    BY <1>4, SubmittedStays DEF EntryAt
  <2>2. ASSUME NEW p \in Requests, pc[p] = "done"
        PROVE  pc'[p] = "done" /\ Target(p)' = Target(p) /\ job'[p] = job[p]
    BY <1>0, <2>2, DoneStays DEF Target, Ended
  <2> QED
    BY <1>4, <2>1, <2>2 DEF EntryAt
<1>5. ASSUME NEW e \in audit' \ audit
      PROVE  EntryAt(e)'
  <2>1. PICK q \in Requests : Finish(q)
    BY <1>0, <1>5, AuditMoves
  <2>2. /\ pc'[q] = "done" /\ job' = job
        /\ e.request = q /\ e.req = Target(q)
        /\ e.action \in {job[q].kind, "reassign"}
    BY <1>0, <1>5, <2>1, FinishKnows
  <2>3. Target(q) \in Submitted'
    BY <1>1, <2>2
  <2> QED
    BY <2>2, <2>3 DEF EntryAt, Target
<1> QED
  BY <1>3, <1>4, <1>5 DEF Reported

(* Nothing was audited before the first request.                           *)
LEMMA InitReported == Init => Reported
BY DEF Init, Reported, ReportAt, Past

(* What the log says of a requisition is so.                               *)
LEMMA ReportsTrue == Reported => AuditTellsTruth
<1> SUFFICES ASSUME Reported, NEW e \in audit
             PROVE  /\ e.req \in Submitted
                    /\ e.action \in {"approve", "reject"} =>
                         \E a \in approvals :
                           /\ a.request = e.request /\ a.req = e.req
                           /\ a.action = IF e.action = "approve"
                                         THEN "approved" ELSE "rejected"
                    /\ e.action \in {"approve", "reject", "hold", "fulfill"} =>
                         req[e.req].status \notin Undecided
  BY DEF AuditTellsTruth
<1>1. e.req \in Submitted
  BY DEF Reported, EntryAt
<1>2. CASE e.action \in {"approve", "reject", "hold", "fulfill"}
  <2> DEFINE q == e.request
  <2>1. /\ q \in Requests /\ pc[q] = "done" /\ Target(q) = e.req
        /\ job[q].kind = e.action /\ ReportAt(q)
    BY <1>2 DEF Reported, EntryAt
  <2>2. req[e.req].status \notin Undecided
    BY <1>2, <2>1 DEF ReportAt, Past
  <2>3. ASSUME e.action \in {"approve", "reject"}
        PROVE  /\ Ruling(q) \in approvals
               /\ Ruling(q).request = e.request /\ Ruling(q).req = e.req
               /\ Ruling(q).action = IF e.action = "approve"
                                     THEN "approved" ELSE "rejected"
    BY <2>1, <2>3 DEF ReportAt, Ruling, Decision
  <2> QED
    BY <1>1, <2>2, <2>3
<1> QED
  BY <1>1, <1>2

(* Both invariants behind the audit log hold in every reachable state.     *)
LEMMA InductiveReports == Spec => [](Based /\ Reported)
<1>1. DInv /\ Based /\ Reported /\ [Next]_vars => Based' /\ Reported'
  BY NextBased, NextReported
<1> QED
  BY <1>1, InitBased, InitReported, InductiveDecisions, PTL DEF Spec

(***************************************************************************)
(* The audit log tells the truth, however late an entry is written after   *)
(* the change it reports, and whatever is saved over that change.          *)
(***************************************************************************)
THEOREM AuditTrue == Spec => []AuditTellsTruth
BY InductiveReports, ReportsTrue, PTL

-----------------------------------------------------------------------------
(* No change goes unlogged.                                                *)

(* Request q was cut short by an await that threw.                         *)
CutShort(q) == Faults /\ pc[q] = "failed"

(* Request q moved r to the status it has: it logged that, or is about to, *)
(* or was cut short.                                                       *)
Logs(q, r) ==
  /\ Target(q) = r /\ job[q].kind = Doing[req[r].status]
  /\ \/ [request |-> q, req |-> r, action |-> job[q].kind] \in audit
     \/ pc[q] \in Past
     \/ CutShort(q)

(* What a request does once its row is written.                            *)
LEMMA PastEnds ==
  ASSUME IInv, [Next]_vars, NEW p \in Requests, pc[p] \in Past
  PROVE  /\ job'[p] = job[p]
         /\ pc'[p] \in Past \/ Finish(p) \/ CutShort(p)'
<1>0. TypeOK
  BY DEF IInv
<1>1. ~Opens(p)
  <2>1. ASSUME NEW kind, NEW r, NEW u
        PROVE  ~Arrives(p, kind, r, u)
    BY DEF Arrives, Past
  <2> QED
    BY <2>1, Zenon DEF Opens, BeginCreate, RefuseCreate, Refuse, Read
<1>2. ~Works(p) /\ ~RecordDecision(p) /\ ~LoadForSave(p)
  BY DEF Works, RecordDecision, LoadForSave, Past, Transaction
<1>3. ASSUME Proceed(p) \/ Disturb(p)
      PROVE  /\ job'[p] = job[p]
             /\ pc'[p] \in Past \/ Finish(p) \/ CutShort(p)'
  <2>1. ~\E o : WaitsFor(p, o)
    BY DEF WaitsFor, Past
  <2>2. ~DeadlockVictim(p)
    BY <2>1, Zenon DEF DeadlockVictim, Deadlocked
  <2>3. \/ InsertItems(p) \/ RunHook(p) \/ StampAlert(p) \/ Finish(p)
        \/ HookFails(p) \/ Fail(p)
    BY <1>3, <2>2 DEF Proceed, Disturb, InsertRequisition, RecordDecision,
       LoadForSave, Save, SaveFails, UpdateItem, CheckForeignKey, DrawStock,
       CommitFulfill, Past
  <2>4. job' = job
    BY <2>3 DEF InsertItems, RunHook, StampAlert, Finish, HookFails, Fail
  <2>5. ASSUME NEW label, Goto(p, label)
        PROVE  pc'[p] = label
    BY <1>0, <2>5 DEF Goto, TypeOK
  <2>6. CASE InsertItems(p) \/ StampAlert(p) \/ HookFails(p)
    BY <2>4, <2>5, <2>6 DEF InsertItems, StampAlert, HookFails, Past
  <2>7. CASE RunHook(p)
    BY <2>4, <2>5, <2>7 DEF RunHook, Past
  <2>8. CASE Fail(p)
    <3>1. Faults /\ pc'[p] = "failed"
      BY <2>5, <2>8, Zenon DEF Fail, End
    <3> QED
      BY <2>4, <3>1, Zenon DEF CutShort
  <2> QED
    BY <2>3, <2>4, <2>6, <2>7, <2>8
<1>4. ASSUME NEW q \in Requests, q # p, Opens(q) \/ Proceed(q) \/ Disturb(q)
      PROVE  Still(p)
  BY <1>4, OtherStill
<1>5. ASSUME \/ \E u \in Users, d \in {"present", "away", "inactive"} :
                  SetDuty(u, d)
             \/ UNCHANGED vars
      PROVE  Still(p)
  BY <1>5 DEF SetDuty, vars, handlers, Still
<1>6. (Submit \/ Open) => \E q \in Requests : Opens(q)
  BY DEF Submit, Open, Opens
<1>7. Still(p) \/ Proceed(p) \/ Disturb(p)
  BY <1>1, <1>4, <1>5, <1>6 DEF Next, Idle
<1>8. CASE Still(p)
  BY <1>8 DEF Still
<1> QED
  BY <1>3, <1>7, <1>8

(* The audit log only grows.                                               *)
LEMMA AuditGrows ==
  ASSUME IInv, [Next]_vars
  PROVE  audit \subseteq audit'
BY AuditMoves, FinishKnows

(* Every step preserves ChangesLogged.                                     *)
LEMMA NextLogged ==
  ASSUME DInv, Reported, ChangesLogged, [Next]_vars
  PROVE  ChangesLogged'
<1>0. /\ IInv /\ \A q \in Requests : ControlAt(q) /\ IntentAt(q)
  BY DEF DInv, IInv, Control, Intent
<1> SUFFICES ASSUME NEW r \in Reqs, req'[r].status # Seed[r]
             PROVE  \E q \in Requests : Logs(q, r)'
  BY Zenon DEF ChangesLogged, Logs, Past, CutShort
<1>1. CASE req'[r].status = req[r].status
  <2>1. PICK q \in Requests : Logs(q, r)
    BY <1>1, Zenon DEF ChangesLogged, Logs, Past, CutShort
  <2>2. CASE pc[q] \in Past
    <3>1. job'[q] = job[q] /\ Target(q)' = r
          /\ job[q].kind = Doing[req'[r].status]
      BY <1>0, <1>1, <2>1, <2>2, PastEnds DEF Logs, Target
    <3>2. CASE Finish(q)
      BY <1>0, <2>1, <3>1, <3>2, FinishKnows DEF Logs
    <3>3. CASE pc'[q] \in Past \/ CutShort(q)'
      BY <3>1, <3>3 DEF Logs, Target
    <3> QED
      BY <1>0, <2>2, <3>2, <3>3, PastEnds
  <2>3. CASE CutShort(q)
    <3>1. pc[q] = "failed"
      BY <2>3 DEF CutShort
    <3>2. pc'[q] = pc[q] /\ job'[q] = job[q]
      BY <1>0, <3>1, DoneStays DEF Ended
    <3>3. CutShort(q)'
      BY <2>3, <3>2, Zenon DEF CutShort
    <3> QED
      BY <1>1, <2>1, <3>2, <3>3 DEF Logs, Target
  <2>4. CASE [request |-> q, req |-> r, action |-> job[q].kind] \in audit
    <3> DEFINE e == [request |-> q, req |-> r, action |-> job[q].kind]
    <3>0. /\ EntryAt(e) /\ e.request = q /\ e.action = job[q].kind
          /\ job[q].kind \in Kinds \cup {"none"}
      BY <1>0, <2>4 DEF Reported, IInv, TypeOK, Job
    <3>2. job[q].kind # "reassign"
      BY <3>0, RequestAssumption
    <3> HIDE DEF e
    <3>1. job'[q] = job[q]
      BY <1>0, <3>0, <3>2, DoneStays DEF EntryAt, Ended
    <3> QED
      BY <1>0, <1>1, <2>1, <2>4, <3>1, AuditGrows DEF Logs, Target
  <2> QED
    BY <2>1, <2>2, <2>3, <2>4 DEF Logs
<1>2. ASSUME NEW q \in Requests, Inserts(q, r)
      PROVE  Logs(q, r)'
  <2>1. job[q].kind = "create" /\ req'[r].status = "pending_supervisor"
    BY <1>0, <1>2 DEF Inserts, ControlAt
  <2> QED
    BY <1>2, <2>1 DEF Inserts, Logs, Doing, Target, Past
<1>3. ASSUME NEW q \in Requests, Saves(q, r)
      PROVE  Logs(q, r)'
  <2>1. /\ job[q].kind \in {"approve", "reject", "hold", "fulfill"}
        /\ req'[r].status = StatusAfter[job[q].kind]
    BY <1>0, <1>3 DEF Saves, ControlAt, IntentAt, Transaction
  <2>2. Doing[req'[r].status] = job[q].kind
    BY <2>1 DEF Doing, StatusAfter
  <2> QED
    BY <1>3, <2>2 DEF Saves, Logs, Target, Past
<1> QED
  BY <1>0, <1>1, <1>2, <1>3, StatusSteps

(* The rows of the start are the seeded ones.                              *)
LEMMA InitLogged == Init => ChangesLogged
<1> SUFFICES ASSUME Init, NEW r \in Reqs PROVE req[r].status = Seed[r]
  BY DEF ChangesLogged
<1>1. PICK number \in [Reqs -> 0..Cardinality(Reqs)], sup \in [Reqs -> Users] :
        SeedRows(number, sup)
  BY DEF Init
<1> QED
  BY <1>1 DEF SeedRows, SeedRow, NoRow

(***************************************************************************)
(* No change goes unlogged but by a failure, in however many requests that *)
(* save over each other: the status a requisition has is in the log as     *)
(* somebody's operation, or that request is still on its way to log it, or *)
(* an await threw after its write.                                         *)
(***************************************************************************)
THEOREM LogComplete == Spec => []ChangesLogged
<1>1. DInv /\ Reported /\ ChangesLogged /\ [Next]_vars => ChangesLogged'
  BY NextLogged
<1> QED
  BY <1>1, InitLogged, InductiveDecisions, InductiveReports, PTL DEF Spec
-----------------------------------------------------------------------------
(* Request numbers.  A number that a submission still carries is at most   *)
(* one above the present count, and a copy that is saved over a            *)
(* requisition has that requisition's number.                              *)
Reading == {"checked", "deciding", "saving"} \cup Transaction

NumberAt(q) ==
  /\ pc[q] = "counted" =>
       mine[q].row.number \in 1..(Cardinality(Submitted) + 1)
  /\ pc[q] \in Reading => mine[q].row.number = req[Target(q)].number
  /\ pc[q] \in {"saving", "reloaded"} =>
       base[q].row.number = mine[q].row.number

Numbered == NumbersDense /\ \A q \in Requests : NumberAt(q)

(* A table of finitely many requisitions has a count.                      *)
LEMMA SubmittedFinite ==
  /\ IsFiniteSet(Submitted) /\ Cardinality(Submitted) \in Nat
BY StoreAssumption, FS_Subset, FS_CardinalityType DEF Submitted

(* What a save() writes over a requisition keeps its number, and does not  *)
(* submit a requisition that was not there.                                *)
LEMMA SavesKeep ==
  ASSUME DInv, NEW q \in Requests, NEW r \in Reqs, SavesRow(q, r),
         mine[q].row.number = base[q].row.number
  PROVE  /\ r \in Submitted
         /\ req'[r].number = req[r].number
         /\ \A x \in Reqs : x # r => req'[x] = req[x]
<1>1. /\ req[r] \in Row /\ req \in [Reqs -> Row]
      /\ ControlAt(q) /\ CreationAt(q)
  BY DEF DInv, IInv, TypeOK, Control, Creation
<1>2. InProgress(q) /\ job[q].kind # "create"
  BY <1>1 DEF SavesRow, InProgress, Ended, ControlAt, Transaction
<1>3. req'[r] = SavedRow(req[r], base[q].row, mine[q].row)
  BY <1>1 DEF SavesRow
<1> QED
  BY <1>1, <1>2, <1>3 DEF SavesRow, CreationAt, SavedRow, Columns, Submitted

(* The seeded requisitions are numbered without a gap.                     *)
LEMMA InitNumbered == Init => Numbered
<1> SUFFICES ASSUME Init PROVE NumbersDense
  BY DEF Numbered, NumberAt, Init, Reading, Transaction
<1>1. PICK number \in [Reqs -> 0..Cardinality(Reqs)], sup \in [Reqs -> Users] :
        SeedRows(number, sup)
  BY DEF Init
<1> DEFINE S == {r \in Reqs : Seed[r] # "absent"}
           n == Cardinality(S)
           f == [r \in S |-> number[r]]
           T == {number[r] : r \in S}
<1>2. Submitted = S /\ \A r \in S : req[r].number = number[r]
  <2> USE RequestAssumption
  <2>1. \A r \in Reqs : req[r] = SeedRow(r, number[r], sup[r])
    BY <1>1 DEF SeedRows
  <2>2. ASSUME NEW r \in Reqs
        PROVE  /\ req[r].status = Seed[r]
               /\ Seed[r] # "absent" => req[r].number = number[r]
    <3>1. CASE Seed[r] = "absent"
      <4>1. req[r] = NoRow
        BY <2>1, <3>1 DEF SeedRow
      <4> QED
        BY <3>1, <4>1 DEF NoRow
    <3>2. CASE Seed[r] # "absent"
      BY ZenonT(60), <2>1, <3>2 DEF SeedRow, NoRow
    <3> QED
      BY <3>1, <3>2
  <2>3. Submitted = S
    BY <2>2, Zenon DEF Submitted
  <2>4. \A r \in S : req[r].number = number[r]
    BY <2>2
  <2> QED
    BY <2>3, <2>4
<1>3. IsFiniteSet(S) /\ n \in Nat
  BY StoreAssumption, FS_Subset, FS_CardinalityType
<1>4. 1..n \subseteq T
  <2> SUFFICES ASSUME NEW k \in 1..n PROVE k \in T
    OBVIOUS
  <2>1. PICK r \in Reqs : number[r] = k
    BY <1>1 DEF SeedRows
  <2>2. r \in S
    BY <1>1, <1>3, <2>1 DEF SeedRows
  <2> QED
    BY <2>1, <2>2
<1>5. IsFiniteSet(T) /\ Cardinality(T) <= n
  <2>1. f \in Surjection(S, T)
    BY DEF Surjection
  <2> QED
    BY <1>3, <2>1, FS_Surjection
<1>6. Cardinality(1..n) = n /\ Cardinality(T) \in Nat
  BY <1>3, <1>5, FS_Interval, FS_CardinalityType
<1>7. 1..n = T
  <2>1. Cardinality(1..n) <= Cardinality(T)
    BY <1>4, <1>5, FS_Subset
  <2>2. Cardinality(1..n) = Cardinality(T)
    BY <1>3, <1>5, <1>6, <2>1
  <2> QED
    BY <1>4, <1>5, <2>2, FS_Subset
<1>8. {req[r].number : r \in Submitted} = T
  BY <1>2
<1> QED
  BY <1>2, <1>7, <1>8 DEF NumbersDense

(* Every step preserves Numbered.                                          *)
LEMMA NextNumbered ==
  ASSUME DInv, Numbered, [Next]_vars
  PROVE  Numbered'
<1> DEFINE c == Cardinality(Submitted)
<1>0. /\ IInv /\ TypeOK /\ c \in Nat /\ IsFiniteSet(Submitted)
      /\ {req[r].number : r \in Submitted} = 1..c
      /\ \A q \in Requests : NumberAt(q) /\ ControlAt(q) /\ CreationAt(q)
  BY SubmittedFinite
  DEF DInv, IInv, Numbered, NumbersDense, Control, Creation
<1>1. ASSUME NEW q \in Requests, NEW r \in Reqs, SavesRow(q, r)
      PROVE  /\ r \in Submitted
             /\ req'[r].number = req[r].number
             /\ \A x \in Reqs : x # r => req'[x] = req[x]
  <2>1. mine[q].row.number = base[q].row.number
    BY <1>0, <1>1 DEF SavesRow, NumberAt
  <2> QED
    BY <1>1, <2>1, SavesKeep
<1>2. ASSUME NEW q \in Requests, NEW r \in Reqs, InsertsRow(q, r)
      PROVE  /\ r \notin Submitted
             /\ req' = [req EXCEPT ![r] = mine[q].row]
             /\ mine[q].row.number = c + 1
             /\ mine[q].row.status # "absent"
  <2>1. req[r].status = "absent" /\ mine[q].row.number \in 1..(c + 1)
    BY <1>0, <1>2 DEF InsertsRow, CreationAt, NumberAt
  <2>2. mine[q].row.number \notin 1..c
    BY <1>0, <1>2 DEF InsertsRow, NumberTaken, Submitted
  <2> QED
    BY <1>0, <1>2, <2>1, <2>2 DEF InsertsRow, Submitted, ControlAt
<1>3. ASSUME ~\E q \in Requests, r \in Reqs : InsertsRow(q, r)
      PROVE  /\ Submitted' = Submitted
             /\ \A r \in Submitted : req'[r].number = req[r].number
  <2>1. \A r \in Submitted : r \in Submitted'
    BY SubmittedStays
  <2>2. CASE UNCHANGED req
    BY <2>2 DEF Submitted
  <2>3. ASSUME NEW q \in Requests, NEW r \in Reqs, SavesRow(q, r)
        PROVE  /\ Submitted' = Submitted
               /\ \A x \in Submitted : req'[x].number = req[x].number
    BY <1>1, <2>1, <2>3 DEF Submitted
  <2> QED
    BY <1>0, <1>3, <2>2, <2>3, RowMoves
<1>4. ASSUME NEW q \in Requests, NEW r \in Reqs, InsertsRow(q, r)
      PROVE  /\ Submitted' = Submitted \cup {r} /\ r \notin Submitted
             /\ \A x \in Submitted : req'[x] = req[x]
             /\ req'[r].number = c + 1
             /\ Cardinality(Submitted') = c + 1
  <2>1. /\ r \notin Submitted /\ mine[q].row.number = c + 1
        /\ req' = [req EXCEPT ![r] = mine[q].row]
        /\ mine[q].row.status # "absent"
    BY <1>2, <1>4
  <2>2. Submitted' = Submitted \cup {r}
    BY <1>0, <2>1 DEF Submitted, TypeOK
  <2>3. Cardinality(Submitted \cup {r}) = c + 1
    BY <1>0, <2>1, FS_AddElement
  <2> QED
    BY <1>0, <2>1, <2>2, <2>3 DEF Submitted, TypeOK
<1>5. NumbersDense'
  <2>1. CASE ~\E q \in Requests, r \in Reqs : InsertsRow(q, r)
    <3>1. {req'[r].number : r \in Submitted'} = {req[r].number : r \in Submitted}
      BY <1>3, <2>1
    <3> QED
      BY <1>0, <1>3, <2>1, <3>1 DEF NumbersDense
  <2>2. ASSUME NEW q \in Requests, NEW r \in Reqs, InsertsRow(q, r)
        PROVE  NumbersDense'
    <3>1. {req'[x].number : x \in Submitted'}
            = {req[x].number : x \in Submitted} \cup {c + 1}
      BY <1>4, <2>2
    <3>2. 1..(c + 1) = (1..c) \cup {c + 1}
      BY <1>0
    <3>3. Cardinality(Submitted') = c + 1
      BY <1>4, <2>2
    <3>4. {req'[x].number : x \in Submitted'} = 1..Cardinality(Submitted')
      BY <1>0, <3>1, <3>2, <3>3
    <3> QED
      BY <3>4 DEF NumbersDense
  <2> QED
    BY <2>1, <2>2
<1>6. Cardinality(Submitted') \in {c, c + 1}
  BY <1>3, <1>4
<1>7. ASSUME NEW r \in Submitted
      PROVE  req'[r].number = req[r].number
  BY <1>3, <1>4, <1>7
<1>8. ASSUME NEW p \in Requests
      PROVE  NumberAt(p)'
  <2>1. CASE Creates(p)
    <3>0. PICK r \in Reqs, u \in Users, sup \in Users : HasCreated(p, r, u, sup)
      BY <1>0, <2>1, CreateKnows
    <3>1. /\ pc'[p] = "counted" /\ Submitted' = Submitted
          /\ mine'[p].row.number = c + 1
      BY <3>0 DEF HasCreated, NoRow, Submitted
    <3> QED
      BY <1>0, <3>1 DEF NumberAt, Reading, Transaction
  <2>2. CASE Reads(p)
    <3>1. PICK kind \in Kinds, r \in Reqs, u \in Users : HasRead(p, kind, r, u)
      BY <1>0, <2>2, ReadKnows
    <3>2. pc'[p] \in {"checked", "deciding", "link"}
      BY <3>1 DEF AfterRead, HasRead
    <3> QED
      BY <3>1, <3>2 DEF NumberAt, Target, HasRead
  <2>3. CASE LoadForSave(p)
    <3>1. /\ job' = job /\ UNCHANGED req
          /\ pc[p] \in {"deciding", "link"} /\ pc'[p] \in {"saving", "reloaded"}
          /\ job[p].kind \in {"approve", "reject", "hold", "fulfill"}
          /\ mine[p].row \in Row /\ mine'[p].row = Outcome(p, mine[p].row)
          /\ base'[p].row = req[Target(p)]
      BY <1>0, <2>3, LoadKnows
    <3>2. mine'[p].row.number = mine[p].row.number
      BY <3>1 DEF Outcome, Row
    <3>3. mine[p].row.number = req[Target(p)].number
      BY <1>0, <3>1 DEF NumberAt, Reading, Transaction
    <3> QED
      BY <3>1, <3>2, <3>3 DEF NumberAt, Target
  <2>4. CASE Keeps(p)
    <3>1. ASSUME pc[p] \in Reading
          PROVE  Target(p) \in Submitted
      BY <1>0, <3>1 DEF CreationAt, ControlAt, InProgress, Reading, Transaction,
                        Ended, Submitted
    <3>2. pc'[p] \in Reading => pc[p] \in Reading
      BY <2>4 DEF Keeps, Reading, Transaction
    <3> QED
      BY <1>0, <1>6, <1>7, <2>4, <3>1, <3>2
      DEF Keeps, NumberAt, Target, Reading, Transaction
  <2>5. CASE Written(p) \/ pc'[p] \in Ended
    BY <2>5 DEF Written, InsertsRow, NumberAt, Ended, Reading, Transaction
  <2> QED
    BY <1>0, <2>1, <2>2, <2>3, <2>4, <2>5, CopyMoves
<1> QED
  BY <1>5, <1>8 DEF Numbered

(***************************************************************************)
(* Request numbers have no gaps and no repetition, for any number of       *)
(* submissions that count at the same time, fail in between or lose the    *)
(* race for a number.                                                      *)
(***************************************************************************)
THEOREM NumbersSafe == Spec => []NumbersDense
<1>1. DInv /\ Numbered /\ [Next]_vars => Numbered'
  BY NextNumbered
<1>2. Numbered => NumbersDense
  BY DEF Numbered
<1> QED
  BY <1>1, <1>2, InitNumbered, InductiveDecisions, PTL DEF Spec
-----------------------------------------------------------------------------
(* Scope, while no two requests on the same requisition overlap.  Whoever  *)
(* is in a fulfilment's transaction, or in the copy that will be saved,    *)
(* has every line in scope, and a requisition whose lines are still to be  *)
(* inserted has not been fulfilled.                                        *)
Exclusive ==
  \A p, q \in Requests :
    InProgress(p) /\ InProgress(q) /\ Target(p) = Target(q) => p = q

ScopedFor(u, r) ==
  \A i \in itemRows \cap ItemsOf(r) : ItemType[i] \in AssetTypeScope(Role[u])

RowScoped(r, row) == row.fulfiller # None => ScopedFor(row.fulfiller, r)

ScopeAt(q) ==
  /\ pc[q] \in Reading => RowScoped(Target(q), mine[q].row)
  /\ pc[q] \in Transaction => ScopedFor(job[q].actor, Target(q))
  /\ pc[q] = "counted" => mine[q].row.fulfiller = None
  /\ pc[q] = "inserted" => req[Target(q)].fulfiller = None

Scoped ==
  /\ \A r \in Reqs : RowScoped(r, req[r])
  /\ Exclusive
  /\ \A q \in Requests : ScopeAt(q)

(* The lines of a requisition are inserted in one statement, right after   *)
(* its row.                                                                *)
LEMMA LinesMove ==
  ASSUME [Next]_vars
  PROVE  \/ UNCHANGED itemRows
         \/ \E q \in Requests : InsertItems(q)
<1>1. CASE Submit \/ Open
  <2>1. CASE Submit
    BY ZenonT(60), <2>1 DEF Submit, BeginCreate, RefuseCreate, tables
  <2>2. CASE Open
    BY <2>2 DEF Open, Read, Refuse, tables
  <2> QED
    BY <1>1, <2>1, <2>2
<1>2. ASSUME NEW q \in Requests, Proceed(q) \/ Disturb(q)
      PROVE  UNCHANGED itemRows \/ InsertItems(q)
  BY <1>2 DEF Proceed, Disturb, InsertRequisition, RecordDecision,
     LoadForSave, Save, SaveFails, UpdateItem, CheckForeignKey, DrawStock,
     CommitFulfill, RunHook, StampAlert, Finish, DeadlockVictim, HookFails,
     Fail, tables
<1>3. ASSUME \/ \E u \in Users, d \in {"present", "away", "inactive"} :
                  SetDuty(u, d)
             \/ UNCHANGED vars
      PROVE  UNCHANGED itemRows
  BY <1>3 DEF SetDuty, vars, tables
<1> QED
  BY <1>1, <1>2, <1>3 DEF Next, Idle

(* Without Overlap, a request that is taken finds no other one at work on  *)
(* its requisition.                                                        *)
LEMMA NextExclusive ==
  ASSUME ~Overlap, IInv, Exclusive, [Next]_vars
  PROVE  Exclusive'
<1>1. ASSUME NEW p \in Requests
      PROVE  \/ job'[p] = job[p] /\ (InProgress(p)' => InProgress(p))
             \/ \A y \in Requests \ {p} :
                  /\ Still(y)
                  /\ InProgress(y) => Target(y) # job'[p].target
  <2>1. CASE Opens(p)
    <3>1. PICK r \in Reqs : \E kind, u : Arrives(p, kind, r, u)
      BY ZenonT(60), <2>1 DEF Opens, BeginCreate, RefuseCreate, Refuse, Read
    <3>2. job'[p].target = r
      BY <3>1, ArrivesControl DEF IInv
    <3>3. \A y \in Requests : Target(y) = r => ~InProgress(y)
      BY <3>1 DEF Arrives
    <3>4. \A y \in Requests \ {p} : Still(y)
      BY <2>1, OtherStill
    <3> QED
      BY <3>2, <3>3, <3>4
  <2>2. CASE Still(p)
    BY <2>2 DEF Still, InProgress
  <2>3. CASE Leaves(p) \/ Works(p) \/ RecordDecision(p) \/ LoadForSave(p)
    BY <2>3 DEF Leaves, Works, RecordDecision, LoadForSave, InProgress, Ended,
                Transaction
  <2> QED
    BY <2>1, <2>2, <2>3, OneMoves
<1> SUFFICES ASSUME NEW p \in Requests, NEW q \in Requests,
                    InProgress(p)', InProgress(q)', Target(p)' = Target(q)'
             PROVE  p = q
  BY DEF Exclusive
<1>2. CASE /\ job'[p] = job[p] /\ InProgress(p)
           /\ job'[q] = job[q] /\ InProgress(q)
  BY <1>2 DEF Exclusive, Target
<1>3. ASSUME NEW x \in Requests, NEW y \in Requests, x # y,
             Still(y), InProgress(y)',
             InProgress(y) => Target(y) # job'[x].target,
             Target(x)' = Target(y)'
      PROVE  FALSE
  BY <1>3 DEF Still, InProgress, Target
<1> QED
  BY <1>1, <1>2, <1>3

(* Nobody is in scope by accident: Scoped is preserved.                    *)
LEMMA NextScoped ==
  ASSUME ~Overlap, DInv, Scoped, [Next]_vars
  PROVE  Scoped'
<1>0. /\ IInv /\ TypeOK /\ Exclusive
      /\ \A q \in Requests : ScopeAt(q) /\ ControlAt(q)
      /\ \A r \in Reqs : RowScoped(r, req[r])
  BY DEF DInv, IInv, Scoped, Control
<1>1. Exclusive'
  BY <1>0, NextExclusive
<1>2. ASSUME NEW p \in Requests, pc[p] \in Reading \cup {"counted", "inserted"}
      PROVE  InProgress(p) /\ Target(p) \in Reqs
  BY <1>0, <1>2 DEF InProgress, Reading, Transaction, Ended, ControlAt
<1>3. CASE UNCHANGED itemRows
  <2>1. \A u, r : ScopedFor(u, r)' <=> ScopedFor(u, r)
    BY <1>3 DEF ScopedFor
  <2>2. ASSUME NEW r \in Reqs
        PROVE  RowScoped(r, req[r])'
    <3>1. CASE req'[r] = req[r]
      BY <1>0, <2>1, <3>1 DEF RowScoped
    <3>2. ASSUME NEW q \in Requests, InsertsRow(q, r)
          PROVE  RowScoped(r, req[r])'
      BY <1>0, <3>2 DEF InsertsRow, ScopeAt, RowScoped, TypeOK
    <3>3. ASSUME NEW q \in Requests, SavesRow(q, r)
          PROVE  RowScoped(r, req[r])'
      <4>1. req'[r] = SavedRow(req[r], base[q].row, mine[q].row)
        BY <1>0, <3>3 DEF SavesRow, TypeOK
      <4>2. req'[r].fulfiller \in {req[r].fulfiller, mine[q].row.fulfiller}
        BY <4>1 DEF SavedRow, Columns
      <4>3. RowScoped(r, mine[q].row)
        BY <1>0, <3>3 DEF SavesRow, ScopeAt, Reading, Transaction
      <4> QED
        BY <1>0, <2>1, <4>2, <4>3 DEF RowScoped
    <3> QED
      BY <1>0, <3>1, <3>2, <3>3, RowMoves DEF InsertsRow, SavesRow, TypeOK
  <2>3. ASSUME NEW p \in Requests
        PROVE  ScopeAt(p)'
    <3>1. CASE Creates(p)
      <4>1. PICK r \in Reqs, u \in Users, sup \in Users : HasCreated(p, r, u, sup)
        BY <1>0, <3>1, CreateKnows
      <4>2. mine'[p].row.fulfiller = None /\ pc'[p] = "counted"
        BY <4>1 DEF HasCreated, NoRow
      <4> QED
        BY <4>2 DEF ScopeAt, Reading, Transaction
    <3>2. CASE Reads(p)
      <4>1. PICK kind \in Kinds, r \in Reqs, u \in Users : HasRead(p, kind, r, u)
        BY <1>0, <3>2, ReadKnows
      <4>2. /\ pc'[p] \in {"checked", "deciding", "link"}
            /\ pc'[p] = "link" => kind = "fulfill"
            /\ job'[p].target = r /\ job'[p].actor = u /\ mine'[p].row = req[r]
        BY <4>1 DEF AfterRead, HasRead
      <4>3. kind = "fulfill" => ScopedFor(u, r)
        BY <4>1 DEF HasRead, Accepts, InScope, Loaded, ScopedFor
      <4>4. RowScoped(r, mine[p].row)'
        BY <1>0, <2>1, <4>2 DEF RowScoped
      <4> QED
        BY <2>1, <4>2, <4>3, <4>4 DEF ScopeAt, Target, Transaction
    <3>3. CASE LoadForSave(p)
      <4>1. /\ job' = job /\ mine[p].row \in Row
            /\ job[p].kind \in {"approve", "reject", "hold", "fulfill"}
            /\ \/ pc[p] = "deciding" /\ pc'[p] = "saving"
               \/ pc[p] = "link" /\ pc'[p] = "reloaded"
            /\ mine'[p].row = Outcome(p, mine[p].row)
        BY <1>0, <3>3, LoadKnows
      <4>2. \/ mine'[p].row.fulfiller = mine[p].row.fulfiller
            \/ pc[p] = "link" /\ mine'[p].row.fulfiller = job[p].actor
        BY <1>0, <4>1 DEF Outcome, Row, ControlAt
      <4>3. RowScoped(Target(p), mine[p].row)'
        BY <1>0, <2>1, <4>1, <4>2
        DEF RowScoped, ScopeAt, Target, Reading, Transaction
      <4> QED
        BY <1>0, <2>1, <4>1, <4>3 DEF ScopeAt, RowScoped, Target, Transaction
    <3>4. CASE Keeps(p)
      <4>1. ASSUME pc[p] = "inserted"
            PROVE  req'[Target(p)] = req[Target(p)]
        <5>1. Target(p) \in Reqs /\ InProgress(p)
          BY <1>2, <4>1
        <5>2. ASSUME NEW q \in Requests, NEW r \in Reqs,
                     InsertsRow(q, r) \/ SavesRow(q, r), r = Target(p)
              PROVE  FALSE
          <6>1. InProgress(q) /\ Target(q) = Target(p) /\ q # p
            BY <4>1, <5>2 DEF InsertsRow, SavesRow, InProgress, Ended
          <6> QED
            BY <1>0, <5>1, <6>1 DEF Exclusive
        <5> QED
          BY <1>0, <5>1, <5>2, RowMoves DEF InsertsRow, SavesRow, TypeOK
      <4> QED
        BY <1>0, <2>1, <3>4, <4>1
        DEF Keeps, ScopeAt, RowScoped, Target, Reading, Transaction
    <3>5. CASE Written(p) \/ pc'[p] \in Ended
      <4>1. CASE InsertsRow(p, Target(p)) /\ job'[p] = job[p]
        BY <1>0, <1>2, <4>1
        DEF InsertsRow, ScopeAt, Target, Reading, Transaction, TypeOK
      <4>2. CASE pc'[p] \in Ended \cup {"saved", "alerted"}
        BY <4>2 DEF ScopeAt, Ended, Reading, Transaction
      <4> QED
        BY <3>5, <4>1, <4>2 DEF Written
    <3> QED
      BY <1>0, <3>1, <3>2, <3>3, <3>4, <3>5, CopyMoves
  <2> QED
    BY <1>1, <2>2, <2>3 DEF Scoped
<1>4. ASSUME NEW q \in Requests, InsertItems(q)
      PROVE  Scoped'
  <2>1. /\ pc[q] = "inserted" /\ pc'[q] = "saved"
        /\ itemRows' = itemRows \cup ItemsOf(Target(q))
        /\ UNCHANGED <<req, job, mine>>
        /\ \A p \in Requests : p # q => pc'[p] = pc[p]
    BY <1>0, <1>4 DEF InsertItems, Goto, TypeOK
  <2>2. \A u, r : r # Target(q) => (ScopedFor(u, r)' <=> ScopedFor(u, r))
    BY <2>1 DEF ScopedFor, ItemsOf
  <2>3. ASSUME NEW r \in Reqs
        PROVE  RowScoped(r, req[r])'
    <3>1. CASE r = Target(q)
      BY <1>0, <2>1, <3>1 DEF ScopeAt, RowScoped
    <3>2. CASE r # Target(q)
      BY <1>0, <2>1, <2>2, <3>2 DEF RowScoped
    <3> QED
      BY <3>1, <3>2
  <2>4. ASSUME NEW p \in Requests
        PROVE  ScopeAt(p)'
    <3>1. CASE p = q
      BY <2>1, <3>1 DEF ScopeAt, Reading, Transaction
    <3>2. CASE p # q /\ pc[p] \notin Reading \cup {"counted", "inserted"}
      BY <2>1, <3>2 DEF ScopeAt, Reading
    <3>3. CASE p # q /\ pc[p] \in Reading \cup {"counted", "inserted"}
      <4>1. Target(p) # Target(q)
        BY <1>0, <1>2, <2>1, <3>3 DEF Exclusive
      <4> QED
        BY <1>0, <2>1, <2>2, <3>3, <4>1 DEF ScopeAt, RowScoped, Target
    <3> QED
      BY <3>1, <3>2, <3>3
  <2> QED
    BY <1>1, <2>3, <2>4 DEF Scoped
<1> QED
  BY <1>3, <1>4, LinesMove

(* At the start nothing is fulfilled and nobody is at work.                *)
LEMMA InitScoped == Init => Scoped
<1> SUFFICES ASSUME Init PROVE \A r \in Reqs : RowScoped(r, req[r])
  BY DEF Init, Scoped, Exclusive, InProgress, ScopeAt, Reading, Transaction
<1>1. PICK number \in [Reqs -> 0..Cardinality(Reqs)], sup \in [Reqs -> Users] :
        SeedRows(number, sup)
  BY DEF Init
<1>2. ASSUME NEW r \in Reqs
      PROVE  SeedRow(r, number[r], sup[r]).fulfiller = None
  BY DEF SeedRow, NoRow
<1>3. \A r \in Reqs : req[r].fulfiller = None
  BY <1>1, <1>2 DEF SeedRows
<1> QED
  BY <1>3 DEF RowScoped

(***************************************************************************)
(* While no two requests on the same requisition overlap, whoever fulfils  *)
(* a requisition has authority over every line of it, although the lines   *)
(* are inserted after the row and the check looks at lines read before the *)
(* transaction.                                                            *)
(***************************************************************************)
THEOREM ScopeSafe ==
  ASSUME ~Overlap
  PROVE  Spec => []FulfilledInScope
<1>1. DInv /\ Scoped /\ [Next]_vars => Scoped'
  BY NextScoped
<1>2. Scoped => FulfilledInScope
  BY DEF Scoped, RowScoped, ScopedFor, FulfilledInScope
<1> QED
  BY <1>1, <1>2, InitScoped, InductiveDecisions, PTL DEF Spec
-----------------------------------------------------------------------------
(* The low-stock hooks, while no await throws.  A transaction has a hook   *)
(* to run for every supply it drew from, and a hook that is about to stamp *)
(* its supply has sent the notice.                                         *)
In(s, h) == \E n \in DOMAIN h : h[n] = s

HookAt(q) ==
  /\ pc[q] \in Transaction =>
       \A s \in Assets : draw[q][s] > 0 => In(s, hooks[q])
  /\ pc[q] = "alerted" => lowNotices[Head(hooks[q])] > 0

Hooked ==
  /\ LowStockNoticed
  /\ \A s \in Assets : asset[s].alerted => lowNotices[s] > 0
  /\ \A q \in Requests : HookAt(q)

(* What appending a hook, or taking the first one, does to the hooks that  *)
(* are left.                                                               *)
LEMMA HookElements ==
  ASSUME NEW h \in Seq(Assets), NEW s \in Assets
  PROVE  /\ In(s, Append(h, s))
         /\ \A t : In(t, h) => In(t, Append(h, s))
         /\ h # <<>> => \A t : In(t, h) => t = Head(h) \/ In(t, Tail(h))
<1>1. In(s, Append(h, s))
  <2>1. Len(h) + 1 \in DOMAIN Append(h, s) /\ Append(h, s)[Len(h) + 1] = s
    OBVIOUS
  <2> QED
    BY <2>1 DEF In
<1>2. ASSUME NEW t, In(t, h)
      PROVE  In(t, Append(h, s))
  <2>1. PICK n \in DOMAIN h : h[n] = t
    BY <1>2 DEF In
  <2>2. n \in DOMAIN Append(h, s) /\ Append(h, s)[n] = t
    BY <2>1
  <2> QED
    BY <2>2 DEF In
<1>3. ASSUME h # <<>>, NEW t, In(t, h), t # Head(h)
      PROVE  In(t, Tail(h))
  <2>1. PICK n \in 1..Len(h) : h[n] = t
    BY <1>3 DEF In
  <2>2. n # 1 /\ n - 1 \in 1..Len(Tail(h)) /\ Tail(h)[n - 1] = t
    BY <1>3, <2>1
  <2>3. DOMAIN Tail(h) = 1..Len(Tail(h))
    BY <1>3
  <2> QED
    BY <2>2, <2>3 DEF In
<1> QED
  BY <1>1, <1>2, <1>3

(* A request's hooks change when it draws stock, when one of them runs,    *)
(* and when the request ends.                                              *)
HooksStay(p) ==
  /\ hooks'[p] = hooks[p] /\ draw'[p] = draw[p]
  /\ pc'[p] \in Transaction => pc[p] \in Transaction \/ draw[p] = Nothing
  /\ pc'[p] = "alerted" => pc[p] = "alerted"
  /\ pc[p] \in {"saved", "alerted"} => pc'[p] \in {"saved", "alerted"}

HooksDrop(p) ==
  /\ pc'[p] \in Ended
  /\ pc[p] \in {"saved", "alerted"} => hooks[p] = <<>>

HookAdded(p) ==
  /\ pc[p] = "stock" /\ pc'[p] = "link"
  /\ \E s \in Assets : /\ \A t \in Assets \ {s} : draw'[p][t] = draw[p][t]
                       /\ hooks'[p] = Append(hooks[p], s)

LEMMA HookMoves ==
  ASSUME ~Faults, IInv, [Next]_vars
  PROVE  \/ \E q \in Requests : CommitFulfill(q) \/ RunHook(q) \/ StampAlert(q)
         \/ /\ UNCHANGED <<asset, issued, lowNotices>>
            /\ \A p \in Requests : HooksStay(p) \/ HooksDrop(p) \/ HookAdded(p)
<1>0. TypeOK /\ Control
  BY DEF IInv
<1> DEFINE Quiet == UNCHANGED <<asset, issued, lowNotices>>
           Kept(p) == HooksStay(p) \/ HooksDrop(p) \/ HookAdded(p)
<1>1. ASSUME NEW q \in Requests, NEW label \in Ended, End(q, label),
             pc[q] \notin {"saved", "alerted"} \/ hooks[q] = <<>>,
             NEW p \in Requests
      PROVE  Kept(p)
  <2>1. CASE p = q
    BY <1>0, <1>1, <2>1 DEF End, Goto, HooksDrop, TypeOK
  <2>2. CASE p # q
    <3>1. pc'[p] = pc[p] /\ hooks'[p] = hooks[p] /\ draw'[p] = draw[p]
      BY <1>0, <1>1, <2>2 DEF End, Goto, TypeOK
    <3> QED
      BY <3>1 DEF HooksStay
  <2> QED
    BY <2>1, <2>2
<1>2. ASSUME NEW q \in Requests, NEW label, Goto(q, label),
             UNCHANGED <<hooks, draw>>, NEW p \in Requests,
             label \in Transaction => pc[q] \in Transaction \/ draw[q] = Nothing,
             label # "alerted",
             pc[q] \in {"saved", "alerted"} => label = "saved"
      PROVE  Kept(p)
  BY <1>0, <1>2 DEF Goto, TypeOK, HooksStay
<1>3. CASE Submit
  <2>1. PICK q \in Requests, r \in Reqs, u \in Users :
          \/ \E sup \in Users : BeginCreate(q, r, u, sup)
          \/ RefuseCreate(q, r, u)
    BY <1>3 DEF Submit
  <2>2. pc[q] = "idle" /\ Quiet
    BY <2>1 DEF BeginCreate, RefuseCreate, Arrives, tables, history
  <2>3. \/ Goto(q, "counted") /\ UNCHANGED <<hooks, draw>>
        \/ End(q, "refused")
    BY <2>1 DEF BeginCreate, RefuseCreate
  <2> QED
    BY <1>1, <1>2, <2>2, <2>3 DEF Ended, Transaction
<1>4. CASE Open
  <2>1. PICK q \in Requests, r \in Reqs, u \in Users, kind \in Kinds :
          \/ \E dto \in Dtos \cup {<<>>} : Read(q, kind, r, u, dto)
          \/ Refuse(q, kind, r, u)
    BY <1>4 DEF Open
  <2>2. pc[q] = "idle" /\ Quiet
    BY <2>1 DEF Read, Refuse, Arrives, tables, history
  <2>3. \/ /\ Goto(q, AfterRead(kind)) /\ UNCHANGED <<hooks, draw>>
           /\ AfterRead(kind) # "alerted"
        \/ End(q, "refused")
    BY <2>1 DEF Read, Refuse, Accepts, AfterRead
  <2>4. draw[q] = Nothing
    BY <1>0, <2>2 DEF Control, ControlAt
  <2> QED
    BY <1>1, <1>2, <2>2, <2>3, <2>4 DEF Ended
<1>5. ASSUME NEW q \in Requests, Proceed(q),
             ~CommitFulfill(q), ~RunHook(q), ~StampAlert(q)
      PROVE  Quiet /\ \A p \in Requests : Kept(p)
  <2>1. Quiet
    BY <1>5 DEF Proceed, InsertRequisition, InsertItems, RecordDecision,
       LoadForSave, Save, SaveFails, UpdateItem, CheckForeignKey, DrawStock,
       Finish, DeadlockVictim, tables, history
  <2>2. CASE InsertRequisition(q) \/ InsertItems(q) \/ RecordDecision(q)
             \/ LoadForSave(q) \/ Save(q)
    <3>1. \/ End(q, "failed") /\ pc[q] = "counted"
          \/ /\ UNCHANGED <<hooks, draw>>
             /\ \/ Goto(q, "inserted") /\ pc[q] = "counted"
                \/ Goto(q, "saved") /\ pc[q] \in {"inserted", "saving"}
                \/ Goto(q, "deciding") /\ pc[q] = "checked"
                \/ Goto(q, "saving") /\ pc[q] = "deciding"
                \/ Goto(q, "reloaded") /\ pc[q] = "link"
      BY <2>2 DEF InsertRequisition, InsertItems, RecordDecision, LoadForSave,
                  Save
    <3> QED
      BY <1>1, <1>2, <2>1, <3>1 DEF Ended, Transaction
  <2>3. CASE UpdateItem(q) \/ CheckForeignKey(q)
    <3>1. \/ End(q, "refused") /\ pc[q] = "link"
          \/ /\ UNCHANGED <<hooks, draw>> /\ pc[q] \in {"link", "fk"}
             /\ \E label \in {"link", "fk", "stock"} : Goto(q, label)
      BY <2>3 DEF UpdateItem, CheckForeignKey
    <3> QED
      BY <1>1, <1>2, <2>1, <3>1 DEF Ended, Transaction
  <2>4. CASE SaveFails(q) \/ Finish(q) \/ DeadlockVictim(q)
    <3>1. \/ pc[q] \notin {"saved", "alerted"}
          \/ hooks[q] = <<>>
      BY <2>4 DEF SaveFails, Finish, DeadlockVictim, Deadlocked, WaitsFor
    <3>2. \E label \in Ended : End(q, label)
      BY <2>4 DEF SaveFails, Finish, DeadlockVictim, Ended
    <3> QED
      BY <1>1, <2>1, <3>1, <3>2
  <2>5. CASE DrawStock(q)
    <3>1. CASE End(q, "refused")
      BY <1>1, <2>1, <2>5, <3>1 DEF DrawStock, Ended
    <3>2. CASE ~End(q, "refused")
      <4>1. PICK s \in Assets : s = Entry(q).asset
        BY <1>0, <2>5, EntryTyped DEF DrawStock, Control, ControlAt
      <4>2. /\ pc[q] = "stock" /\ pc' = [pc EXCEPT ![q] = "link"]
            /\ draw' = [draw EXCEPT ![q][s] = @ + Quantity[Entry(q).item]]
            /\ hooks' = [hooks EXCEPT ![q] = Append(@, s)]
        BY <2>5, <3>2, <4>1 DEF DrawStock, Goto
      <4>3. ASSUME NEW p \in Requests
            PROVE  Kept(p)
        <5>1. CASE p = q
          <6>1. /\ pc'[q] = "link" /\ hooks'[q] = Append(hooks[q], s)
                /\ draw[q] \in [Assets -> Nat]
                /\ draw'[q] = [draw[q] EXCEPT
                                 ![s] = @ + Quantity[Entry(q).item]]
            BY <1>0, <4>2 DEF TypeOK
          <6>2. \A t \in Assets \ {s} : draw'[q][t] = draw[q][t]
            BY <6>1
          <6> QED
            BY <4>2, <5>1, <6>1, <6>2 DEF HookAdded
        <5>2. CASE p # q
          BY <1>0, <4>2, <5>2 DEF HooksStay, TypeOK
        <5> QED
          BY <5>1, <5>2
      <4> QED
        BY <2>1, <4>3
    <3> QED
      BY <3>1, <3>2
  <2> QED
    BY <1>5, <2>2, <2>3, <2>4, <2>5 DEF Proceed
<1>6. ~\E q \in Requests : Disturb(q)
  BY DEF Disturb, HookFails, Fail
<1>7. ASSUME \/ \E u \in Users, d \in {"present", "away", "inactive"} :
                  SetDuty(u, d)
             \/ UNCHANGED vars
      PROVE  Quiet /\ \A p \in Requests : Kept(p)
  BY <1>7 DEF SetDuty, vars, tables, handlers, history, HooksStay
<1> QED
  BY <1>3, <1>4, <1>5, <1>6, <1>7 DEF Next, Idle

(* Every step preserves Hooked.                                            *)
LEMMA NextHooked ==
  ASSUME ~Faults, IInv, Hooked, [Next]_vars
  PROVE  Hooked'
<1>0. /\ TypeOK /\ Control /\ \A q \in Requests : HookAt(q) /\ ControlAt(q)
      /\ \A s \in Assets : /\ asset[s].alerted => lowNotices[s] > 0
                           /\ asset[s] \in AssetRow /\ lowNotices[s] \in Nat
                           /\ issued[s] \in Nat
      /\ \A q \in Requests : /\ hooks[q] \in Seq(Assets)
                             /\ draw[q] \in [Assets -> Nat]
      /\ Supplies \subseteq Assets
  BY StoreAssumption DEF IInv, Hooked, Control, TypeOK
<1> DEFINE Waiting(s) == \E q \in Requests :
                           pc[q] \in {"saved", "alerted"} /\ In(s, hooks[q])
           Noticed(s) ==
             issued[s] > 0 /\ asset[s].quantity <= Threshold[s] /\ ~Waiting(s)
               => asset[s].alerted /\ lowNotices[s] > 0
<1>1. LowStockNoticed <=> \A s \in Supplies : Noticed(s)
  BY DEF LowStockNoticed, In
<1>2. LowStockNoticed' <=> \A s \in Supplies : Noticed(s)'
  BY DEF LowStockNoticed, In
<1>3. \A s \in Supplies : Noticed(s)
  BY <1>1 DEF Hooked
<1> HIDE DEF Noticed
<1>4. ASSUME UNCHANGED <<asset, issued, lowNotices>>,
             \A p \in Requests : HooksStay(p) \/ HooksDrop(p) \/ HookAdded(p)
      PROVE  Hooked'
  <2>1. ASSUME NEW s \in Supplies
        PROVE  Noticed(s)'
    <3>1. Waiting(s) => Waiting(s)'
      BY <1>4 DEF HooksStay, HooksDrop, HookAdded, In
    <3> QED
      BY <1>3, <1>4, <3>1 DEF Noticed
  <2>2. ASSUME NEW p \in Requests
        PROVE  HookAt(p)'
    <3>1. CASE HooksStay(p)
      BY <1>0, <1>4, <3>1 DEF HooksStay, HookAt, Nothing
    <3>2. CASE HooksDrop(p)
      BY <3>2 DEF HooksDrop, HookAt, Ended, Transaction
    <3>3. CASE HookAdded(p)
      <4>1. PICK s \in Assets :
              /\ \A t \in Assets \ {s} : draw'[p][t] = draw[p][t]
              /\ hooks'[p] = Append(hooks[p], s)
        BY <3>3 DEF HookAdded
      <4>2. ASSUME NEW t \in Assets, draw'[p][t] > 0
            PROVE  In(t, hooks'[p])
        BY <1>0, <3>3, <4>1, <4>2, HookElements DEF HookAdded, HookAt, Transaction
      <4> QED
        BY <3>3, <4>2 DEF HookAdded, HookAt
    <3> QED
      BY <1>4, <3>1, <3>2, <3>3
  <2> QED
    BY <1>0, <1>2, <1>4, <2>1, <2>2 DEF Hooked
<1>5. ASSUME NEW q \in Requests, CommitFulfill(q)
      PROVE  Hooked'
  <2>1. /\ pc[q] = "reloaded" /\ pc' = [pc EXCEPT ![q] = "saved"]
        /\ UNCHANGED <<hooks, draw, lowNotices>>
        /\ asset' = [s \in Assets |->
                       IF draw[q][s] = 0 THEN asset[s]
                       ELSE [asset[s] EXCEPT
                               !.quantity = seen[q][s] - draw[q][s]]]
        /\ issued' = [s \in Assets |-> issued[s] + draw[q][s]]
    BY <1>5 DEF CommitFulfill, Goto
  <2>2. pc'[q] = "saved" /\ \A p \in Requests : p # q => pc'[p] = pc[p]
    BY <1>0, <2>1 DEF TypeOK
  <2>3. ASSUME NEW s \in Supplies
        PROVE  Noticed(s)'
    <3>1. draw[q][s] \in Nat /\ s \in Assets
      BY <1>0
    <3>2. CASE draw[q][s] = 0
      <4>1. asset'[s] = asset[s] /\ issued'[s] = issued[s]
        BY <1>0, <2>1, <3>1, <3>2
      <4>2. Waiting(s) => Waiting(s)'
        BY <2>1, <2>2
      <4> QED
        BY <1>3, <2>1, <4>1, <4>2 DEF Noticed
    <3>3. CASE draw[q][s] > 0
      <4>1. In(s, hooks[q])
        BY <1>0, <2>1, <3>1, <3>3 DEF HookAt, Transaction
      <4>2. Waiting(s)'
        BY <2>1, <2>2, <4>1
      <4> QED
        BY <4>2 DEF Noticed
    <3> QED
      BY <3>1, <3>2, <3>3
  <2>4. ASSUME NEW s \in Assets
        PROVE  asset'[s].alerted = asset[s].alerted
    BY <1>0, <2>1 DEF AssetRow
  <2>5. ASSUME NEW p \in Requests
        PROVE  HookAt(p)'
    BY <1>0, <2>1, <2>2 DEF HookAt, Transaction
  <2> QED
    BY <1>0, <1>2, <2>1, <2>3, <2>4, <2>5 DEF Hooked
<1>6. ASSUME NEW q \in Requests, RunHook(q)
      PROVE  Hooked'
  <2> DEFINE h == Head(hooks[q])
  <2>1. /\ pc[q] = "saved" /\ hooks[q] # <<>> /\ h \in Assets
        /\ UNCHANGED <<asset, issued, draw>>
    BY <1>0, <1>6, HeadTailProperties DEF RunHook, tables
  <2>2. CASE NeedsAlert(h)
    <3>1. /\ lowNotices' = [lowNotices EXCEPT ![h] = @ + 1]
          /\ pc' = [pc EXCEPT ![q] = "alerted"] /\ UNCHANGED hooks
      BY <1>6, <2>2 DEF RunHook, Goto
    <3>2. ASSUME NEW s \in Assets, lowNotices[s] > 0
          PROVE  lowNotices'[s] > 0
      <4>1. lowNotices'[s] = IF s = h THEN lowNotices[s] + 1 ELSE lowNotices[s]
        BY <1>0, <3>1 DEF TypeOK
      <4> QED
        BY <1>0, <3>2, <4>1
    <3>3. lowNotices'[h] > 0
      BY <1>0, <2>1, <3>1 DEF TypeOK
    <3>4. pc'[q] = "alerted" /\ \A p \in Requests : p # q => pc'[p] = pc[p]
      BY <1>0, <3>1 DEF TypeOK
    <3>5. ASSUME NEW s \in Supplies
          PROVE  Noticed(s)'
      <4>1. Waiting(s) => Waiting(s)'
        BY <3>1, <3>4
      <4> QED
        BY <1>0, <1>3, <2>1, <3>2, <4>1 DEF Noticed
    <3>6. ASSUME NEW p \in Requests
          PROVE  HookAt(p)'
      <4>1. CASE p = q
        BY <3>1, <3>3, <3>4, <4>1 DEF HookAt, Transaction
      <4>2. CASE p # q
        <5>1. pc[p] = "alerted" => Head(hooks[p]) \in Assets
          BY <1>0, HeadTailProperties DEF ControlAt
        <5> QED
          BY <1>0, <2>1, <3>1, <3>2, <3>4, <4>2, <5>1 DEF HookAt
      <4> QED
        BY <4>1, <4>2
    <3> QED
      BY <1>0, <1>2, <2>1, <3>2, <3>5, <3>6 DEF Hooked
  <2>3. CASE ~NeedsAlert(h)
    <3>1. /\ hooks' = [hooks EXCEPT ![q] = Tail(@)]
          /\ UNCHANGED <<pc, lowNotices>>
      BY <1>6, <2>3 DEF RunHook, PopHook
    <3>2. hooks'[q] = Tail(hooks[q]) /\ \A p \in Requests : p # q => hooks'[p] = hooks[p]
      BY <1>0, <3>1 DEF TypeOK
    <3>3. ASSUME NEW s \in Supplies
          PROVE  Noticed(s)'
      <4>1. CASE s = h
        BY <1>0, <2>1, <2>3, <3>1, <4>1 DEF Noticed, NeedsAlert, AssetRow
      <4>2. CASE s # h
        <5>1. In(s, hooks[q]) => In(s, Tail(hooks[q]))
          BY <1>0, <2>1, <4>2, HookElements
        <5>2. Waiting(s) => Waiting(s)'
          BY <3>1, <3>2, <5>1
        <5> QED
          BY <1>3, <2>1, <3>1, <5>2 DEF Noticed
      <4> QED
        BY <4>1, <4>2
    <3>4. ASSUME NEW p \in Requests
          PROVE  HookAt(p)'
      BY <1>0, <2>1, <3>1, <3>2 DEF HookAt, Transaction
    <3> QED
      BY <1>0, <1>2, <2>1, <3>1, <3>3, <3>4 DEF Hooked
  <2> QED
    BY <2>2, <2>3
<1>7. ASSUME NEW q \in Requests, StampAlert(q)
      PROVE  Hooked'
  <2> DEFINE h == Head(hooks[q])
  <2>1. /\ pc[q] = "alerted" /\ hooks[q] # <<>> /\ h \in Assets
        /\ asset' = [asset EXCEPT ![h].alerted = TRUE]
        /\ hooks' = [hooks EXCEPT ![q] = Tail(@)]
        /\ pc' = [pc EXCEPT ![q] = "saved"]
        /\ UNCHANGED <<issued, lowNotices, draw>>
    BY <1>0, <1>7, HeadTailProperties
    DEF StampAlert, PopHook, Goto, history, ControlAt
  <2>2. /\ pc'[q] = "saved" /\ hooks'[q] = Tail(hooks[q])
        /\ \A p \in Requests : p # q => pc'[p] = pc[p] /\ hooks'[p] = hooks[p]
    BY <1>0, <2>1 DEF TypeOK
  <2>3. /\ asset'[h].alerted = TRUE /\ lowNotices[h] > 0
        /\ \A s \in Assets : /\ asset'[s].quantity = asset[s].quantity
                             /\ s # h => asset'[s] = asset[s]
    BY <1>0, <2>1 DEF TypeOK, AssetRow, HookAt
  <2>4. ASSUME NEW s \in Supplies
        PROVE  Noticed(s)'
    <3>1. CASE s = h
      BY <2>1, <2>3, <3>1 DEF Noticed
    <3>2. CASE s # h
      <4>1. In(s, hooks[q]) => In(s, Tail(hooks[q]))
        BY <1>0, <2>1, <3>2, HookElements
      <4>2. Waiting(s) => Waiting(s)'
        BY <2>1, <2>2, <4>1
      <4> QED
        BY <1>0, <1>3, <2>1, <2>3, <3>2, <4>2 DEF Noticed
    <3> QED
      BY <3>1, <3>2
  <2>5. ASSUME NEW p \in Requests
        PROVE  HookAt(p)'
    BY <1>0, <2>1, <2>2 DEF HookAt, Transaction
  <2> QED
    BY <1>0, <1>2, <2>1, <2>3, <2>4, <2>5 DEF Hooked
<1> QED
  BY <1>4, <1>5, <1>6, <1>7, HookMoves

(***************************************************************************)
(* While no await throws, the low-stock hooks miss nothing: a supply that  *)
(* committed fulfilments drew down to its reorder level is stamped, and    *)
(* somebody was told, once the hooks of the requests that committed have   *)
(* run, in whatever order they interleave.                                 *)
(***************************************************************************)
THEOREM HooksSafe ==
  ASSUME ~Faults
  PROVE  Spec => []LowStockNoticed
<1>1. Init => Hooked
  BY StoreAssumption DEF Init, Hooked, HookAt, LowStockNoticed, Transaction
<1>2. IInv /\ Hooked /\ [Next]_vars => Hooked'
  BY NextHooked
<1>3. Hooked => LowStockNoticed
  BY DEF Hooked
<1> QED
  BY <1>1, <1>2, <1>3, Inductive, PTL DEF Spec
-----------------------------------------------------------------------------
(* The refinement, while no two requests on the same requisition overlap   *)
(* and every fulfilledItems array names a line once.  A request at work    *)
(* has the row its requisition still has; what it links and draws stays in *)
(* its own memory; and a requisition that is not fulfilled has no line     *)
(* linked, so the lines a transaction has linked are those it has dealt    *)
(* with.                                                                   *)
NamesLinesOnce ==
  \A dto \in Dtos : \A m, n \in DOMAIN dto : dto[m].item = dto[n].item => m = n

StartsFrom ==
  [approve |-> {"pending_supervisor"}, reject |-> {"pending_supervisor"},
   hold |-> {"pending_fulfillment"}, fulfill |-> Fulfillable]

WorkAt(q) ==
  /\ pc[q] = "counted" => mine[q].row.decision = None
  /\ pc[q] \in Reading =>
       /\ req[Target(q)].status \in StartsFrom[job[q].kind]
       /\ mine[q].items \subseteq ItemsOf(Target(q))
  /\ pc[q] \in Reading \ {"saving", "reloaded"} => mine[q].row = req[Target(q)]
  /\ pc[q] \in {"saving", "reloaded"} =>
       /\ base[q].row = req[Target(q)]
       /\ mine[q].row = Outcome(q, req[Target(q)])
       /\ \A i \in mine[q].items : base[q].link[i] = None
  /\ pc[q] \in {"checked", "deciding", "saving"} =>
       \A i \in mine[q].items : mine[q].link[i] = None

(* The entry a transaction is working on, the entries ahead of it, and the *)
(* lines whose stock it has taken from s.                                  *)
OnEntry(q) == pc[q] \in {"fk", "stock"}

Ahead(q) == DOMAIN todo[q] \ (IF OnEntry(q) THEN {1} ELSE {})

DealtWith(q) ==
  {i \in mine[q].items :
     mine[q].link[i] # None /\ (OnEntry(q) => i # Entry(q).item)}

TakenFrom(q, s) ==
  {i \in DealtWith(q) : ItemClass[i] = "IES" /\ mine[q].link[i] = s}

DrawsAsLinked(q) ==
  \A s \in Assets :
    /\ IsFiniteSet(Workflow!Units(TakenFrom(q, s)))
    /\ draw[q][s] = Cardinality(Workflow!Units(TakenFrom(q, s)))

LinesAt(q) ==
  pc[q] \in Transaction =>
    /\ DrawsAsLinked(q)
    /\ \A m, n \in DOMAIN todo[q] : todo[q][m].item = todo[q][n].item => m = n
    /\ \A n \in Ahead(q) :
         todo[q][n].item \in mine[q].items =>
           mine[q].link[todo[q][n].item] = None
    /\ OnEntry(q) => /\ Entry(q).item \in mine[q].items
                     /\ mine[q].link[Entry(q).item] = Entry(q).asset
    /\ pc[q] = "stock" => ItemClass[Entry(q).item] = "IES"

RowAt(r) ==
  /\ req[r].status = "absent" => req[r].decision = None
  /\ req[r].status \in Fulfillable => req[r].decision = "approved"
  /\ req[r].status # "fulfilled" => \A i \in ItemsOf(r) : link[i] = None

Working ==
  /\ Exclusive
  /\ \A r \in Reqs : RowAt(r)
  /\ \A q \in Requests : WorkAt(q) /\ LinesAt(q)

(* One more line, so many more units.                                      *)
LEMMA UnitsAdded ==
  ASSUME NEW lines, IsFiniteSet(Workflow!Units(lines)),
         NEW i \in Items, i \notin lines
  PROVE  /\ IsFiniteSet(Workflow!Units(lines \cup {i}))
         /\ Cardinality(Workflow!Units(lines \cup {i})) =
              Cardinality(Workflow!Units(lines)) + Quantity[i]
<1> DEFINE old == Workflow!Units(lines)
           new == {i} \X (1..Quantity[i])
<1>1. Quantity[i] \in Nat
  BY StoreAssumption
<1>2. IsFiniteSet(1..Quantity[i]) /\ Cardinality(1..Quantity[i]) = Quantity[i]
  <2> SUFFICES ASSUME NEW n \in Nat
               PROVE  IsFiniteSet(1..n) /\ Cardinality(1..n) = n
    BY <1>1
  <2>1. /\ IsFiniteSet(1..n)
        /\ Cardinality(1..n) = IF 1 > n THEN 0 ELSE n - 1 + 1
    BY FS_Interval
  <2>2. (IF 1 > n THEN 0 ELSE n - 1 + 1) = n
    OBVIOUS
  <2> QED
    BY <2>1, <2>2
<1>3. IsFiniteSet({i}) /\ Cardinality({i}) = 1
  BY FS_Singleton
<1>4. IsFiniteSet(new) /\ Cardinality(new) = Quantity[i]
  <2> DEFINE one == {i}
             many == 1..Quantity[i]
  <2> HIDE DEF one, many
  <2>1. IsFiniteSet(one) /\ Cardinality(one) = 1
    BY <1>3 DEF one
  <2>2. IsFiniteSet(many) /\ Cardinality(many) = Quantity[i]
    BY <1>2 DEF many
  <2>3. /\ IsFiniteSet(one \X many)
        /\ Cardinality(one \X many) = Cardinality(one) * Cardinality(many)
    BY <2>1, <2>2, FS_Product
  <2>4. Cardinality(one \X many) = Quantity[i]
    BY <1>1, <2>1, <2>2, <2>3
  <2>5. one \X many = new
    BY DEF one, many
  <2> QED
    BY <2>3, <2>4, <2>5
<1>5. Workflow!Units(lines \cup {i}) = old \cup new
  BY DEF Workflow!Units
<1>6. old \cap new = {}
  BY DEF Workflow!Units
<1>7. IsFiniteSet(old \cup new)
      /\ Cardinality(old \cup new) =
           Cardinality(old) + Cardinality(new) - Cardinality(old \cap new)
  <2> HIDE DEF old, new
  <2>1. IsFiniteSet(old)
    BY DEF old
  <2> QED
    BY <1>4, <2>1, FS_Union
<1>8. Cardinality(old) \in Nat
  BY FS_CardinalityType
<1>9. Cardinality(old \cap new) = 0
  BY <1>6, FS_EmptySet
<1> HIDE DEF old, new
<1>10. Cardinality(old \cup new) = Cardinality(old) + Quantity[i]
  BY <1>1, <1>4, <1>7, <1>8, <1>9
<1> QED
  BY <1>5, <1>7, <1>10 DEF old

(* What one request does leaves the memory of every other as it is.        *)
Aside(p) ==
  /\ pc'[p] = pc[p] /\ job'[p] = job[p] /\ mine'[p] = mine[p]
  /\ base'[p] = base[p] /\ todo'[p] = todo[p] /\ draw'[p] = draw[p]

LEMMA OthersAside ==
  ASSUME IInv, NEW p \in Requests, NEW q \in Requests, q # p,
         Opens(q) \/ Proceed(q) \/ Disturb(q)
  PROVE  Aside(p)
<1>0. TypeOK
  BY DEF IInv
<1>1. ASSUME NEW label, End(q, label)
      PROVE  /\ pc'[p] = pc[p] /\ mine'[p] = mine[p] /\ base'[p] = base[p]
             /\ todo'[p] = todo[p] /\ draw'[p] = draw[p]
  BY <1>0, <1>1 DEF End, Goto, TypeOK
<1>2. pc'[p] = pc[p] /\ job'[p] = job[p]
  BY OtherStill DEF Still
<1>3. ASSUME \E label : End(q, label)
      PROVE  Aside(p)
  BY <1>1, <1>2, <1>3 DEF Aside
<1>4. CASE Opens(q)
  <2>1. ASSUME NEW r \in Reqs, NEW u \in Users, NEW sup \in Users,
               BeginCreate(q, r, u, sup)
        PROVE  Aside(p)
    <3>1. PICK row : mine' = [mine EXCEPT ![q].row = row]
      BY <2>1, Zenon DEF BeginCreate
    <3>2. mine'[p] = mine[p]
      BY <1>0, <3>1 DEF TypeOK
    <3>3. UNCHANGED <<base, todo, draw>>
      BY <2>1, Zenon DEF BeginCreate
    <3> QED
      BY <1>2, <3>2, <3>3 DEF Aside
  <2>2. ASSUME NEW kind \in Kinds, NEW r \in Reqs, NEW u \in Users,
               NEW dto \in Dtos \cup {<<>>}, Read(q, kind, r, u, dto)
        PROVE  Aside(p)
    BY <1>0, <1>2, <2>2 DEF Read, Aside, TypeOK
  <2> QED
    BY <1>3, <1>4, <2>1, <2>2 DEF Opens, RefuseCreate, Refuse
<1>5. CASE LoadForSave(q)
  BY <1>0, <1>2, <1>5 DEF LoadForSave, Aside, TypeOK
<1>6. CASE UpdateItem(q) \/ CheckForeignKey(q) \/ DrawStock(q)
  BY <1>0, <1>2, <1>3, <1>6
  DEF UpdateItem, CheckForeignKey, DrawStock, Aside, TypeOK
<1> QED
  BY <1>2, <1>3, <1>4, <1>5, <1>6
  DEF Proceed, Disturb, InsertRequisition, InsertItems, RecordDecision, Save,
      SaveFails, CommitFulfill, RunHook, StampAlert, Finish, DeadlockVictim,
      HookFails, Fail, Aside


(* A step writes rows, links and quantities in one of three places only,   *)
(* and of the requisition it works on only.                                *)
Quiet ==
  /\ UNCHANGED <<req, link>>
  /\ \A s \in Assets : asset'[s].quantity = asset[s].quantity

Submits(q) ==
  /\ pc[q] = "counted" /\ pc'[q] = "inserted"
  /\ req' = [req EXCEPT ![Target(q)] = mine[q].row]
  /\ UNCHANGED <<link, asset>>

LEMMA WritesWhere ==
  ASSUME IInv, NEW q \in Requests, Opens(q) \/ Proceed(q) \/ Disturb(q)
  PROVE  \/ Quiet \/ Submits(q) \/ Save(q) \/ CommitFulfill(q)
<1>0. TypeOK
  BY DEF IInv
<1>1. ASSUME UNCHANGED tables
      PROVE  Quiet
  BY <1>1 DEF Quiet, tables
<1>2. CASE Opens(q)
  <2>1. UNCHANGED tables
    BY ZenonT(60), <1>2 DEF Opens, BeginCreate, RefuseCreate, Read, Refuse, tables
  <2> QED
    BY <1>1, <2>1
<1>3. CASE InsertRequisition(q)
  BY <1>0, <1>3 DEF InsertRequisition, Submits, Quiet, Goto, TypeOK
<1>4. CASE StampAlert(q)
  <2>1. PICK s : asset' = [asset EXCEPT ![s].alerted = TRUE]
    BY <1>4 DEF StampAlert
  <2>2. ASSUME NEW x \in Assets
        PROVE  asset'[x].quantity = asset[x].quantity
    BY <1>0, <2>1 DEF TypeOK, AssetRow
  <2> QED
    BY <1>4, <2>2 DEF StampAlert, Quiet
<1>5. ASSUME Proceed(q) \/ Disturb(q), ~InsertRequisition(q), ~StampAlert(q),
             ~Save(q), ~CommitFulfill(q)
      PROVE  Quiet
  BY <1>5 DEF Proceed, Disturb, InsertItems, RecordDecision, LoadForSave,
     SaveFails, UpdateItem, CheckForeignKey, DrawStock, RunHook, Finish,
     DeadlockVictim, HookFails, Fail, tables, Quiet
<1> QED
  BY <1>2, <1>3, <1>4, <1>5

(* What a save() writes when the row is the one it loaded: the outcome of  *)
(* the operation, and the links the transaction has made.                  *)
LEMMA SaveWrites ==
  ASSUME IInv, Working, NEW q \in Requests,
         pc[q] \in {"saving", "reloaded"}, WriteSaved(q)
  PROVE  /\ Target(q) \in Reqs
         /\ req[Target(q)].status \in StartsFrom[job[q].kind]
         /\ \A r \in Reqs : r # Target(q) => req'[r] = req[r]
         /\ req'[Target(q)].status = StatusAfter[job[q].kind]
         /\ req'[Target(q)].decision =
              CASE job[q].kind = "approve" -> "approved"
                [] job[q].kind = "reject" -> "rejected"
                [] job[q].kind \in {"hold", "fulfill"} ->
                     req[Target(q)].decision
         /\ link' = [i \in Items |-> IF i \in mine[q].items /\ mine[q].link[i] # None
                                     THEN mine[q].link[i] ELSE link[i]]
<1> DEFINE r == Target(q)
<1>1. /\ TypeOK /\ r \in Reqs /\ req[r] \in Row
      /\ job[q].kind \in {"approve", "reject", "hold", "fulfill"}
  BY DEF IInv, TypeOK, Control, ControlAt, Transaction
<1>2. /\ req[r].status \in StartsFrom[job[q].kind]
      /\ base[q].row = req[r] /\ mine[q].row = Outcome(q, req[r])
      /\ \A i \in mine[q].items : base[q].link[i] = None
  BY DEF Working, WorkAt, Reading, Transaction
<1>3. req' = [req EXCEPT ![r] = SavedRow(@, base[q].row, mine[q].row)]
  BY DEF WriteSaved
<1>4. req'[r] = SavedRow(req[r], req[r], Outcome(q, req[r]))
  BY <1>1, <1>2, <1>3 DEF TypeOK
<1>5. \A x \in Reqs : x # r => req'[x] = req[x]
  BY <1>1, <1>3 DEF TypeOK
<1>6. /\ Outcome(q, req[r]).status = StatusAfter[job[q].kind]
      /\ Outcome(q, req[r]).decision =
           CASE job[q].kind = "approve" -> "approved"
             [] job[q].kind = "reject" -> "rejected"
             [] job[q].kind \in {"hold", "fulfill"} -> req[r].decision
  BY <1>1 DEF Outcome, StatusAfter, Row
<1>7. /\ req'[r].status = Outcome(q, req[r]).status
      /\ req'[r].decision = Outcome(q, req[r]).decision
  BY <1>4 DEF SavedRow, Columns
<1>8. link' = [i \in Items |-> IF i \in mine[q].items /\ mine[q].link[i] # None
                               THEN mine[q].link[i] ELSE link[i]]
  BY <1>2 DEF WriteSaved, SavedLink, CascadedItems
<1> QED
  BY <1>1, <1>2, <1>5, <1>6, <1>7, <1>8


(* Every step keeps what the rows say of decisions and links.              *)
LEMMA NextRowAt ==
  ASSUME DInv, Working, NEW q \in Requests, NEW r \in Reqs,
         Opens(q) \/ Proceed(q) \/ Disturb(q)
  PROVE  RowAt(r)'
<1>0. /\ IInv /\ TypeOK /\ ControlAt(q) /\ RowAt(r)
      /\ mine[q].items \subseteq Items /\ CreationAt(q)
  <2>1. /\ TypeOK /\ ControlAt(q) /\ RowAt(r) /\ mine[q] \in Copy /\ IInv
        /\ CreationAt(q)
    BY DEF DInv, IInv, Control, Working, TypeOK, Creation
  <2> QED
    BY <2>1 DEF Copy
<1>1. CASE Quiet
  BY <1>0, <1>1 DEF Quiet, RowAt
<1>2. CASE Submits(q)
  <2>1. CASE r = Target(q)
    <3>1. req'[r] = mine[q].row /\ link' = link
      BY <1>0, <1>2, <2>1 DEF Submits, TypeOK
    <3>2. mine[q].row.status = "pending_supervisor" /\ req[r].status = "absent"
      BY <1>0, <1>2, <2>1 DEF Submits, ControlAt, CreationAt
    <3> QED
      BY <1>0, <3>1, <3>2 DEF RowAt, Fulfillable
  <2>2. CASE r # Target(q)
    <3>1. req'[r] = req[r] /\ link' = link
      BY <1>0, <1>2, <2>2 DEF Submits, TypeOK
    <3> QED
      BY <1>0, <3>1 DEF RowAt
  <2> QED
    BY <2>1, <2>2
<1>3. CASE Save(q) \/ CommitFulfill(q)
  <2>1. pc[q] \in {"saving", "reloaded"} /\ WriteSaved(q)
    BY <1>3 DEF Save, CommitFulfill
  <2> DEFINE t == Target(q)
  <2>2. /\ t \in Reqs
        /\ req[t].status \in StartsFrom[job[q].kind]
        /\ \A x \in Reqs : x # t => req'[x] = req[x]
        /\ req'[t].status = StatusAfter[job[q].kind]
        /\ req'[t].decision =
             CASE job[q].kind = "approve" -> "approved"
               [] job[q].kind = "reject" -> "rejected"
               [] job[q].kind \in {"hold", "fulfill"} -> req[t].decision
        /\ link' = [i \in Items |-> IF i \in mine[q].items /\ mine[q].link[i] # None
                                    THEN mine[q].link[i] ELSE link[i]]
    BY <1>0, <2>1, SaveWrites
  <2>3. /\ mine[q].items \subseteq ItemsOf(t)
        /\ pc[q] = "saving" => /\ job[q].kind \in {"approve", "reject", "hold"}
                               /\ \A i \in mine[q].items : mine[q].link[i] = None
        /\ pc[q] = "reloaded" => job[q].kind = "fulfill"
    BY <1>0, <2>1 DEF Working, WorkAt, ControlAt, Reading, Transaction
  <2>4. ASSUME NEW i \in ItemsOf(r), link'[i] # link[i]
        PROVE  r = t /\ pc[q] = "reloaded"
    BY <2>1, <2>2, <2>3, <2>4 DEF ItemsOf
  <2>5. CASE r # t
    BY <1>0, <2>2, <2>4, <2>5 DEF RowAt
  <2>6. CASE r = t /\ job[q].kind = "fulfill"
    BY <1>0, <2>2, <2>6 DEF RowAt, StartsFrom, StatusAfter, Fulfillable
  <2>7. CASE r = t /\ job[q].kind # "fulfill"
    <3>1. /\ job[q].kind \in {"approve", "reject", "hold"}
          /\ \A i \in ItemsOf(r) : link'[i] = link[i]
      BY <2>1, <2>3, <2>4, <2>7
    <3>2. req[r].status # "fulfilled" /\ req'[r].status # "absent"
      BY <2>2, <2>7, <3>1 DEF StartsFrom, StatusAfter
    <3>3. req'[r].status \in Fulfillable => req'[r].decision = "approved"
      BY <1>0, <2>2, <2>7, <3>1 DEF RowAt, StartsFrom, StatusAfter, Fulfillable
    <3> QED
      BY <1>0, <3>1, <3>2, <3>3 DEF RowAt
  <2> QED
    BY <2>5, <2>6, <2>7
<1> QED
  BY <1>0, <1>1, <1>2, <1>3, WritesWhere

(* What another request does leaves alone the work on a requisition that   *)
(* is not its own.                                                         *)
LEMMA WorkStays ==
  ASSUME DInv, Working, NEW p \in Requests, NEW q \in Requests, p # q,
         Opens(q) \/ Proceed(q) \/ Disturb(q)
  PROVE  WorkAt(p)' /\ LinesAt(p)'
<1>0. /\ IInv /\ TypeOK /\ ControlAt(p) /\ ControlAt(q)
      /\ WorkAt(p) /\ LinesAt(p) /\ Exclusive
  BY DEF DInv, IInv, Control, Working
<1>1. Aside(p)
  BY <1>0, OthersAside
<1>2. ASSUME pc[p] \in Reading
      PROVE  req'[Target(p)] = req[Target(p)]
  <2>1. InProgress(p) /\ Target(p) \in Reqs
    BY <1>0, <1>2 DEF InProgress, Reading, Transaction, Ended, ControlAt
  <2>2. ASSUME InProgress(q)
        PROVE  Target(q) # Target(p)
    BY <1>0, <2>1, <2>2 DEF Exclusive
  <2>3. CASE Quiet
    BY <2>3 DEF Quiet
  <2>4. CASE Submits(q)
    <3>1. Target(q) # Target(p)
      BY <2>2, <2>4 DEF Submits, InProgress, Ended
    <3> QED
      BY <1>0, <2>1, <2>4, <3>1 DEF Submits, TypeOK
  <2>5. CASE Save(q) \/ CommitFulfill(q)
    <3>1. pc[q] \in {"saving", "reloaded"} /\ WriteSaved(q)
      BY <2>5 DEF Save, CommitFulfill
    <3>2. Target(q) # Target(p)
      BY <2>2, <3>1 DEF InProgress, Ended
    <3> QED
      BY <1>0, <2>1, <3>1, <3>2, SaveWrites
  <2> QED
    BY <1>0, <2>3, <2>4, <2>5, WritesWhere
<1>3. LinesAt(p)'
  <2>1. /\ pc'[p] = pc[p] /\ todo'[p] = todo[p]
        /\ mine'[p] = mine[p] /\ draw'[p] = draw[p]
    BY <1>1 DEF Aside
  <2>2. OnEntry(p)' = OnEntry(p) /\ Entry(p)' = Entry(p) /\ Ahead(p)' = Ahead(p)
    BY <2>1, Zenon DEF OnEntry, Entry, Ahead
  <2>3. \A s : TakenFrom(p, s)' = TakenFrom(p, s)
    BY <2>1, <2>2, Zenon DEF TakenFrom, DealtWith
  <2>4. DrawsAsLinked(p)' <=> DrawsAsLinked(p)
    BY <2>1, <2>3, Zenon DEF DrawsAsLinked, Workflow!Units
  <2> QED
    BY <1>0, <2>1, <2>2, <2>4, Zenon DEF LinesAt
<1>4. WorkAt(p)'
  <2>1. CASE pc[p] \in Reading
    BY <1>0, <1>1, <1>2, <2>1
    DEF Aside, WorkAt, Target, ItemsOf, Outcome, Reading, Transaction
  <2>2. CASE pc[p] \notin Reading
    BY <1>0, <1>1, <2>2 DEF Aside, WorkAt, Reading, Transaction
  <2> QED
    BY <2>1, <2>2
<1> QED
  BY <1>3, <1>4


(* A request that has read its requisition knows its row and its lines,    *)
(* none of which is linked.                                                *)
LEMMA ReadWork ==
  ASSUME NamesLinesOnce, DInv, Working, NEW q \in Requests, Reads(q)
  PROVE  WorkAt(q)' /\ LinesAt(q)'
<1>0. IInv /\ TypeOK /\ ControlAt(q)
  BY DEF DInv, IInv, Control
<1>1. PICK kind \in Kinds, r \in Reqs, u \in Users, dto \in Dtos \cup {<<>>} :
        Read(q, kind, r, u, dto)
  BY DEF Reads
<1>2. /\ pc[q] = "idle" /\ Accepts(kind, Loaded(r), u)
      /\ job'[q] = [kind |-> kind, target |-> r, actor |-> u]
      /\ mine'[q] = Loaded(r) /\ pc'[q] = AfterRead(kind)
      /\ todo'[q] = IF kind = "fulfill" THEN dto ELSE <<>>
      /\ UNCHANGED <<req, draw>>
  BY <1>0, <1>1 DEF Read, Arrives, Goto, TypeOK, tables
<1>3. /\ kind \in {"approve", "reject", "hold", "fulfill"}
      /\ req[r].status \in StartsFrom[kind]
  BY <1>2 DEF Accepts, MayDecide, Loaded, StartsFrom
<1>4. /\ mine'[q].row = req[r] /\ mine'[q].items \subseteq ItemsOf(r)
      /\ mine'[q].link = link
  BY <1>2 DEF Loaded
<1>5. \A i \in ItemsOf(r) : link[i] = None
  <2>1. req[r].status # "fulfilled" /\ RowAt(r)
    BY <1>3 DEF StartsFrom, Fulfillable, Working
  <2> QED
    BY <2>1 DEF RowAt
<1>6. /\ pc'[q] \in {"checked", "deciding", "link"}
      /\ pc'[q] = "link" => kind = "fulfill"
  BY <1>2, <1>3 DEF AfterRead
<1>7. WorkAt(q)'
  BY <1>2, <1>3, <1>4, <1>5, <1>6
  DEF WorkAt, Target, Reading, Transaction, ItemsOf
<1>8. ASSUME pc'[q] = "link"
      PROVE  LinesAt(q)'
  <2>1. todo'[q] = dto /\ \A m, n \in DOMAIN dto : dto[m].item = dto[n].item => m = n
    BY <1>2, <1>6, <1>8 DEF NamesLinesOnce
  <2>2. \A s \in Assets : TakenFrom(q, s)' = {}
    BY <1>4, <1>5 DEF TakenFrom, DealtWith
  <2>3. draw'[q] = Nothing
    BY <1>0, <1>2 DEF ControlAt
  <2>4. Workflow!Units({}) = {}
    BY DEF Workflow!Units
  <2>5. DrawsAsLinked(q)'
    <3> SUFFICES ASSUME NEW s \in Assets
                 PROVE  /\ IsFiniteSet(Workflow!Units(TakenFrom(q, s)))'
                        /\ draw'[q][s] = Cardinality(Workflow!Units(TakenFrom(q, s)))'
      BY DEF DrawsAsLinked
    <3>1. Workflow!Units(TakenFrom(q, s))' = {}
      BY <2>2, <2>4 DEF Workflow!Units
    <3> QED
      BY <2>3, <3>1, FS_EmptySet DEF Nothing
  <2>6. \A n \in DOMAIN dto : dto[n].item \in mine'[q].items =>
          mine'[q].link[dto[n].item] = None
    BY <1>4, <1>5
  <2> QED
    BY <1>8, <2>1, <2>5, <2>6 DEF LinesAt, Ahead, OnEntry, Transaction
<1> QED
  BY <1>6, <1>7, <1>8 DEF LinesAt, Transaction

(* save() is given a copy of the row that is still there, with the columns *)
(* of the outcome.                                                         *)
LEMMA LoadWork ==
  ASSUME DInv, Working, NEW q \in Requests, LoadForSave(q)
  PROVE  WorkAt(q)' /\ LinesAt(q)'
<1>0. IInv /\ TypeOK /\ ControlAt(q) /\ WorkAt(q) /\ LinesAt(q) /\ mine[q] \in Copy
  BY DEF DInv, IInv, Control, Working, TypeOK
<1>1. /\ job' = job /\ Target(q) \in Reqs
      /\ \/ pc[q] = "deciding" /\ pc'[q] = "saving"
         \/ pc[q] = "link" /\ pc'[q] = "reloaded"
      /\ mine'[q].row = Outcome(q, mine[q].row)
      /\ base'[q].row = req[Target(q)]
      /\ UNCHANGED req
  BY <1>0, LoadKnows
<1>2. /\ mine' = [mine EXCEPT ![q].row = Outcome(q, @)]
      /\ base' = [base EXCEPT ![q] = Loaded(Target(q))]
      /\ UNCHANGED <<todo, draw>>
  BY DEF LoadForSave
<1>3. mine'[q].items = mine[q].items /\ mine'[q].link = mine[q].link
  <2>1. PICK row : mine' = [mine EXCEPT ![q].row = row]
    BY <1>2
  <2> QED
    BY <1>0, <2>1 DEF TypeOK, Copy
<1>4. base'[q].link = link
  BY <1>0, <1>2 DEF TypeOK, Loaded
<1>5. /\ req[Target(q)].status \in StartsFrom[job[q].kind]
      /\ mine[q].items \subseteq ItemsOf(Target(q))
      /\ mine[q].row = req[Target(q)]
  BY <1>0, <1>1 DEF WorkAt, Reading, Transaction
<1>6. \A i \in mine[q].items : link[i] = None
  <2>1. job[q].kind \in {"approve", "reject", "hold", "fulfill"}
    BY <1>0, LoadKnows
  <2>2. req[Target(q)].status # "fulfilled" /\ RowAt(Target(q))
    BY <1>1, <1>5, <2>1 DEF StartsFrom, Fulfillable, Working
  <2> QED
    BY <1>5, <2>2 DEF RowAt
<1>7. WorkAt(q)'
  BY <1>0, <1>1, <1>3, <1>4, <1>5, <1>6
  DEF WorkAt, Target, Outcome, Reading, Transaction, ItemsOf
<1>8. LinesAt(q)'
  <2>1. CASE pc'[q] = "saving"
    BY <2>1 DEF LinesAt, Transaction
  <2>2. CASE pc[q] = "link" /\ pc'[q] = "reloaded"
    BY <1>0, <1>2, <1>3, <2>2
    DEF LinesAt, DrawsAsLinked, TakenFrom, DealtWith, Ahead, OnEntry, Entry,
        Transaction, Workflow!Units
  <2> QED
    BY <1>1, <2>1, <2>2
<1> QED
  BY <1>7, <1>8


(* Linking a line: the next entry's, which no entry has linked before.     *)
LEMMA UpdateItemWork ==
  ASSUME DInv, Working, NEW q \in Requests, UpdateItem(q), pc'[q] \notin Ended
  PROVE  WorkAt(q)' /\ LinesAt(q)'
<1>0. IInv /\ TypeOK /\ ControlAt(q) /\ WorkAt(q) /\ LinesAt(q) /\ mine[q] \in Copy
  BY DEF DInv, IInv, Control, Working, TypeOK
<1> DEFINE i == Entry(q).item
           s == Entry(q).asset
<1>1. /\ pc[q] = "link" /\ todo[q] # <<>>
      /\ i \in mine[q].items
      /\ mine' = [mine EXCEPT ![q].link[i] = s]
      /\ pc' = [pc EXCEPT ![q] = "fk"]
      /\ UNCHANGED <<req, job, base, todo, draw>>
  <2>1. ~End(q, "refused")
    BY <1>0 DEF End, Goto, TypeOK, Ended
  <2> QED
    BY <2>1, Zenon DEF UpdateItem, Goto, tables
<1>2. /\ todo[q] \in Seq([item: Items, asset: Assets])
      /\ 1 \in DOMAIN todo[q] /\ todo[q][1] = Entry(q)
      /\ i \in Items /\ s \in Assets
  <2>1. todo[q] \in Seq([item: Items, asset: Assets]) /\ todo[q] # <<>>
    BY <1>0, <1>1 DEF TypeOK
  <2>2. 1 \in DOMAIN todo[q] /\ todo[q][1] = Head(todo[q])
    BY <2>1
  <2> QED
    BY <1>0, <2>1, <2>2, EntryTyped DEF Entry
<1> HIDE DEF i, s
<1>3. /\ pc'[q] = "fk" /\ mine'[q].row = mine[q].row
      /\ mine'[q].items = mine[q].items
      /\ mine'[q].link = [mine[q].link EXCEPT ![i] = s]
      /\ mine[q].link \in [Items -> Assets \cup {None}]
  BY <1>0, <1>1 DEF TypeOK, Copy
<1>4. mine[q].link[i] = None
  BY <1>0, <1>1, <1>2 DEF LinesAt, Transaction, Ahead, OnEntry, i
<1>5. WorkAt(q)'
  BY <1>0, <1>1, <1>3 DEF WorkAt, Target, ItemsOf, Reading, Transaction
<1>6. DealtWith(q)' = DealtWith(q)
  <2>1. mine[q].items \subseteq Items /\ Entry(q)' = Entry(q)
    BY <1>0, <1>1 DEF Copy, Entry
  <2>2. DealtWith(q)' = {x \in mine[q].items : mine'[q].link[x] # None /\ x # i}
    BY <1>3, <2>1 DEF DealtWith, OnEntry, i
  <2>3. DealtWith(q) = {x \in mine[q].items : mine[q].link[x] # None}
    BY <1>1 DEF DealtWith, OnEntry
  <2>4. \A x \in mine[q].items : x # i => mine'[q].link[x] = mine[q].link[x]
    BY <1>3, <2>1
  <2> QED
    BY <1>4, <2>2, <2>3, <2>4
<1>7. \A x \in DealtWith(q) : mine'[q].link[x] = mine[q].link[x]
  BY <1>0, <1>3, <1>4 DEF DealtWith, Copy
<1>8. \A x : TakenFrom(q, x)' = TakenFrom(q, x)
  BY <1>6, <1>7 DEF TakenFrom
<1>9. DrawsAsLinked(q)'
  BY <1>0, <1>1, <1>8 DEF LinesAt, DrawsAsLinked, Transaction, Workflow!Units
<1>10. ASSUME NEW n \in Ahead(q)', todo'[q][n].item \in mine'[q].items
       PROVE  mine'[q].link[todo'[q][n].item] = None
  <2>1. n \in Ahead(q) /\ n # 1 /\ n \in DOMAIN todo[q]
    BY <1>1, <1>3, <1>10 DEF Ahead, OnEntry
  <2>2. todo[q][n].item # i
    BY <1>0, <1>1, <1>2, <2>1 DEF LinesAt, Transaction, i
  <2>3. mine[q].link[todo[q][n].item] = None
    BY <1>0, <1>1, <1>3, <1>10, <2>1 DEF LinesAt, Transaction
  <2>4. todo[q][n].item \in Items
    <3>1. todo[q][n] \in [item: Items, asset: Assets]
      <4>1. n \in 1..Len(todo[q])
        BY <1>2, <2>1
      <4> QED
        BY <1>2, <4>1, ElementOfSeq
    <3> QED
      BY <3>1
  <2> QED
    BY <1>1, <1>3, <2>2, <2>3, <2>4
<1>11. Entry(q)' = Entry(q)
  BY <1>1 DEF Entry
<1>12. Entry(q).item \in mine'[q].items /\ mine'[q].link[Entry(q).item] = Entry(q).asset
  BY <1>1, <1>2, <1>3 DEF i, s
<1> QED
  BY <1>0, <1>1, <1>3, <1>5, <1>9, <1>10, <1>11, <1>12
  DEF LinesAt, Transaction, OnEntry

(* An entry that is dealt with is the one at the head; those ahead of it   *)
(* move up.                                                                *)
LEMMA EntryDone ==
  ASSUME DInv, Working, NEW q \in Requests, OnEntry(q), pc'[q] = "link",
         todo' = [todo EXCEPT ![q] = Tail(@)], UNCHANGED <<req, job, mine, base>>
  PROVE  /\ WorkAt(q)'
         /\ DealtWith(q)' = DealtWith(q) \cup {Entry(q).item}
         /\ Entry(q).item \notin DealtWith(q)
         /\ DrawsAsLinked(q)' => LinesAt(q)'
<1>0. TypeOK /\ ControlAt(q) /\ WorkAt(q) /\ LinesAt(q)
  BY DEF DInv, IInv, Control, Working
<1>1. /\ pc[q] \in {"fk", "stock"}
      /\ todo[q] \in Seq([item: Items, asset: Assets]) /\ todo[q] # <<>>
      /\ todo'[q] = Tail(todo[q])
  BY <1>0 DEF OnEntry, ControlAt, TypeOK
<1>2. WorkAt(q)'
  BY <1>0, <1>1 DEF WorkAt, Target, ItemsOf, Reading, Transaction
<1>3. /\ Entry(q).item \in mine[q].items
      /\ mine[q].link[Entry(q).item] = Entry(q).asset
      /\ Entry(q).asset # None
  <2>1. Entry(q).asset \in Assets
    BY <1>0, <1>1, EntryTyped
  <2>2. None \notin Assets
    BY StoreAssumption
  <2> QED
    BY <1>0, <1>1, <2>1, <2>2 DEF LinesAt, Transaction, OnEntry
<1>4. /\ DealtWith(q)' = {x \in mine[q].items : mine[q].link[x] # None}
      /\ DealtWith(q) = {x \in mine[q].items : mine[q].link[x] # None
                                               /\ x # Entry(q).item}
  BY DEF DealtWith, OnEntry
<1>5. \A n \in DOMAIN Tail(todo[q]) :
        /\ n + 1 \in DOMAIN todo[q] /\ n + 1 \in Ahead(q)
        /\ Tail(todo[q])[n] = todo[q][n + 1]
  BY <1>1 DEF Ahead, OnEntry
<1>6. \A n \in Ahead(q)' :
        todo'[q][n].item \in mine'[q].items =>
          mine'[q].link[todo'[q][n].item] = None
  <2>1. Ahead(q)' = DOMAIN Tail(todo[q])
    BY <1>1 DEF Ahead, OnEntry
  <2>2. ASSUME NEW n \in DOMAIN Tail(todo[q]),
               todo[q][n + 1].item \in mine[q].items
        PROVE  mine[q].link[todo[q][n + 1].item] = None
    BY <1>0, <1>1, <1>5, <2>2 DEF LinesAt, Transaction
  <2>3. ASSUME NEW n \in DOMAIN Tail(todo[q]),
               Tail(todo[q])[n].item \in mine[q].items
        PROVE  mine[q].link[Tail(todo[q])[n].item] = None
    BY <1>5, <2>2, <2>3
  <2> QED
    BY <1>1, <2>1, <2>3
<1>7. ASSUME NEW m \in DOMAIN Tail(todo[q]), NEW n \in DOMAIN Tail(todo[q]),
             Tail(todo[q])[m].item = Tail(todo[q])[n].item
      PROVE  m = n
  <2>1. todo[q][m + 1].item = todo[q][n + 1].item
    BY <1>5, <1>7
  <2>2. \A a, b \in DOMAIN todo[q] :
          todo[q][a].item = todo[q][b].item => a = b
    BY <1>0, <1>1, Zenon DEF LinesAt, Transaction
  <2>3. m + 1 \in DOMAIN todo[q] /\ n + 1 \in DOMAIN todo[q]
    BY <1>5
  <2>4. m + 1 = n + 1
    BY <2>1, <2>2, <2>3
  <2>5. m \in Nat /\ n \in Nat
    BY <1>1
  <2> QED
    BY <2>4, <2>5
<1>8. \A m, n \in DOMAIN todo'[q] : todo'[q][m].item = todo'[q][n].item => m = n
  <2> DEFINE Once(t) == \A m, n \in DOMAIN t : t[m].item = t[n].item => m = n
  <2>1. Once(Tail(todo[q]))
    BY <1>7
  <2> HIDE DEF Once
  <2>2. Once(todo'[q])
    BY <1>1, <2>1, Zenon
  <2> QED
    BY <2>2 DEF Once
<1>9. DrawsAsLinked(q)' => LinesAt(q)'
  BY <1>6, <1>8 DEF LinesAt, OnEntry
<1> QED
  BY <1>2, <1>3, <1>4, <1>9


(* A line that is no supply takes no stock; a supply line takes its        *)
(* quantity from the asset it is linked to.                                *)
LEMMA ForeignKeyWork ==
  ASSUME DInv, Working, NEW q \in Requests, CheckForeignKey(q)
  PROVE  WorkAt(q)' /\ LinesAt(q)'
<1>0. TypeOK /\ ControlAt(q) /\ WorkAt(q) /\ LinesAt(q)
  BY DEF DInv, IInv, Control, Working
<1>1. pc[q] = "fk" /\ UNCHANGED <<req, job, mine, base, draw>>
  BY DEF CheckForeignKey, tables
<1>2. CASE ItemClass[Entry(q).item] = "IES"
  <2>1. pc' = [pc EXCEPT ![q] = "stock"] /\ UNCHANGED todo
    BY <1>2, Zenon DEF CheckForeignKey, Goto
  <2>2. pc'[q] = "stock"
    BY <1>0, <2>1 DEF TypeOK
  <2>3. WorkAt(q)'
    BY <1>0, <1>1, <2>2 DEF WorkAt, Target, ItemsOf, Reading, Transaction
  <2>4. /\ DealtWith(q)' = DealtWith(q) /\ Ahead(q)' = Ahead(q)
        /\ Entry(q)' = Entry(q)
    BY <1>1, <2>1, <2>2 DEF DealtWith, Ahead, OnEntry, Entry
  <2>5. \A s : TakenFrom(q, s)' = TakenFrom(q, s)
    BY <1>1, <2>4 DEF TakenFrom
  <2>6. DrawsAsLinked(q)'
    BY <1>0, <1>1, <2>5 DEF LinesAt, DrawsAsLinked, Transaction, Workflow!Units
  <2> QED
    BY <1>0, <1>1, <1>2, <2>1, <2>2, <2>3, <2>4, <2>6
    DEF LinesAt, Transaction, OnEntry
<1>3. CASE ItemClass[Entry(q).item] # "IES"
  <2>1. pc' = [pc EXCEPT ![q] = "link"] /\ todo' = [todo EXCEPT ![q] = Tail(@)]
    BY <1>3, Zenon DEF CheckForeignKey, Goto
  <2>2. pc'[q] = "link" /\ OnEntry(q)
    BY <1>0, <1>1, <2>1 DEF TypeOK, OnEntry
  <2>3. /\ WorkAt(q)'
        /\ DealtWith(q)' = DealtWith(q) \cup {Entry(q).item}
        /\ DrawsAsLinked(q)' => LinesAt(q)'
    BY <1>1, <2>1, <2>2, EntryDone
  <2>4. \A s : TakenFrom(q, s)' = TakenFrom(q, s)
    BY <1>1, <1>3, <2>3 DEF TakenFrom
  <2>5. DrawsAsLinked(q)'
    BY <1>0, <1>1, <2>4 DEF LinesAt, DrawsAsLinked, Transaction, Workflow!Units
  <2> QED
    BY <2>3, <2>5
<1> QED
  BY <1>2, <1>3

(* A supply line that is drawn is dealt with: the entry's draw is its line's. *)
LEMMA DrawWork ==
  ASSUME DInv, Working, NEW q \in Requests, DrawStock(q), pc'[q] \notin Ended
  PROVE  WorkAt(q)' /\ LinesAt(q)'
<1>0. TypeOK /\ ControlAt(q) /\ WorkAt(q) /\ LinesAt(q)
  BY DEF DInv, IInv, Control, Working
<1>1. pc[q] = "stock"
  BY DEF DrawStock
<1>2. PICK i \in Items, s \in Assets : i = Entry(q).item /\ s = Entry(q).asset
  BY <1>0, <1>1, EntryTyped DEF ControlAt
<1>3. /\ pc[q] = "stock"
      /\ draw' = [draw EXCEPT ![q][s] = @ + Quantity[i]]
      /\ todo' = [todo EXCEPT ![q] = Tail(@)]
      /\ pc' = [pc EXCEPT ![q] = "link"]
      /\ UNCHANGED <<req, job, mine, base>>
  <2>1. ~End(q, "refused")
    BY <1>0 DEF End, Goto, TypeOK, Ended
  <2> QED
    BY <1>2, <2>1, Zenon DEF DrawStock, Goto, tables
<1>4. /\ i \in mine[q].items /\ mine[q].link[i] = s /\ ItemClass[i] = "IES"
      /\ DrawsAsLinked(q)
  BY <1>0, <1>3, <1>2 DEF LinesAt, Transaction, OnEntry
<1>5. pc'[q] = "link" /\ OnEntry(q)
  BY <1>0, <1>3 DEF TypeOK, OnEntry
<1>6. /\ WorkAt(q)'
      /\ DealtWith(q)' = DealtWith(q) \cup {i}
      /\ i \notin DealtWith(q)
      /\ DrawsAsLinked(q)' => LinesAt(q)'
  BY <1>3, <1>2, <1>5, EntryDone
<1>7. /\ TakenFrom(q, s)' = TakenFrom(q, s) \cup {i}
      /\ i \notin TakenFrom(q, s)
      /\ \A x \in Assets : x # s => TakenFrom(q, x)' = TakenFrom(q, x)
  BY <1>3, <1>4, <1>6 DEF TakenFrom
<1>8. /\ draw'[q][s] = draw[q][s] + Quantity[i]
      /\ \A x \in Assets : x # s => draw'[q][x] = draw[q][x]
  BY <1>0, <1>3, <1>2 DEF TypeOK
<1>9. ASSUME NEW x \in Assets
      PROVE  /\ IsFiniteSet(Workflow!Units(TakenFrom(q, x)'))
             /\ draw'[q][x] = Cardinality(Workflow!Units(TakenFrom(q, x)'))
  <2>1. /\ IsFiniteSet(Workflow!Units(TakenFrom(q, x)))
        /\ draw[q][x] = Cardinality(Workflow!Units(TakenFrom(q, x)))
    BY <1>4 DEF DrawsAsLinked
  <2>2. CASE x # s
    BY <1>7, <1>8, <2>1, <2>2
  <2>3. CASE x = s
    <3> DEFINE lines == TakenFrom(q, s)
    <3> HIDE DEF lines
    <3>1. IsFiniteSet(Workflow!Units(lines)) /\ i \notin lines
      BY <1>7, <2>1, <2>3 DEF lines
    <3>2. /\ IsFiniteSet(Workflow!Units(lines \cup {i}))
          /\ Cardinality(Workflow!Units(lines \cup {i})) =
               Cardinality(Workflow!Units(lines)) + Quantity[i]
      BY <1>2, <3>1, UnitsAdded
    <3> QED
      BY <1>7, <1>8, <2>1, <2>3, <3>2 DEF lines
  <2> QED
    BY <2>2, <2>3
<1>10. DrawsAsLinked(q)'
  BY <1>9 DEF DrawsAsLinked, Workflow!Units
<1> QED
  BY <1>6, <1>10

(* Every other step of a request leaves its work as it was, or ends it.    *)
LEMMA OwnWork ==
  ASSUME NamesLinesOnce, DInv, Working, NEW q \in Requests,
         Opens(q) \/ Proceed(q) \/ Disturb(q)
  PROVE  WorkAt(q)' /\ LinesAt(q)'
<1>0. IInv /\ TypeOK /\ ControlAt(q) /\ WorkAt(q) /\ LinesAt(q)
  BY DEF DInv, IInv, Control, Working
<1>1. CASE pc'[q] \notin Reading \cup {"counted"}
  BY <1>1 DEF WorkAt, LinesAt, Reading, Transaction
<1>2. ASSUME NEW label \in Ended, End(q, label)
      PROVE  WorkAt(q)' /\ LinesAt(q)'
  <2>1. pc'[q] \in Ended
    BY <1>0, <1>2 DEF End, Goto, TypeOK
  <2> QED
    BY <1>1, <2>1 DEF Ended, Reading, Transaction
<1>3. CASE Opens(q)
  <2>1. CASE Reads(q)
    BY <2>1, ReadWork
  <2>2. CASE Creates(q)
    <3>1. PICK r \in Reqs, u \in Users, sup \in Users : HasCreated(q, r, u, sup)
      BY <1>0, <2>2, CreateKnows
    <3>2. pc'[q] = "counted" /\ mine'[q].row.decision = None
      BY <3>1 DEF HasCreated, NoRow
    <3> QED
      BY <3>2 DEF WorkAt, LinesAt, Reading, Transaction
  <2> QED
    BY <1>2, <1>3, <2>1, <2>2
    DEF Opens, Reads, Creates, RefuseCreate, Refuse, Ended
<1>4. CASE RecordDecision(q)
  <2>1. /\ pc[q] = "checked" /\ pc'[q] = "deciding"
        /\ UNCHANGED <<req, job, mine, base>>
    BY <1>0, <1>4 DEF RecordDecision, Goto, TypeOK
  <2> QED
    BY <1>0, <2>1 DEF WorkAt, LinesAt, Target, ItemsOf, Reading, Transaction
<1>5. CASE LoadForSave(q)
  BY <1>5, LoadWork
<1>6. CASE UpdateItem(q)
  BY <1>1, <1>6, UpdateItemWork DEF Ended, Reading, Transaction
<1>7. CASE CheckForeignKey(q)
  BY <1>7, ForeignKeyWork
<1>8. CASE DrawStock(q)
  BY <1>1, <1>8, DrawWork DEF Ended, Reading, Transaction
<1>9. CASE InsertRequisition(q)
  <2>1. End(q, "failed") \/ pc'[q] = "inserted"
    BY <1>0, <1>9 DEF InsertRequisition, Goto, TypeOK
  <2> QED
    BY <1>1, <1>2, <2>1 DEF Ended, Reading, Transaction
<1>10. CASE \/ InsertItems(q) \/ Save(q) \/ CommitFulfill(q) \/ RunHook(q)
            \/ StampAlert(q) \/ HookFails(q)
  <2>1. pc'[q] \in {"saved", "alerted"}
    BY <1>0, <1>10
    DEF InsertItems, Save, CommitFulfill, RunHook, StampAlert, HookFails,
        Goto, TypeOK
  <2> QED
    BY <1>1, <2>1 DEF Reading, Transaction
<1>11. CASE SaveFails(q) \/ Finish(q) \/ DeadlockVictim(q) \/ Fail(q)
  BY <1>2, <1>11 DEF SaveFails, Finish, DeadlockVictim, Fail, Ended
<1> QED
  BY <1>3, <1>4, <1>5, <1>6, <1>7, <1>8, <1>9, <1>10, <1>11
  DEF Proceed, Disturb

(* Every step of every request keeps what its work says.                  *)
LEMMA NextWorking ==
  ASSUME ~Overlap, NamesLinesOnce, DInv, Working, [Next]_vars
  PROVE  Working'
<1>0. IInv /\ Exclusive
  BY DEF DInv, Working
<1>1. Exclusive'
  BY <1>0, NextExclusive
<1>2. ASSUME NEW q \in Requests, Opens(q) \/ Proceed(q) \/ Disturb(q)
      PROVE  Working'
  <2>1. \A r \in Reqs : RowAt(r)'
    BY <1>2, NextRowAt
  <2>2. \A p \in Requests : WorkAt(p)' /\ LinesAt(p)'
    BY <1>2, WorkStays, OwnWork
  <2> QED
    BY <1>1, <2>1, <2>2 DEF Working
<1>3. ASSUME \/ \E u \in Users, d \in {"present", "away", "inactive"} :
                  SetDuty(u, d)
             \/ UNCHANGED vars
      PROVE  Working'
  <2>1. UNCHANGED <<req, link, handlers>>
    BY <1>3 DEF SetDuty, vars, tables
  <2>2. \A r \in Reqs : RowAt(r)'
    BY <2>1 DEF Working, RowAt
  <2>3. ASSUME NEW p \in Requests
        PROVE  WorkAt(p)' /\ LinesAt(p)'
    <3>1. Aside(p) /\ UNCHANGED req /\ WorkAt(p) /\ LinesAt(p)
      BY <2>1 DEF handlers, Aside, Working
    <3>2. LinesAt(p)'
      BY <3>1
      DEF Aside, LinesAt, DrawsAsLinked, TakenFrom, DealtWith, Ahead, OnEntry,
          Entry, Workflow!Units
    <3> QED
      BY <3>1, <3>2 DEF Aside, WorkAt, Target, ItemsOf, Outcome
  <2> QED
    BY <1>1, <2>2, <2>3 DEF Working
<1>4. (Submit \/ Open) => \E q \in Requests : Opens(q)
  BY DEF Submit, Open, Opens
<1> QED
  BY <1>2, <1>3, <1>4 DEF Next, Idle


(* The rows a requisition starts with: absent, pending, or approved.       *)
LEMMA SeedStates ==
  ASSUME Init, NEW r \in Reqs
  PROVE  <<req[r].status, req[r].decision>> \in
           {<<"absent", None>>, <<"pending_supervisor", None>>,
            <<"pending_fulfillment", "approved">>}
<1>1. PICK number \in [Reqs -> 0..Cardinality(Reqs)], sup \in [Reqs -> Users] :
        SeedRows(number, sup)
  BY DEF Init
<1>2. req[r] = SeedRow(r, number[r], sup[r])
  BY <1>1 DEF SeedRows
<1>3. Seed[r] \in {"absent", "pending_supervisor", "pending_fulfillment"}
  BY RequestAssumption
<1> QED
  BY <1>2, <1>3 DEF SeedRow, NoRow

(* Nobody is at work at the start.                                         *)
LEMMA InitWorking == Init => Working
<1> SUFFICES ASSUME Init PROVE Working
  OBVIOUS
<1>1. \A r \in Reqs : RowAt(r)
  <2> TAKE r \in Reqs
  <2>1. <<req[r].status, req[r].decision>> \in
           {<<"absent", None>>, <<"pending_supervisor", None>>,
            <<"pending_fulfillment", "approved">>}
    BY SeedStates
  <2>2. \A i \in ItemsOf(r) : link[i] = None
    BY DEF Init, ItemsOf
  <2> QED
    BY <2>1, <2>2 DEF RowAt, Fulfillable
<1>2. \A q \in Requests : pc[q] = "idle"
  BY DEF Init
<1> QED
  BY <1>1, <1>2
  DEF Working, Exclusive, InProgress, WorkAt, LinesAt, Reading, Transaction

(* The status and the decision of every requisition, as the workflow has   *)
(* them, before and after a step that writes one row.                      *)
Statuses == [r \in Reqs |-> req[r].status]
Decisions == [r \in Reqs |-> req[r].decision]
Quantities == [s \in Assets |-> asset[s].quantity]

(* The workflow sees an UPDATE of one row as a change of that row only.    *)
LEMMA OneRowWritten ==
  ASSUME NEW r \in Reqs, \A x \in Reqs : x # r => req'[x] = req[x]
  PROVE  /\ Statuses' = [Statuses EXCEPT ![r] = req'[r].status]
         /\ Decisions' = [Decisions EXCEPT ![r] = req'[r].decision]
BY DEF Statuses, Decisions

(* A decision or a hold that is saved is that operation of the workflow.   *)
LEMMA SaveStep ==
  ASSUME DInv, Working, NEW q \in Requests, Save(q)
  PROVE  Workflow!Next
<1>1. /\ IInv /\ TypeOK /\ ControlAt(q) /\ WorkAt(q)
      /\ pc[q] = "saving" /\ WriteSaved(q) /\ UNCHANGED asset
  BY DEF DInv, IInv, Control, Working, Save
<1>2. job[q].kind \in {"approve", "reject", "hold"}
  BY <1>1 DEF ControlAt
<1>3. PICK r \in Reqs : r = Target(q)
  BY <1>1, SaveWrites
<1>4. /\ req[r].status \in StartsFrom[job[q].kind]
      /\ \A x \in Reqs : x # r => req'[x] = req[x]
      /\ req'[r].status = StatusAfter[job[q].kind]
      /\ req'[r].decision =
           CASE job[q].kind = "approve" -> "approved"
             [] job[q].kind = "reject" -> "rejected"
             [] job[q].kind \in {"hold", "fulfill"} -> req[r].decision
      /\ link' = [i \in Items |-> IF i \in mine[q].items /\ mine[q].link[i] # None
                                  THEN mine[q].link[i] ELSE link[i]]
  BY <1>1, <1>3, SaveWrites
<1>5. link' = link
  <2>1. \A i \in mine[q].items : mine[q].link[i] = None
    BY <1>1 DEF WorkAt
  <2> QED
    BY <1>1, <1>4, <2>1 DEF TypeOK
<1>6. /\ Statuses' = [Statuses EXCEPT ![r] = req'[r].status]
      /\ Decisions' = [Decisions EXCEPT ![r] = req'[r].decision]
      /\ Statuses[r] = req[r].status /\ Quantities' = Quantities
  <2>1. Statuses[r] = req[r].status /\ Quantities' = Quantities
    BY <1>1, <1>4 DEF Statuses, Quantities
  <2> QED
    BY <1>4, <2>1, OneRowWritten
<1>7. CASE job[q].kind = "approve"
  <2>1. /\ req[r].status = "pending_supervisor"
        /\ req'[r].status = "pending_fulfillment" /\ req'[r].decision = "approved"
    BY <1>4, <1>7 DEF StartsFrom, StatusAfter
  <2>2. Workflow!Approve(r)
    BY <1>5, <1>6, <2>1, Zenon
    DEF Workflow!Approve, Workflow!Decide, Workflow!Move, Statuses, Decisions,
        Quantities
  <2> QED
    BY <2>2 DEF Workflow!Next
<1>8. CASE job[q].kind = "reject"
  <2>1. /\ req[r].status = "pending_supervisor"
        /\ req'[r].status = "rejected" /\ req'[r].decision = "rejected"
    BY <1>4, <1>8 DEF StartsFrom, StatusAfter
  <2>2. Workflow!Reject(r)
    BY <1>5, <1>6, <2>1, Zenon
    DEF Workflow!Reject, Workflow!Decide, Workflow!Move, Statuses, Decisions,
        Quantities
  <2> QED
    BY <2>2 DEF Workflow!Next
<1>9. CASE job[q].kind = "hold"
  <2>1. /\ req[r].status = "pending_fulfillment"
        /\ req'[r].status = "on_hold" /\ req'[r].decision = req[r].decision
    BY <1>4, <1>9 DEF StartsFrom, StatusAfter
  <2>2. Decisions' = Decisions
    BY <1>4, <2>1 DEF Decisions
  <2>3. Workflow!Hold(r)
    BY <1>5, <1>6, <2>1, <2>2, Zenon
    DEF Workflow!Hold, Workflow!Move, Statuses, Decisions, Quantities
  <2> QED
    BY <2>3 DEF Workflow!Next
<1> QED
  BY <1>2, <1>7, <1>8, <1>9

(* A requisition whose row is inserted is submitted.                       *)
LEMMA SubmitStep ==
  ASSUME DInv, Working, NEW q \in Requests, Submits(q)
  PROVE  Workflow!Next
<1>1. /\ TypeOK /\ ControlAt(q) /\ WorkAt(q) /\ CreationAt(q)
      /\ pc[q] = "counted"
  BY DEF DInv, IInv, Control, Working, Creation, Submits
<1>2. PICK r \in Reqs : r = Target(q)
  BY <1>1 DEF ControlAt
<1>3. req' = [req EXCEPT ![r] = mine[q].row] /\ UNCHANGED <<link, asset>>
  BY <1>2 DEF Submits
<1>4. /\ req[r].status = "absent"
      /\ mine[q].row.status = "pending_supervisor"
      /\ mine[q].row.decision = None
  BY <1>1, <1>2 DEF ControlAt, CreationAt, WorkAt
<1>5. req[r].decision = None
  BY <1>4 DEF Working, RowAt
<1>6. /\ req'[r].status = "pending_supervisor" /\ req'[r].decision = None
      /\ \A x \in Reqs : x # r => req'[x] = req[x]
  BY <1>1, <1>3, <1>4 DEF TypeOK
<1>7. /\ Statuses' = [Statuses EXCEPT ![r] = "pending_supervisor"]
      /\ Statuses[r] = "absent" /\ Decisions' = Decisions
      /\ Quantities' = Quantities /\ link' = link
  <2>1. Statuses' = [Statuses EXCEPT ![r] = req'[r].status]
    BY <1>4, <1>6, OneRowWritten
  <2>2. Statuses[r] = "absent"
    BY <1>4 DEF Statuses
  <2>3. Decisions' = Decisions
    BY <1>5, <1>6 DEF Decisions
  <2> QED
    BY <1>3, <1>6, <2>1, <2>2, <2>3 DEF Quantities
<1>8. Workflow!Submit(r)
  BY <1>7, Zenon
  DEF Workflow!Submit, Workflow!Move, Statuses, Decisions, Quantities
<1> QED
  BY <1>8 DEF Workflow!Next


(* The workflow counts units as this module does.                          *)
LEMMA SameCount == \A units : Workflow!Cardinality(units) = Cardinality(units)
BY Zenon DEF Workflow!Cardinality, Cardinality

(* A commit is the fulfilment of the workflow, of the lines it has linked: *)
(* it takes from each asset what those lines say, and there was enough.    *)
LEMMA CommitStep ==
  ASSUME DInv, Working, NEW q \in Requests, CommitFulfill(q)
  PROVE  Workflow!Next
<1>1. /\ IInv /\ TypeOK /\ ControlAt(q) /\ WorkAt(q) /\ LinesAt(q)
      /\ mine[q] \in Copy /\ pc[q] = "reloaded" /\ WriteSaved(q)
      /\ \A s \in Assets : HeldAt(q, s)
  BY DEF DInv, IInv, Control, Held, Working, TypeOK, CommitFulfill
<1>2. job[q].kind = "fulfill"
  BY <1>1 DEF ControlAt, Transaction
<1>3. PICK r \in Reqs : r = Target(q)
  BY <1>1, SaveWrites
<1>4. /\ req[r].status \in Fulfillable
      /\ \A x \in Reqs : x # r => req'[x] = req[x]
      /\ req'[r].status = "fulfilled" /\ req'[r].decision = req[r].decision
      /\ link' = [i \in Items |-> IF i \in mine[q].items /\ mine[q].link[i] # None
                                  THEN mine[q].link[i] ELSE link[i]]
  BY <1>1, <1>2, <1>3, SaveWrites DEF StartsFrom, StatusAfter
<1>5. req[r].decision = "approved"
  BY <1>4 DEF Working, RowAt
<1>6. PICK lines \in SUBSET {i \in Items : Owner[i] = r} : lines = DealtWith(q)
  BY <1>1, <1>3 DEF DealtWith, WorkAt, ItemsOf, Reading, Transaction
<1>7. lines = {i \in mine[q].items : mine[q].link[i] # None}
  BY <1>1, <1>6 DEF DealtWith, OnEntry
<1>8. PICK choice \in [lines -> Assets] : choice = [i \in lines |-> mine[q].link[i]]
  BY <1>1, <1>7 DEF Copy
<1>9. link' = [i \in Items |-> IF i \in lines THEN choice[i] ELSE link[i]]
  BY <1>4, <1>7, <1>8
<1>10. ASSUME NEW s \in Assets
       PROVE  /\ Workflow!DrawnFrom(choice, s) = draw[q][s]
              /\ Workflow!DrawnFrom(choice, s) <= Quantities[s]
              /\ Quantities'[s] = Quantities[s] - Workflow!DrawnFrom(choice, s)
  <2>1. Workflow!Lines(choice, s) = TakenFrom(q, s)
    BY <1>6, <1>8 DEF Workflow!Lines, TakenFrom
  <2>2. Workflow!DrawnFrom(choice, s) = draw[q][s]
    <3>1. draw[q][s] = Cardinality(Workflow!Units(TakenFrom(q, s)))
      BY <1>1 DEF LinesAt, DrawsAsLinked, Transaction
    <3>2. Workflow!Units(Workflow!Lines(choice, s)) = Workflow!Units(TakenFrom(q, s))
      BY <2>1 DEF Workflow!Units
    <3> QED
      BY <3>1, <3>2, SameCount DEF Workflow!DrawnFrom
  <2>3. /\ draw[q][s] \in Nat /\ seen[q][s] \in Nat
        /\ asset[s] \in AssetRow /\ asset[s].quantity \in Nat
    BY <1>1 DEF TypeOK, AssetRow
  <2>4. Quantities[s] = asset[s].quantity /\ Quantities'[s] = asset'[s].quantity
    BY DEF Quantities
  <2>5. asset'[s] = IF draw[q][s] = 0 THEN asset[s]
                    ELSE [asset[s] EXCEPT !.quantity = seen[q][s] - draw[q][s]]
    BY DEF CommitFulfill
  <2>6. CASE draw[q][s] = 0
    BY <2>2, <2>3, <2>4, <2>5, <2>6
  <2>7. CASE draw[q][s] > 0
    <3>1. seen[q][s] = asset[s].quantity /\ draw[q][s] <= asset[s].quantity
      BY <1>1, <2>7 DEF HeldAt, Transaction
    <3>2. asset'[s].quantity = seen[q][s] - draw[q][s]
      BY <2>3, <2>5, <2>7 DEF AssetRow
    <3> QED
      BY <2>2, <2>4, <3>1, <3>2
  <2> QED
    BY <2>3, <2>6, <2>7
<1>11. /\ Statuses' = [Statuses EXCEPT ![r] = "fulfilled"]
       /\ Statuses[r] = req[r].status
       /\ Decisions[r] = "approved" /\ Decisions' = Decisions
  <2>1. Statuses' = [Statuses EXCEPT ![r] = req'[r].status]
    BY <1>4, OneRowWritten
  <2>2. Decisions' = Decisions
    BY <1>4 DEF Decisions
  <2> QED
    BY <1>4, <1>5, <2>1, <2>2 DEF Statuses, Decisions
<1>12. /\ \A s \in Assets : Workflow!DrawnFrom(choice, s) <= Quantities[s]
       /\ Quantities' = [s \in Assets |->
                           Quantities[s] - Workflow!DrawnFrom(choice, s)]
  <2>1. Quantities' = [s \in Assets |-> Quantities'[s]]
    BY DEF Quantities
  <2> QED
    BY <1>10, <2>1
<1>13. Workflow!Fulfill(r)
  <2>1. Decisions[r] = "approved" /\ Decisions' = Decisions
    BY <1>11
  <2>2. /\ Statuses[r] \in {"pending_fulfillment", "on_hold"}
        /\ Statuses' = [Statuses EXCEPT ![r] = "fulfilled"]
    BY <1>4, <1>11 DEF Fulfillable
  <2>3. \E ls \in SUBSET {i \in Items : Owner[i] = r} :
          \E ch \in [ls -> Assets] :
            /\ link' = [i \in Items |-> IF i \in ls THEN ch[i] ELSE link[i]]
            /\ \A s \in Assets : Workflow!DrawnFrom(ch, s) <= Quantities[s]
            /\ Quantities' = [s \in Assets |->
                                Quantities[s] - Workflow!DrawnFrom(ch, s)]
    BY <1>9, <1>12
  <2> QED
    BY <2>1, <2>2, <2>3, Zenon
    DEF Workflow!Fulfill, Workflow!Move, Statuses, Decisions, Quantities
<1> QED
  BY <1>13 DEF Workflow!Next

(***************************************************************************)
(* While no two requests on the same requisition overlap, and no array     *)
(* names a line twice, the handlers implement the workflow: however many   *)
(* requests on other requisitions compete for the same supplies, and       *)
(* wherever one is cut off, each requisition is submitted, decided, held   *)
(* and fulfilled as if at once, and a fulfilment takes exactly what the    *)
(* lines it links say, from stock that was there, or does not happen.      *)
(***************************************************************************)
THEOREM FollowsWorkflow ==
  ASSUME ~Overlap, NamesLinesOnce
  PROVE  Spec => ImplementsWorkflow
<1>1. DInv /\ Working /\ [Next]_vars => Working'
  BY NextWorking
<1>2. Init => Workflow!Init
  <2> SUFFICES ASSUME Init PROVE Workflow!Init
    OBVIOUS
  <2>1. \A r \in Reqs : <<req[r].status, req[r].decision>> \in
          {<<"absent", None>>, <<"pending_supervisor", None>>,
           <<"pending_fulfillment", "approved">>}
    BY SeedStates
  <2>2. link = [i \in Items |-> None]
    BY DEF Init
  <2> QED
    BY <2>1, <2>2 DEF Workflow!Init
<1>3. DInv /\ Working /\ [Next]_vars => [Workflow!Next]_(Workflow!vars)
  <2> SUFFICES ASSUME DInv, Working, [Next]_vars
               PROVE  Workflow!Next \/ UNCHANGED Workflow!vars
    OBVIOUS
  <2>1. ASSUME Quiet
        PROVE  UNCHANGED Workflow!vars
    <3>1. Statuses' = Statuses /\ Decisions' = Decisions /\ link' = link
          /\ Quantities' = Quantities
      BY <2>1 DEF Quiet, Statuses, Decisions, Quantities
    <3> QED
      BY <3>1, Zenon DEF Workflow!vars, Statuses, Decisions, Quantities
  <2>2. ASSUME NEW q \in Requests, Opens(q) \/ Proceed(q) \/ Disturb(q)
        PROVE  Workflow!Next \/ UNCHANGED Workflow!vars
    <3>1. IInv
      BY DEF DInv
    <3> QED
      BY <2>1, <2>2, <3>1, WritesWhere, SubmitStep, SaveStep, CommitStep
  <2>3. ASSUME \/ \E u \in Users, d \in {"present", "away", "inactive"} :
                    SetDuty(u, d)
               \/ UNCHANGED vars
        PROVE  Quiet
    BY <2>3 DEF SetDuty, vars, tables, Quiet
  <2>4. (Submit \/ Open) => \E q \in Requests : Opens(q)
    BY DEF Submit, Open, Opens
  <2> QED
    BY <2>1, <2>2, <2>3, <2>4 DEF Next, Idle
<1> QED
  BY <1>1, <1>2, <1>3, InitWorking, InductiveDecisions, PTL
  DEF Spec, ImplementsWorkflow, Workflow!Spec

(***************************************************************************)
(* "Status: pending_fulfillment | on_hold -> fulfilled": what two          *)
(* overlapping fulfilments of a requisition break is true as long as no    *)
(* two requests on a requisition overlap, and no array names a line twice. *)
(* The check of the status is made before the transaction, and its commit  *)
(* still finds the status it was made on, whatever the requests on other   *)
(* requisitions do in between.                                             *)
(***************************************************************************)
THEOREM StockOnce ==
  ASSUME ~Overlap, NamesLinesOnce
  PROVE  Spec => StockTakenFromFulfillable
<1>1. DInv /\ Working /\ [Next]_vars => Working'
  BY NextWorking
<1>2. DInv /\ Working =>
        [\A q \in Requests :
           CommitFulfill(q) /\ issued' # issued =>
             req[Target(q)].status \in Fulfillable]_vars
  <2> SUFFICES ASSUME DInv, Working, NEW q \in Requests, CommitFulfill(q)
               PROVE  req[Target(q)].status \in Fulfillable
    OBVIOUS
  <2>1. pc[q] \in Transaction /\ pc[q] \in Reading
    BY DEF CommitFulfill, Transaction, Reading
  <2>2. job[q].kind = "fulfill"
    BY <2>1 DEF DInv, IInv, Control, ControlAt
  <2> QED
    BY <2>1, <2>2 DEF Working, WorkAt, StartsFrom
<1> QED
  BY <1>1, <1>2, InitWorking, InductiveDecisions, PTL
  DEF Spec, StockTakenFromFulfillable
=============================================================================
