------------------------ MODULE AssetRegistry_proofs ------------------------
(***************************************************************************)
(* AssetRegistry for every set of assets, users, requests and sweeps:      *)
(* unique numbers and tags, the documented lifecycle and its history, and  *)
(* the two stamps that silence the watchers.                               *)
(*                                                                         *)
(* Three invariants carry it.  RegistryInv is about the tables and the     *)
(* handlers' types.  Life relates, for an asset on which no two requests   *)
(* have overlapped, the copy a request holds to the row it will write.     *)
(* Sole does the same for an asset on which no two handlers of any kind    *)
(* have: whoever is at work on it is alone, and what he read still holds.  *)
(***************************************************************************)
EXTENDS AssetRegistry, TLAPS

-----------------------------------------------------------------------------
(* Who is at work on an asset, one by one.                                 *)
Holds(q, a) == call[q].at # "idle" /\ call[q].asset = a
Reports(s, a) == late[s][a].stage \in {"found", "notified"}
Waits(s, a) == a \in queue[s]

Places == {"idle", "patch", "load", "save", "history", "tag", "audit", "hook",
           "stamp"}

Handler == [at: Places, asset: Assets \cup {None}, copy: Row, base: Row,
            patch: Patch]

Distinct(r1, r2) ==
  /\ r1.number = r2.number => r1.number = None
  /\ r1.tag = r2.tag => r1.tag = None

UniqueRows ==
  \A a, b \in Assets :
    a # b /\ row[a].status # "absent" /\ row[b].status # "absent"
      => Distinct(row[a], row[b])

TablesOK ==
  /\ row \in [Assets -> Row]
  /\ UniqueRows
  /\ today \in 1..LastDay
  /\ loan \in [Assets -> 0..MaxLoans]
  /\ told \in [Assets -> BOOLEAN]
  /\ recorded \in [Assets -> Status \cup {None}]
  /\ raced \subseteq Assets /\ clashed \subseteq raced
  /\ \A a \in Assets : row[a].status = "absent" =>
       row[a] = NoRow /\ recorded[a] = "registered"

CallsOK ==
  /\ call \in [Calls -> Handler]
  /\ \A q \in Calls : call[q].at # "idle" =>
       /\ call[q].asset \in Assets /\ row[call[q].asset].status # "absent"
       /\ call[q].at \in {"load", "save", "history"} =>
            call[q].copy.status \in Status

SweepsOK ==
  /\ daily \in [Sweeps -> {"idle", "overdue", "low"}]
  /\ late \in [Sweeps -> [Assets -> [stage: Stages, loan: 0..MaxLoans]]]
  /\ queue \in [Sweeps -> SUBSET Assets]
  /\ line \in [Sweeps -> Assets \cup {None}]
  /\ \A s \in Sweeps :
       /\ line[s] # None => line[s] \in queue[s]
       /\ daily[s] # "low" => queue[s] = {}
       /\ \A a \in Assets : Reports(s, a) \/ Waits(s, a) => row[a].status # "absent"

RegistryInv == TablesOK /\ CallsOK /\ SweepsOK

-----------------------------------------------------------------------------
(* The status a lifecycle request is about to write, and the one it wrote. *)
CopyMoves(h, r) ==
  /\ h.at \in {"load", "save"} => h.copy.status \in ValidTransitions[r.status]
  /\ h.at = "save" => h.base.status = r.status
  /\ h.at = "history" => h.copy.status = r.status

OneRequest(a) == \A p, q \in Calls : Holds(p, a) /\ Holds(q, a) => p = q

Writing(a) == \E q \in Calls : call[q].at = "history" /\ call[q].asset = a

LifeAt(a) ==
  /\ OneRequest(a)
  /\ \A q \in Calls : Holds(q, a) => CopyMoves(call[q], row[a])
  /\ Writing(a) \/ recorded[a] \in {row[a].status, None}

Life == \A a \in Assets \ clashed : row[a].status # "absent" => LifeAt(a)

-----------------------------------------------------------------------------
OneSweep(a) ==
  \A s, t \in Sweeps :
    (Reports(s, a) \/ Waits(s, a)) /\ (Reports(t, a) \/ Waits(t, a)) =>
      s = t /\ ~(Reports(s, a) /\ Waits(s, a))

NotBoth(a) ==
  \A q \in Calls, s \in Sweeps :
    Holds(q, a) => ~Reports(s, a) /\ ~Waits(s, a)

(* What the copy says of the stock and of the stamps is still true.        *)
SameStock(c, r) ==
  /\ c.quantity = r.quantity /\ c.reorder = r.reorder
  /\ c.class = r.class /\ c.lowStamped = r.lowStamped

CopyHolds(h, r) ==
  /\ h.at = "patch" => h.copy = r
  /\ h.at \in {"load", "save"} =>
       /\ SameStock(h.copy, r)
       /\ h.copy.status = "issued" => ~h.copy.overdueStamped
  /\ h.at = "save" => h.base = r
  /\ h.at = "stamp" => Low(r)

StampsTrue(r, reported) ==
  /\ r.status = "issued" /\ r.overdueStamped => reported
  /\ r.lowStamped => r.quantity <= Threshold(r)

SoleAt(a) ==
  /\ OneRequest(a) /\ OneSweep(a) /\ NotBoth(a)
  /\ StampsTrue(row[a], told[a])
  /\ \A q \in Calls : Holds(q, a) => CopyHolds(call[q], row[a])
  /\ \A s \in Sweeps :
       /\ Reports(s, a) => late[s][a].loan = loan[a]
       /\ late[s][a].stage = "notified" => told[a]
       /\ Waits(s, a) => Low(row[a])

Sole == \A a \in Assets \ raced : row[a].status # "absent" => SoleAt(a)

-----------------------------------------------------------------------------
(* The rows and the copies of them that the handlers make.                 *)
LEMMA BoundsAreNat ==
  /\ MaxQuantity \in Nat /\ MaxLoans \in Nat /\ LastDay \in Nat /\ LastDay > 0
  /\ DefaultReorder \in Nat /\ Faults \in BOOLEAN
  /\ None \notin Staff /\ None \notin Assets /\ None \notin Numbers
  /\ None # Blank /\ Blank \notin Numbers /\ None \notin AssetClass
BY RegistryAssumption DEF RegistryAssumption

LEMMA RowFields ==
  ASSUME NEW r \in Row
  PROVE  /\ r.status \in Status \cup {"absent"}
         /\ r.type \in AssetType \cup {None}
         /\ r.class \in AssetClass \cup {None}
         /\ r.number \in Numbers \cup {None, Blank}
         /\ r.tag \in Assets \cup Numbers \cup {None}
         /\ r.quantity \in 0..MaxQuantity
         /\ r.reorder \in 0..MaxQuantity \cup {None}
         /\ r.custodian \in Staff \cup {None}
         /\ r.due \in 1..LastDay \cup {None}
         /\ r.overdueStamped \in BOOLEAN
         /\ r.lowStamped \in BOOLEAN
BY DEF Row

LEMMA NoRowType == NoRow \in Row /\ NoRow.status = "absent"
BY BoundsAreNat DEF Row, NoRow

LEMMA NoPatchType == NoPatch \in Patch
BY DEF Patch, NoPatch

LEMMA IdleType == Idle \in Handler /\ Idle.at = "idle"
BY NoRowType, NoPatchType DEF Idle, Handler, Places

(* The row of an INSERT, and of an UPDATE of some columns.                 *)
Created(type, class, n, qty, reorder) ==
  [NoRow EXCEPT !.status = "registered", !.type = type, !.class = class,
                !.number = n, !.quantity = qty, !.reorder = reorder]

LEMMA CreatedType ==
  ASSUME NEW type \in AssetType, NEW class \in AssetClass,
         NEW n \in Numbers \cup {None, Blank}, NEW qty \in 0..MaxQuantity,
         NEW reorder \in 0..MaxQuantity \cup {None}
  PROVE  LET r == Created(type, class, n, qty, reorder) IN
         /\ r \in Row
         /\ r.status = "registered" /\ r.number = n /\ r.tag = None
         /\ ~r.lowStamped /\ ~r.overdueStamped
BY BoundsAreNat DEF Created, NoRow, Row, Status

LEMMA PatchedType ==
  ASSUME NEW r \in Row, NEW c \in Row, NEW p \in Patch
  PROVE  LET w == Patched(r, c, p) IN
         /\ w \in Row
         /\ w.status = r.status /\ w.tag = r.tag /\ w.class = r.class
         /\ w.overdueStamped = r.overdueStamped
         /\ w.number = Given(p.number, r.number)
         /\ w.quantity = Given(p.quantity, r.quantity)
         /\ w.reorder = Given(p.reorder, r.reorder)
         /\ w.lowStamped <=> r.lowStamped /\ ~Rearms(c, p)
<1> DEFINE flag == r.lowStamped /\ ~Rearms(c, p)
           qty == Given(p.quantity, r.quantity)
           level == Given(p.reorder, r.reorder)
           n == Given(p.number, r.number)
<1>1. Patched(r, c, p) = [r EXCEPT !.quantity = qty, !.reorder = level,
                                   !.number = n, !.lowStamped = flag]
  BY DEF Patched
<1>2. /\ qty \in 0..MaxQuantity
      /\ level \in 0..MaxQuantity \cup {None}
      /\ n \in Numbers \cup {None, Blank}
  BY RowFields DEF Patch, Given
<1>3. flag \in BOOLEAN
  OBVIOUS
<1> HIDE DEF flag, qty, level, n
<1>4. Patched(r, c, p) \in Row
  BY ZenonT(60), <1>1, <1>2, <1>3 DEF Row
<1>5. Patched(r, c, p).lowStamped = flag
  BY <1>1 DEF Row
<1>6. /\ Patched(r, c, p).status = r.status
      /\ Patched(r, c, p).tag = r.tag
      /\ Patched(r, c, p).class = r.class
      /\ Patched(r, c, p).overdueStamped = r.overdueStamped
      /\ Patched(r, c, p).number = n
      /\ Patched(r, c, p).quantity = qty
      /\ Patched(r, c, p).reorder = level
  BY <1>1 DEF Row
<1> QED
  BY <1>4, <1>5, <1>6 DEF flag, qty, level, n

LEMMA MovedType ==
  ASSUME NEW r \in Row, NEW to \in Status, NEW who \in Staff \cup {None},
         NEW date \in 1..LastDay \cup {None}
  PROVE  LET w == Moved(r, to, who, date) IN
         /\ w \in Row
         /\ w.status = to /\ w.quantity = r.quantity /\ w.reorder = r.reorder
         /\ w.class = r.class /\ w.lowStamped = r.lowStamped
         /\ to = "issued" => ~w.overdueStamped
<1> DEFINE cust == IF to \in {"returned", "disposed"} THEN None
                   ELSE Given(who, r.custodian)
           due == IF to = "issued" THEN date
                  ELSE IF to = "returned" THEN None ELSE r.due
           stamp == r.overdueStamped /\ to \notin {"issued", "returned"}
<1>1. Moved(r, to, who, date) =
        [r EXCEPT !.status = to, !.custodian = cust, !.due = due,
                  !.overdueStamped = stamp]
  BY DEF Moved
<1>2. cust \in Staff \cup {None} /\ due \in 1..LastDay \cup {None}
  BY RowFields DEF Given
<1>3. stamp \in BOOLEAN /\ (to = "issued" => ~stamp)
  OBVIOUS
<1> HIDE DEF cust, due, stamp
<1> QED
  BY ZenonT(60), <1>1, <1>2, <1>3 DEF Row

(* save() writes, column by column, the copy where it differs from what it *)
(* has just read, and the row where it does not.                           *)
LEMMA SavedColumns ==
  ASSUME NEW r \in Row, NEW b \in Row, NEW m \in Row
  PROVE  LET w == SavedRow(r, b, m) IN
         /\ w \in Row
         /\ w.status = IF m.status # b.status THEN m.status ELSE r.status
         /\ w.number = IF m.number # b.number THEN m.number ELSE r.number
         /\ w.tag = IF m.tag # b.tag THEN m.tag ELSE r.tag
         /\ r = b => w = m
BY DEF SavedRow, Row

LEMMA StampedType ==
  ASSUME NEW r \in Row
  PROVE  /\ [r EXCEPT !.overdueStamped = TRUE] \in Row
         /\ [r EXCEPT !.lowStamped = TRUE] \in Row
BY ZenonT(60) DEF Row

LEMMA TaggedType ==
  ASSUME NEW r \in Row, NEW t \in Assets \cup Numbers
  PROVE  [r EXCEPT !.tag = t] \in Row
BY DEF Row

LEMMA DrawnType ==
  ASSUME NEW r \in Row, NEW n \in 1..MaxQuantity, n <= r.quantity
  PROVE  [r EXCEPT !.quantity = r.quantity - n] \in Row
<1>1. r.quantity - n \in 0..MaxQuantity
  BY RowFields, BoundsAreNat
<1> QED
  BY <1>1 DEF Row

-----------------------------------------------------------------------------
(* How the table of assets moves: one row at a time, to a row whose number *)
(* and tag nobody else has; an asset never becomes unregistered.           *)
Clear(a, r) ==
  \A b \in Assets \ {a} : row[b].status # "absent" => Distinct(r, row[b])

RowMoves(a, r) ==
  /\ r.status # "absent" /\ Clear(a, r)
  /\ row' = [row EXCEPT ![a] = r]

LEMMA KeysKept ==
  ASSUME TablesOK, NEW a \in Assets, NEW r, row[a].status # "absent",
         r.number = row[a].number, r.tag = row[a].tag
  PROVE  Clear(a, r)
BY DEF TablesOK, UniqueRows, Clear, Distinct

LEMMA RowSet ==
  ASSUME TablesOK, NEW a \in Assets, NEW r \in Row, RowMoves(a, r)
  PROVE  /\ row' \in [Assets -> Row] /\ UniqueRows'
         /\ row'[a] = r
         /\ \A b \in Assets \ {a} : row'[b] = row[b]
<1>1. row' \in [Assets -> Row] /\ row'[a] = r
  BY DEF TablesOK, RowMoves
<1>2. \A b \in Assets \ {a} : row'[b] = row[b]
  BY DEF TablesOK, RowMoves
<1>3. UniqueRows'
  <2> SUFFICES ASSUME NEW b \in Assets, NEW c \in Assets, b # c,
                      row'[b].status # "absent", row'[c].status # "absent"
               PROVE  Distinct(row'[b], row'[c])
    BY DEF UniqueRows, Distinct
  <2>1. CASE b = a
    BY <1>1, <1>2, <2>1 DEF RowMoves, Clear
  <2>2. CASE c = a
    <3>1. Distinct(r, row[b])
      BY <1>2, <2>2 DEF RowMoves, Clear
    <3> QED
      BY <1>1, <1>2, <2>2, <3>1 DEF Distinct
  <2>3. CASE b # a /\ c # a
    BY <1>2, <2>3 DEF TablesOK, UniqueRows
  <2> QED
    BY <2>1, <2>2, <2>3
<1> QED
  BY <1>1, <1>2, <1>3

(* The handler in a slot that is not idle works on a registered asset.     *)
LEMMA AssetOfCall ==
  ASSUME RegistryInv, NEW q \in Calls, call[q].at # "idle"
  PROVE  /\ call[q].asset \in Assets /\ row[call[q].asset].status # "absent"
         /\ row[call[q].asset] \in Row /\ row[call[q].asset].status \in Status
         /\ call[q].copy \in Row /\ call[q].base \in Row /\ call[q].patch \in Patch
<1>1. call[q].asset \in Assets /\ row[call[q].asset].status # "absent"
  BY DEF RegistryInv, CallsOK
<1>2. row[call[q].asset] \in Row
  BY <1>1 DEF RegistryInv, TablesOK
<1>3. call[q] \in Handler
  BY DEF RegistryInv, CallsOK
<1> QED
  BY <1>1, <1>2, <1>3, RowFields DEF Handler

LEMMA CreateMoves ==
  ASSUME RegistryInv, NEW q \in Calls, NEW a \in Assets,
         NEW type \in AssetType, NEW class \in AssetClass, NEW p \in Patch,
         p.quantity # None, Create(q, a, type, class, p.number, p.quantity, p.reorder)
  PROVE  \E r \in Row : /\ RowMoves(a, r)
                        /\ r.status = "registered"
                        /\ ~r.lowStamped /\ ~r.overdueStamped
<1> DEFINE n == p.number
           qty == p.quantity
           level == p.reorder
           r == Created(type, class, n, qty, level)
<1>1. /\ n \in Numbers \cup {None, Blank} /\ qty \in 0..MaxQuantity
      /\ level \in 0..MaxQuantity \cup {None}
  BY DEF Patch
<1>2. row' = [row EXCEPT ![a] = r] /\ ~NumberTaken(a, n)
  BY DEF Create, Created
<1> HIDE DEF n, qty, level
<1>3. /\ r \in Row /\ r.status = "registered" /\ r.number = n /\ r.tag = None
      /\ ~r.lowStamped /\ ~r.overdueStamped
  BY <1>1, CreatedType
<1> HIDE DEF r
<1>4. Clear(a, r)
  BY <1>2, <1>3 DEF Clear, Distinct, NumberTaken, Registered
<1> QED
  BY <1>2, <1>3, <1>4 DEF RowMoves

LEMMA PatchMoves ==
  ASSUME RegistryInv, NEW q \in Calls, WritePatch(q)
  PROVE  LET a == call[q].asset
             r == Patched(row[a], call[q].copy, call[q].patch) IN
         \/ UNCHANGED row /\ End(q)
         \/ r \in Row /\ RowMoves(a, r) /\ Goto(q, "audit")
<1> DEFINE a == call[q].asset
           p == call[q].patch
           r == Patched(row[a], call[q].copy, p)
<1>1. call[q].at = "patch"
  BY DEF WritePatch
<1>2. /\ a \in Assets /\ row[a].status # "absent" /\ row[a] \in Row
      /\ call[q].copy \in Row /\ p \in Patch
  BY <1>1, AssetOfCall
<1>3. /\ r \in Row /\ r.status = row[a].status /\ r.tag = row[a].tag
      /\ r.number = Given(p.number, row[a].number)
  BY ZenonT(60), <1>2, PatchedType
<1>4. CASE NumberTaken(a, p.number)
  BY <1>4 DEF WritePatch
<1>5. CASE ~NumberTaken(a, p.number)
  <2>1. row' = [row EXCEPT ![a] = r] /\ Goto(q, "audit")
    BY <1>5 DEF WritePatch
  <2>2. Clear(a, row[a])
    BY <1>2, KeysKept DEF RegistryInv
  <2> HIDE DEF r, p, a
  <2>3. Clear(a, r)
    BY <1>2, <1>3, <1>5, <2>2 DEF Clear, Distinct, NumberTaken, Registered, Given
  <2>4. RowMoves(a, r)
    BY <1>2, <1>3, <2>1, <2>3 DEF RowMoves
  <2> QED
    BY <1>3, <2>1, <2>4 DEF r, p, a
<1> QED
  BY <1>4, <1>5

LEMMA SaveMoves ==
  ASSUME RegistryInv, NEW q \in Calls, WriteSaved(q)
  PROVE  LET a == call[q].asset
             r == SavedRow(row[a], call[q].base, call[q].copy)
             lent == r.status = "issued" /\ row[a].status # "issued" IN
         \/ UNCHANGED <<row, loan, told>> /\ End(q)
         \/ /\ r \in Row /\ RowMoves(a, r) /\ Goto(q, "history")
            /\ loan' = [loan EXCEPT ![a] =
                         IF lent /\ @ < MaxLoans THEN @ + 1 ELSE @]
            /\ told' = [told EXCEPT ![a] = @ /\ ~lent]
<1> DEFINE a == call[q].asset
           r == SavedRow(row[a], call[q].base, call[q].copy)
<1>1. call[q].at = "save"
  BY DEF WriteSaved
<1>2. /\ a \in Assets /\ row[a].status # "absent" /\ row[a] \in Row
      /\ call[q].copy \in Row /\ call[q].base \in Row
  BY <1>1, AssetOfCall
<1>3. /\ r \in Row
      /\ r.status = IF call[q].copy.status # call[q].base.status
                    THEN call[q].copy.status ELSE row[a].status
  BY <1>2, SavedColumns
<1>4. r.status # "absent"
  BY <1>1, <1>2, <1>3, RowFields DEF RegistryInv, CallsOK, Status
<1>5. CASE SavedTaken(a, r)
  BY <1>5 DEF WriteSaved
<1>6. CASE ~SavedTaken(a, r)
  <2>1. /\ row' = [row EXCEPT ![a] = r] /\ Goto(q, "history")
        /\ loan' = [loan EXCEPT ![a] =
                     IF r.status = "issued" /\ row[a].status # "issued"
                        /\ @ < MaxLoans THEN @ + 1 ELSE @]
        /\ told' = [told EXCEPT ![a] =
                     @ /\ ~(r.status = "issued" /\ row[a].status # "issued")]
    BY <1>6 DEF WriteSaved
  <2> HIDE DEF r, a
  <2>2. Clear(a, r)
    BY <1>2, <1>3, <1>6, RowFields
       DEF Clear, Distinct, SavedTaken, NumberTaken, Registered
  <2>3. RowMoves(a, r)
    BY <1>4, <2>1, <2>2 DEF RowMoves
  <2> QED
    BY <1>3, <2>1, <2>3 DEF r, a
<1> QED
  BY <1>5, <1>6

LEMMA TagMoves ==
  ASSUME RegistryInv, NEW q \in Calls, WriteQr(q)
  PROVE  LET a == call[q].asset
             t == TagOf(a, call[q].copy)
             r == [row[a] EXCEPT !.tag = t] IN
         \/ UNCHANGED row /\ End(q)
         \/ r \in Row /\ RowMoves(a, r) /\ Goto(q, "audit")
<1> DEFINE a == call[q].asset
           t == TagOf(a, call[q].copy)
           r == [row[a] EXCEPT !.tag = t]
<1>1. call[q].at = "tag"
  BY DEF WriteQr
<1>2. /\ a \in Assets /\ row[a].status # "absent" /\ row[a] \in Row
      /\ call[q].copy \in Row
  BY <1>1, AssetOfCall
<1>3. t \in Assets \cup Numbers
  BY <1>2, RowFields DEF TagOf
<1>4. CASE \E b \in Registered \ {a} : row[b].tag = t
  BY <1>4 DEF WriteQr
<1>5. CASE ~ \E b \in Registered \ {a} : row[b].tag = t
  <2>1. row' = [row EXCEPT ![a].tag = t] /\ Goto(q, "audit")
    BY <1>5 DEF WriteQr
  <2> HIDE DEF t, a
  <2>2. row' = [row EXCEPT ![a] = r]
    BY <2>1, <1>2 DEF RegistryInv, TablesOK
  <2>3. /\ r \in Row /\ r.tag = t /\ r.number = row[a].number
        /\ r.status = row[a].status
    BY <1>2, <1>3, TaggedType DEF Row
  <2>4. Clear(a, row[a])
    BY <1>2, KeysKept DEF RegistryInv
  <2> HIDE DEF r
  <2>5. Clear(a, r)
    BY <1>5, <2>3, <2>4 DEF Clear, Distinct, Registered
  <2>6. RowMoves(a, r)
    BY <1>2, <2>2, <2>3, <2>5 DEF RowMoves
  <2> QED
    BY <2>1, <2>3, <2>6 DEF r, t, a
<1> QED
  BY <1>4, <1>5

LEMMA DrawMoves ==
  ASSUME RegistryInv, NEW q \in Calls, NEW a \in Assets, NEW n \in 1..MaxQuantity,
         Draw(q, a, n)
  PROVE  LET r == [row[a] EXCEPT !.quantity = row[a].quantity - n] IN
         r \in Row /\ RowMoves(a, r)
<1> DEFINE r == [row[a] EXCEPT !.quantity = row[a].quantity - n]
<1>1. /\ row[a].status # "absent" /\ row[a] \in Row /\ n <= row[a].quantity
  BY DEF Draw, Registered, Enough, RegistryInv, TablesOK
<1>2. row' = [row EXCEPT ![a].quantity = @ - n]
  BY DEF Draw
<1>3. row' = [row EXCEPT ![a] = r]
  BY <1>2 DEF RegistryInv, TablesOK
<1>4. r \in Row
  BY <1>1, DrawnType
<1>5. /\ r.tag = row[a].tag /\ r.number = row[a].number
      /\ r.status = row[a].status
  BY <1>1 DEF Row
<1> HIDE DEF r
<1>6. RowMoves(a, r)
  BY <1>1, <1>3, <1>4, <1>5, KeysKept DEF RowMoves, RegistryInv
<1> QED
  BY <1>4, <1>6 DEF r

(* The three stamps: the hook's, the low-stock watcher's, the overdue one. *)
LEMMA StampMoves ==
  ASSUME RegistryInv, NEW a \in Assets, row[a].status # "absent",
         row' = [row EXCEPT ![a].lowStamped = TRUE]
  PROVE  LET r == [row[a] EXCEPT !.lowStamped = TRUE] IN
         r \in Row /\ RowMoves(a, r)
<1> DEFINE r == [row[a] EXCEPT !.lowStamped = TRUE]
<1>1. row[a] \in Row
  BY DEF RegistryInv, TablesOK
<1>2. row' = [row EXCEPT ![a] = r]
  BY DEF RegistryInv, TablesOK
<1>3. r \in Row
  BY <1>1, StampedType
<1>4. /\ r.tag = row[a].tag /\ r.number = row[a].number
      /\ r.status = row[a].status
  BY <1>1 DEF Row
<1> HIDE DEF r
<1>6. RowMoves(a, r)
  BY <1>1, <1>2, <1>3, <1>4, KeysKept DEF RowMoves, RegistryInv
<1> QED
  BY <1>3, <1>6 DEF r

LEMMA OverdueMoves ==
  ASSUME RegistryInv, NEW a \in Assets, row[a].status # "absent",
         row' = [row EXCEPT ![a] = OverdueStamp(@)]
  PROVE  LET r == [row[a] EXCEPT !.overdueStamped = TRUE] IN
         r \in Row /\ RowMoves(a, r)
<1> DEFINE r == [row[a] EXCEPT !.overdueStamped = TRUE]
<1>1. row[a] \in Row
  BY DEF RegistryInv, TablesOK
<1>2. row' = [row EXCEPT ![a] = r]
  BY DEF RegistryInv, TablesOK, OverdueStamp
<1>3. r \in Row
  BY <1>1, StampedType
<1>4. /\ r.tag = row[a].tag /\ r.number = row[a].number
      /\ r.status = row[a].status
  BY <1>1 DEF Row
<1> HIDE DEF r
<1>6. RowMoves(a, r)
  BY <1>1, <1>2, <1>3, <1>4, KeysKept DEF RowMoves, RegistryInv
<1> QED
  BY <1>3, <1>6 DEF r

LEMMA RowStep ==
  ASSUME RegistryInv, RegistryNext
  PROVE  UNCHANGED row \/ \E a \in Assets, r \in Row : RowMoves(a, r)
<1>1. ASSUME NEW q \in Calls, Proceed(q)
      PROVE  UNCHANGED row \/ \E a \in Assets, r \in Row : RowMoves(a, r)
  <2> DEFINE a == call[q].asset
  <2>1. CASE WritePatch(q)
    <3>1. a \in Assets
      BY <2>1, AssetOfCall DEF WritePatch
    <3> QED
      BY <2>1, <3>1, PatchMoves
  <2>2. CASE WriteSaved(q)
    <3>1. a \in Assets
      BY <2>2, AssetOfCall DEF WriteSaved
    <3> QED
      BY <2>2, <3>1, SaveMoves
  <2>3. CASE WriteQr(q)
    <3>1. a \in Assets
      BY <2>3, AssetOfCall DEF WriteQr
    <3> QED
      BY <2>3, <3>1, TagMoves
  <2>4. CASE StampHook(q)
    <3>1. a \in Assets /\ row[a].status # "absent"
      BY <2>4, AssetOfCall DEF StampHook
    <3>2. row' = [row EXCEPT ![a].lowStamped = TRUE]
      BY <2>4 DEF StampHook
    <3> QED
      BY <3>1, <3>2, StampMoves
  <2>5. CASE LoadForSave(q) \/ RecordTransaction(q) \/ Audit(q) \/ ReadHook(q)
    BY <2>5 DEF LoadForSave, RecordTransaction, Audit, ReadHook
  <2> QED
    BY <1>1, <2>1, <2>2, <2>3, <2>4, <2>5 DEF Proceed
<1>2. ASSUME NEW q \in Calls, CallFails(q)
      PROVE  UNCHANGED row
  BY <1>2 DEF CallFails
<1>3. ASSUME NEW q \in Calls, NEW a \in Assets, Request(q, a)
      PROVE  UNCHANGED row \/ \E b \in Assets, r \in Row : RowMoves(b, r)
  <2>1. ASSUME NEW type \in AssetType, NEW class \in AssetClass, NEW p \in Patch,
               p.quantity # None,
               Create(q, a, type, class, p.number, p.quantity, p.reorder)
        PROVE  \E r \in Row : RowMoves(a, r)
    BY <2>1, CreateMoves
  <2>2. ASSUME NEW n \in 1..MaxQuantity, Draw(q, a, n)
        PROVE  \E r \in Row : RowMoves(a, r)
    BY <2>2, DrawMoves
  <2>3. ASSUME NEW p \in Patch, BeginPatch(q, a, p)
        PROVE  UNCHANGED row
    BY <2>3 DEF BeginPatch, Enter
  <2>4. CASE LifecycleRequest(q, a)
    BY <2>4 DEF LifecycleRequest, BeginLifecycle, BeginQr, Enter
  <2> QED
    BY <1>3, <2>1, <2>2, <2>3, <2>4 DEF Request, StockRequest
<1>4. ASSUME NEW s \in Sweeps, Watch(s)
      PROVE  UNCHANGED row \/ \E a \in Assets, r \in Row : RowMoves(a, r)
  <2>1. ASSUME NEW a \in Assets, StampOverdue(s, a)
        PROVE  \E r \in Row : RowMoves(a, r)
    <3>1. row[a].status # "absent" /\ row' = [row EXCEPT ![a] = OverdueStamp(@)]
      BY <2>1 DEF StampOverdue, RegistryInv, SweepsOK, Reports
    <3> QED
      BY <3>1, OverdueMoves
  <2>2. ASSUME NEW a \in Assets, StampLine(s, a)
        PROVE  \E r \in Row : RowMoves(a, r)
    <3>1. row[a].status # "absent" /\ row' = [row EXCEPT ![a].lowStamped = TRUE]
      BY <2>2, BoundsAreNat DEF StampLine, RegistryInv, SweepsOK, Waits
    <3> QED
      BY <3>1, StampMoves
  <2>3. ASSUME NEW a \in Assets, NotifyOverdue(s, a) \/ AlertLine(s, a)
        PROVE  UNCHANGED row
    BY <2>3 DEF NotifyOverdue, AlertLine
  <2>4. CASE Advance(s)
    BY <2>4 DEF Advance, QueryOverdue, QueryLowStock, EndDaily
  <2>5. CASE Lose(s)
    BY <2>5 DEF Lose, LowStockFails, OverdueFails
  <2> QED
    BY <1>4, <2>1, <2>2, <2>3, <2>4, <2>5 DEF Watch, Work
<1>5. CASE DayPasses \/ Restart
  BY <1>5 DEF DayPasses, Restart
<1> QED
  BY <1>1, <1>2, <1>3, <1>4, <1>5 DEF RegistryNext

(* What is registered stays so, and nothing else than its INSERT touches   *)
(* the place of an asset that is not.                                      *)
LEMMA StaysRegistered ==
  ASSUME RegistryInv, RegistryNext
  PROVE  /\ row' \in [Assets -> Row] /\ UniqueRows'
         /\ \A a \in Assets : row[a].status # "absent" => row'[a].status # "absent"
         /\ \A a \in Assets : row'[a].status = "absent" => row'[a] = row[a]
<1>1. CASE UNCHANGED row
  BY <1>1 DEF RegistryInv, TablesOK, UniqueRows, Distinct
<1>2. ASSUME NEW a \in Assets, NEW r \in Row, RowMoves(a, r)
      PROVE  /\ row' \in [Assets -> Row] /\ UniqueRows'
             /\ \A b \in Assets : row[b].status # "absent" => row'[b].status # "absent"
             /\ \A b \in Assets : row'[b].status = "absent" => row'[b] = row[b]
  <2>1. /\ row' \in [Assets -> Row] /\ UniqueRows' /\ row'[a] = r
        /\ \A b \in Assets \ {a} : row'[b] = row[b]
    BY <1>2, RowSet DEF RegistryInv
  <2>2. r.status # "absent"
    BY <1>2 DEF RowMoves
  <2> QED
    BY <2>1, <2>2
<1> QED
  BY <1>1, <1>2, RowStep

-----------------------------------------------------------------------------
(* The slots.  A step of a handler leaves in its slot a handler of the same*)
(* or of no asset, and every other slot alone.                             *)
Grows == \A a \in Assets : row[a].status # "absent" => row'[a].status # "absent"

Serves(h) ==
  h.at # "idle" =>
    /\ h.asset \in Assets /\ row'[h.asset].status # "absent"
    /\ h.at \in {"load", "save", "history"} => h.copy.status \in Status

LEMMA CallSet ==
  ASSUME CallsOK, Grows, NEW q \in Calls, NEW h \in Handler, Serves(h),
         call' = [call EXCEPT ![q] = h]
  PROVE  CallsOK'
<1>1. call' \in [Calls -> Handler] /\ call'[q] = h
  BY DEF CallsOK
<1>2. \A p \in Calls \ {q} : call'[p] = call[p]
  BY DEF CallsOK
<1> SUFFICES ASSUME NEW p \in Calls, call'[p].at # "idle"
             PROVE  /\ call'[p].asset \in Assets
                    /\ row'[call'[p].asset].status # "absent"
                    /\ call'[p].at \in {"load", "save", "history"} =>
                         call'[p].copy.status \in Status
  BY <1>1 DEF CallsOK
<1>3. CASE p = q
  BY <1>1, <1>3 DEF Serves
<1>4. CASE p # q
  BY <1>2, <1>4 DEF CallsOK, Grows
<1> QED
  BY <1>3, <1>4

LEMMA CallEnds ==
  ASSUME CallsOK, Grows, NEW q \in Calls, End(q)
  PROVE  CallsOK'
BY CallSet, IdleType DEF Serves, End

LEMMA CallGoes ==
  ASSUME CallsOK, Grows, NEW q \in Calls, NEW at \in Places, Goto(q, at),
         call[q].at # "idle",
         at \in {"load", "save", "history"} => call[q].copy.status \in Status
  PROVE  CallsOK'
<1> DEFINE h == [call[q] EXCEPT !.at = at]
<1>1. call[q] \in Handler
  BY DEF CallsOK
<1>2. /\ h \in Handler /\ h.at = at /\ h.asset = call[q].asset
      /\ h.copy = call[q].copy
  BY <1>1 DEF Handler
<1>3. call' = [call EXCEPT ![q] = h]
  BY <1>1 DEF Goto, CallsOK
<1> HIDE DEF h
<1>4. Serves(h)
  BY <1>2 DEF Serves, CallsOK, Grows
<1> QED
  BY <1>2, <1>3, <1>4, CallSet

LEMMA CallEnters ==
  ASSUME RegistryInv, UNCHANGED row, NEW q \in Calls, NEW a \in Assets,
         NEW at \in Places, NEW copy \in Row, NEW patch \in Patch,
         row[a].status # "absent",
         at \in {"load", "save", "history"} => copy.status \in Status,
         Enter(q, a, at, copy, patch)
  PROVE  CallsOK'
<1> DEFINE h == [at |-> at, asset |-> a, copy |-> copy, base |-> NoRow,
                 patch |-> patch]
<1>1. h \in Handler /\ h.at = at /\ h.asset = a /\ h.copy = copy
  BY NoRowType DEF Handler
<1>2. call' = [call EXCEPT ![q] = h]
  BY DEF Enter
<1> HIDE DEF h
<1>3. Serves(h)
  BY <1>1 DEF Serves
<1>4. Grows
  BY DEF Grows
<1> QED
  BY <1>1, <1>2, <1>3, <1>4, CallSet DEF RegistryInv

(* Create and Draw leave a handler that has only its last awaits to make.  *)
LEMMA CallLeft ==
  ASSUME RegistryInv, Grows, NEW q \in Calls, NEW a \in Assets,
         NEW at \in {"audit", "hook"}, row'[a].status # "absent",
         call' = [call EXCEPT ![q] = [Idle EXCEPT !.at = at, !.asset = a]]
  PROVE  CallsOK'
<1> DEFINE h == [Idle EXCEPT !.at = at, !.asset = a]
<1>1. h \in Handler /\ h.at = at /\ h.asset = a
  BY IdleType DEF Handler, Places
<1> HIDE DEF h
<1>2. call' = [call EXCEPT ![q] = h]
  BY DEF h
<1>3. Serves(h)
  BY <1>1 DEF Serves
<1> QED
  BY <1>1, <1>2, <1>3, CallSet DEF RegistryInv

LEMMA CallsStep ==
  ASSUME RegistryInv, RegistryNext
  PROVE  CallsOK'
<1>0. Grows /\ CallsOK
  BY StaysRegistered DEF Grows, RegistryInv
<1>1. ASSUME NEW q \in Calls, Proceed(q)
      PROVE  CallsOK'
  <2> DEFINE a == call[q].asset
  <2>1. CASE WritePatch(q)
    <3>1. End(q) \/ Goto(q, "audit")
      BY <2>1 DEF WritePatch
    <3> QED
      BY <1>0, <2>1, <3>1, CallEnds, CallGoes DEF WritePatch, Places
  <2>2. CASE WriteSaved(q)
    <3>1. End(q) \/ Goto(q, "history")
      BY <2>2 DEF WriteSaved
    <3>2. call[q].at = "save" /\ call[q].copy.status \in Status
      BY <1>0, <2>2 DEF WriteSaved, CallsOK
    <3> QED
      BY <1>0, <3>1, <3>2, CallEnds, CallGoes DEF Places
  <2>3. CASE WriteQr(q)
    <3>1. End(q) \/ Goto(q, "audit")
      BY <2>3 DEF WriteQr
    <3> QED
      BY <1>0, <2>3, <3>1, CallEnds, CallGoes DEF WriteQr, Places
  <2>4. CASE StampHook(q)
    BY <1>0, <2>4, CallEnds DEF StampHook
  <2>5. CASE LoadForSave(q)
    <3> DEFINE b == row[call[q].asset]
               h == [call[q] EXCEPT !.at = "save", !.base = b]
    <3>1. call[q].at = "load" /\ call[q] \in Handler
      BY <1>0, <2>5 DEF LoadForSave, CallsOK
    <3>2. call' = [call EXCEPT ![q].at = "save", ![q].base = b]
      BY <2>5 DEF LoadForSave
    <3>3. b \in Row
      BY <3>1, AssetOfCall
    <3> HIDE DEF b
    <3>4. call' = [call EXCEPT ![q] = h]
      BY <3>1, <3>2, <1>0 DEF CallsOK
    <3>5. /\ h \in Handler /\ h.at = "save" /\ h.asset = call[q].asset
          /\ h.copy = call[q].copy
      BY <3>1, <3>3 DEF Handler, Places
    <3> HIDE DEF h
    <3>6. Serves(h)
      BY <1>0, <3>1, <3>5 DEF Serves, CallsOK, Grows
    <3> QED
      BY <1>0, <3>4, <3>5, <3>6, CallSet
  <2>6. CASE RecordTransaction(q)
    <3>1. Goto(q, "audit") /\ call[q].at # "idle"
      BY <2>6 DEF RecordTransaction
    <3> QED
      BY <1>0, <3>1, CallGoes DEF Places
  <2>7. CASE Audit(q)
    BY <1>0, <2>7, CallEnds DEF Audit
  <2>8. CASE ReadHook(q)
    <3>1. (End(q) \/ Goto(q, "stamp")) /\ call[q].at # "idle"
      BY <2>8 DEF ReadHook
    <3> QED
      BY <1>0, <3>1, CallEnds, CallGoes DEF Places
  <2> QED
    BY <1>1, <2>1, <2>2, <2>3, <2>4, <2>5, <2>6, <2>7, <2>8 DEF Proceed
<1>2. ASSUME NEW q \in Calls, CallFails(q)
      PROVE  CallsOK'
  BY <1>0, <1>2, CallEnds DEF CallFails
<1>3. ASSUME NEW q \in Calls, NEW a \in Assets, Request(q, a)
      PROVE  CallsOK'
  <2>1. ASSUME NEW type \in AssetType, NEW class \in AssetClass, NEW p \in Patch,
               p.quantity # None,
               Create(q, a, type, class, p.number, p.quantity, p.reorder)
        PROVE  CallsOK'
    <3>1. PICK r \in Row : RowMoves(a, r)
      BY <2>1, CreateMoves
    <3>2. row'[a].status # "absent"
      BY <3>1, RowSet DEF RowMoves, RegistryInv
    <3>3. call' = [call EXCEPT ![q] = [Idle EXCEPT !.at = "audit", !.asset = a]]
      BY <2>1 DEF Create
    <3> QED
      BY <1>0, <3>2, <3>3, CallLeft
  <2>2. ASSUME NEW n \in 1..MaxQuantity, Draw(q, a, n)
        PROVE  CallsOK'
    <3>1. row'[a].status # "absent"
      BY <1>0, <2>2 DEF Draw, Registered, Grows
    <3>2. call' = [call EXCEPT ![q] = [Idle EXCEPT !.at = "hook", !.asset = a]]
      BY <2>2 DEF Draw
    <3> QED
      BY <1>0, <3>1, <3>2, CallLeft
  <2>3. ASSUME NEW p \in Patch, BeginPatch(q, a, p)
        PROVE  CallsOK'
    <3>1. /\ row[a].status # "absent" /\ row[a] \in Row
          /\ Enter(q, a, "patch", row[a], p) /\ UNCHANGED row
      BY <2>3 DEF BeginPatch, Enter, Registered, RegistryInv, TablesOK
    <3> QED
      BY <3>1, CallEnters DEF Places
  <2>4. ASSUME NEW to \in Status, NEW who \in Staff \cup {None},
               NEW date \in 1..LastDay \cup {None},
               BeginLifecycle(q, a, to, who, date)
        PROVE  CallsOK'
    <3> DEFINE w == Moved(row[a], to, who, date)
    <3>1. /\ row[a].status # "absent" /\ row[a] \in Row
          /\ Enter(q, a, "load", w, NoPatch) /\ UNCHANGED row
      BY <2>4 DEF BeginLifecycle, Enter, Registered, RegistryInv, TablesOK
    <3>2. w \in Row /\ w.status \in Status
      BY <3>1, MovedType
    <3> HIDE DEF w
    <3> QED
      BY <3>1, <3>2, CallEnters, NoPatchType DEF Places
  <2>5. CASE BeginQr(q, a)
    <3>1. /\ row[a].status # "absent" /\ row[a] \in Row
          /\ Enter(q, a, "tag", row[a], NoPatch) /\ UNCHANGED row
      BY <2>5 DEF BeginQr, Enter, Registered, RegistryInv, TablesOK
    <3> QED
      BY <3>1, CallEnters, NoPatchType DEF Places
  <2> QED
    BY <1>3, <2>1, <2>2, <2>3, <2>4, <2>5
       DEF Request, StockRequest, LifecycleRequest
<1>4. ASSUME UNCHANGED call
      PROVE  CallsOK'
  BY <1>0, <1>4 DEF CallsOK, Grows
<1>5. ASSUME NEW s \in Sweeps, Watch(s)
      PROVE  UNCHANGED call
  BY <1>5 DEF Watch, Work, Advance, Lose, QueryOverdue, NotifyOverdue,
       StampOverdue, OverdueFails, QueryLowStock, AlertLine, StampLine,
       LowStockFails, EndDaily
<1>6. CASE DayPasses
  BY <1>4, <1>6 DEF DayPasses
<1>7. CASE Restart
  BY <1>7, IdleType DEF Restart, CallsOK
<1> QED
  BY <1>1, <1>2, <1>3, <1>4, <1>5, <1>6, <1>7 DEF RegistryNext

-----------------------------------------------------------------------------
(* The sweeps.                                                             *)
Sweep == [Assets -> [stage: Stages, loan: 0..MaxLoans]]

LEMMA SweepsKept ==
  ASSUME SweepsOK, Grows, UNCHANGED sweeping
  PROVE  SweepsOK'
BY DEF SweepsOK, Grows, sweeping, Reports, Waits

LEMMA NoSweepType == [a \in Assets |-> NotLate] \in Sweep
BY BoundsAreNat DEF Sweep, NotLate, Stages

(* A notice moves on from one stage to the next.                           *)
LEMMA StageSet ==
  ASSUME SweepsOK, Grows, UNCHANGED <<daily, queue, line>>,
         NEW s \in Sweeps, NEW a \in Assets, NEW stage \in Stages,
         Reports(s, a), late' = [late EXCEPT ![s][a].stage = stage]
  PROVE  SweepsOK'
<1> DEFINE Notice == [stage: Stages, loan: 0..MaxLoans]
           n == [late[s][a] EXCEPT !.stage = stage]
           f == [late[s] EXCEPT ![a] = n]
<1>1. late[s] \in Sweep /\ late[s][a] \in Notice
  BY DEF SweepsOK, Sweep
<1>2. n \in Notice
  BY <1>1
<1>3. late' = [late EXCEPT ![s] = f]
  BY DEF SweepsOK
<1> HIDE DEF n, Notice
<1>4. f \in Sweep /\ \A b \in Assets \ {a} : f[b] = late[s][b]
  BY <1>1, <1>2 DEF Sweep, Notice
<1> HIDE DEF f
<1>5. late' \in [Sweeps -> Sweep]
  BY <1>3, <1>4 DEF SweepsOK, Sweep
<1>6. \A t \in Sweeps, b \in Assets : t # s \/ b # a => late'[t][b] = late[t][b]
  BY <1>3, <1>4 DEF SweepsOK
<1> SUFFICES ASSUME NEW t \in Sweeps, NEW b \in Assets, Reports(t, b)' \/ Waits(t, b)'
             PROVE  row'[b].status # "absent"
  BY <1>5 DEF SweepsOK, Sweep, Waits
<1>7. CASE t = s /\ b = a
  BY <1>7 DEF SweepsOK, Grows
<1>8. CASE ~(t = s /\ b = a)
  BY <1>6, <1>8 DEF SweepsOK, Grows, Reports, Waits
<1> QED
  BY <1>7, <1>8

LEMMA QueryOverdueOK ==
  ASSUME RegistryInv, Grows, NEW s \in Sweeps, QueryOverdue(s)
  PROVE  SweepsOK'
<1> DEFINE f == [a \in Assets |-> IF Overdue(row[a])
                                  THEN [stage |-> "found", loan |-> loan[a]]
                                  ELSE NotLate]
<1>1. /\ daily[s] = "idle" /\ daily' = [daily EXCEPT ![s] = "overdue"]
      /\ late' = [late EXCEPT ![s] = f] /\ UNCHANGED <<row, queue, line>>
  BY DEF QueryOverdue
<1>2. f \in Sweep
  BY BoundsAreNat DEF Sweep, NotLate, Stages, RegistryInv, TablesOK
<1>3. \A a \in Assets : f[a].stage \in {"found", "notified"} =>
        row[a].status # "absent"
  BY DEF NotLate, Overdue
<1> HIDE DEF f
<1>4. /\ late' \in [Sweeps -> Sweep] /\ late'[s] = f
      /\ \A t \in Sweeps \ {s} : late'[t] = late[t]
  BY <1>1, <1>2 DEF RegistryInv, SweepsOK, Sweep
<1>5. \A t \in Sweeps, a \in Assets : Reports(t, a)' \/ Waits(t, a)' =>
        row'[a].status # "absent"
  BY <1>1, <1>3, <1>4 DEF Reports, Waits, RegistryInv, SweepsOK
<1>6. /\ daily' \in [Sweeps -> {"idle", "overdue", "low"}]
      /\ \A t \in Sweeps : daily'[t] # "low" => queue'[t] = {}
  BY <1>1 DEF RegistryInv, SweepsOK
<1> QED
  BY <1>1, <1>4, <1>5, <1>6 DEF RegistryInv, SweepsOK, Sweep

LEMMA QueryLowOK ==
  ASSUME RegistryInv, Grows, NEW s \in Sweeps, QueryLowStock(s)
  PROVE  SweepsOK'
<1> DEFINE low == {a \in Assets : NeedsAlert(row[a])}
<1>1. /\ daily[s] = "overdue" /\ daily' = [daily EXCEPT ![s] = "low"]
      /\ queue' = [queue EXCEPT ![s] = low] /\ UNCHANGED <<row, late, line>>
  BY DEF QueryLowStock
<1>2. \A a \in low : row[a].status # "absent"
  <2> SUFFICES ASSUME NEW a \in low, row[a].status = "absent"
               PROVE  FALSE
    OBVIOUS
  <2>1. row[a].class = None
    BY DEF RegistryInv, TablesOK, NoRow, low
  <2>2. row[a].class = "IES"
    BY DEF NeedsAlert, Low, low
  <2> QED
    BY <2>1, <2>2, BoundsAreNat DEF AssetClass
<1>3. low \subseteq Assets
  OBVIOUS
<1> HIDE DEF low
<1>4. /\ queue' \in [Sweeps -> SUBSET Assets]
      /\ daily' \in [Sweeps -> {"idle", "overdue", "low"}]
      /\ queue'[s] = low /\ daily'[s] = "low"
      /\ \A t \in Sweeps \ {s} : queue'[t] = queue[t] /\ daily'[t] = daily[t]
  BY <1>1, <1>3 DEF RegistryInv, SweepsOK
<1>5. line[s] = None
  BY <1>1 DEF RegistryInv, SweepsOK
<1> SUFFICES ASSUME NEW t \in Sweeps
             PROVE  /\ line'[t] # None => line'[t] \in queue'[t]
                    /\ daily'[t] # "low" => queue'[t] = {}
                    /\ \A a \in Assets : Reports(t, a)' \/ Waits(t, a)' =>
                         row'[a].status # "absent"
  BY <1>1, <1>4 DEF RegistryInv, SweepsOK
<1>6. CASE t = s
  BY <1>1, <1>2, <1>4, <1>5, <1>6 DEF RegistryInv, SweepsOK, Reports, Waits
<1>7. CASE t # s
  BY <1>1, <1>4, <1>7 DEF RegistryInv, SweepsOK, Reports, Waits
<1> QED
  BY <1>6, <1>7

LEMMA StampLineOK ==
  ASSUME RegistryInv, Grows, NEW s \in Sweeps, NEW a \in Assets, StampLine(s, a)
  PROVE  SweepsOK'
<1>1. /\ line' = [line EXCEPT ![s] = None]
      /\ queue' = [queue EXCEPT ![s] = @ \ {a}]
      /\ UNCHANGED <<daily, late>>
  BY DEF StampLine
<1>2. /\ queue' \in [Sweeps -> SUBSET Assets]
      /\ line' \in [Sweeps -> Assets \cup {None}]
      /\ queue'[s] = queue[s] \ {a} /\ line'[s] = None
      /\ \A t \in Sweeps \ {s} : queue'[t] = queue[t] /\ line'[t] = line[t]
  BY <1>1 DEF RegistryInv, SweepsOK
<1> QED
  BY <1>1, <1>2 DEF RegistryInv, SweepsOK, Reports, Waits, Grows

LEMMA SweepsStep ==
  ASSUME RegistryInv, RegistryNext
  PROVE  SweepsOK'
<1>0. Grows /\ SweepsOK
  BY StaysRegistered DEF Grows, RegistryInv
<1>1. ASSUME NEW q \in Calls, Proceed(q) \/ CallFails(q)
      PROVE  UNCHANGED sweeping
  BY <1>1 DEF Proceed, CallFails, WritePatch, WriteSaved, WriteQr, StampHook,
       LoadForSave, RecordTransaction, Audit, ReadHook
<1>2. ASSUME NEW q \in Calls, NEW a \in Assets, Request(q, a)
      PROVE  UNCHANGED sweeping
  BY <1>2 DEF Request, StockRequest, LifecycleRequest, Create, Draw, BeginPatch,
       BeginLifecycle, BeginQr, Enter
<1>3. ASSUME NEW s \in Sweeps, Watch(s)
      PROVE  SweepsOK'
  <2>1. ASSUME NEW a \in Assets, NotifyOverdue(s, a)
        PROVE  SweepsOK'
    BY <1>0, <2>1, StageSet DEF NotifyOverdue, Reports, Stages
  <2>2. ASSUME NEW a \in Assets, StampOverdue(s, a)
        PROVE  SweepsOK'
    BY <1>0, <2>2, StageSet DEF StampOverdue, Reports, Stages
  <2>3. ASSUME NEW a \in Assets, OverdueFails(s, a)
        PROVE  SweepsOK'
    BY <1>0, <2>3, StageSet DEF OverdueFails, Reports, Stages
  <2>4. ASSUME NEW a \in Assets, AlertLine(s, a)
        PROVE  SweepsOK'
    BY <1>0, <2>4 DEF AlertLine, SweepsOK, Grows, Reports, Waits
  <2>5. ASSUME NEW a \in Assets, StampLine(s, a)
        PROVE  SweepsOK'
    BY <1>0, <2>5, StampLineOK
  <2>6. CASE LowStockFails(s)
    BY <1>0, <2>6 DEF LowStockFails, SweepsOK, Grows, Reports, Waits
  <2>7. CASE QueryOverdue(s)
    BY <1>0, <2>7, QueryOverdueOK
  <2>8. CASE QueryLowStock(s)
    BY <1>0, <2>8, QueryLowOK
  <2>9. CASE EndDaily(s)
    <3> DEFINE f == [a \in Assets |-> NotLate]
    <3>1. /\ daily' = [daily EXCEPT ![s] = "idle"] /\ queue[s] = {}
          /\ late' = [late EXCEPT ![s] = f] /\ UNCHANGED <<row, queue, line>>
      BY <2>9 DEF EndDaily
    <3>2. f \in Sweep /\ \A a \in Assets : f[a].stage = "off"
      BY NoSweepType DEF NotLate
    <3> HIDE DEF f
    <3>3. /\ late' \in [Sweeps -> Sweep] /\ late'[s] = f
          /\ \A t \in Sweeps \ {s} : late'[t] = late[t]
      BY <1>0, <3>1, <3>2 DEF SweepsOK, Sweep
    <3> QED
      BY <1>0, <3>1, <3>2, <3>3 DEF SweepsOK, Sweep, Reports, Waits
  <2> QED
    BY <1>3, <2>1, <2>2, <2>3, <2>4, <2>5, <2>6, <2>7, <2>8, <2>9
       DEF Watch, Work, Advance, Lose
<1>4. CASE DayPasses
  BY <1>0, <1>4, SweepsKept DEF DayPasses
<1>5. CASE Restart
  <2>1. /\ late' = [s \in Sweeps |-> [a \in Assets |-> NotLate]]
        /\ queue' = [s \in Sweeps |-> {}] /\ line' = [s \in Sweeps |-> None]
        /\ daily' = [s \in Sweeps |-> "idle"]
    BY <1>5 DEF Restart
  <2> QED
    BY <2>1, NoSweepType DEF SweepsOK, Sweep, Reports, Waits, NotLate
<1> QED
  BY <1>0, <1>1, <1>2, <1>3, <1>4, <1>5, SweepsKept DEF RegistryNext

-----------------------------------------------------------------------------
(* The history variables.                                                  *)
LEMMA OverlapOK ==
  ASSUME TablesOK, NEW as, as \subseteq Assets, Overlap(as)
  PROVE  raced' \subseteq Assets /\ raced \subseteq raced'
BY DEF Overlap, TablesOK

LEMMA ClashOK ==
  ASSUME TablesOK, NEW a \in Assets, Overlap({a}), Clash(a)
  PROVE  clashed' \subseteq raced' /\ clashed \subseteq clashed'
BY DEF Overlap, Clash, AtWork, TablesOK

LEMMA RecordedWithoutType ==
  ASSUME TablesOK, CallsOK, NEW lost \in SUBSET Calls
  PROVE  /\ RecordedWithout(lost) \in [Assets -> Status \cup {None}]
         /\ \A a \in Assets : row[a].status = "absent" =>
              RecordedWithout(lost)[a] = recorded[a]
         /\ \A a \in Assets : RecordedWithout(lost)[a] \in {recorded[a], None}
         /\ \A a \in Assets :
              (\E q \in lost : call[q].at = "history" /\ call[q].asset = a) =>
                RecordedWithout(lost)[a] = None
         /\ \A a \in Assets :
              ~(\E q \in lost : call[q].at = "history" /\ call[q].asset = a) =>
                RecordedWithout(lost)[a] = recorded[a]
BY DEF RecordedWithout, TablesOK, CallsOK

HistoryOK ==
  /\ loan \in [Assets -> 0..MaxLoans]
  /\ told \in [Assets -> BOOLEAN]
  /\ recorded \in [Assets -> Status \cup {None}]
  /\ raced \subseteq Assets /\ clashed \subseteq raced
  /\ \A a \in Assets : row[a].status = "absent" => recorded[a] = "registered"

LEMMA HistoryKept ==
  ASSUME HistoryOK, UNCHANGED history,
         \A a \in Assets : row'[a].status = "absent" => row'[a] = row[a]
  PROVE  HistoryOK'
BY DEF HistoryOK, history

LEMMA HistoryRaced ==
  ASSUME HistoryOK, UNCHANGED <<loan, told, recorded>>,
         \A a \in Assets : row'[a].status = "absent" => row'[a] = row[a],
         raced' \subseteq Assets, clashed' \subseteq raced'
  PROVE  HistoryOK'
BY DEF HistoryOK

LEMMA HistoryRecorded ==
  ASSUME HistoryOK, CallsOK, TablesOK, UNCHANGED <<row, loan, told, raced, clashed>>,
         NEW lost \in SUBSET Calls, recorded' = RecordedWithout(lost)
  PROVE  HistoryOK'
BY RecordedWithoutType DEF HistoryOK

LEMMA HistoryStep ==
  ASSUME RegistryInv, RegistryNext
  PROVE  HistoryOK'
<1>0. /\ HistoryOK /\ TablesOK /\ CallsOK
      /\ \A a \in Assets : row'[a].status = "absent" => row'[a] = row[a]
  BY StaysRegistered DEF RegistryInv, TablesOK, HistoryOK
<1>1. ASSUME NEW q \in Calls, Proceed(q)
      PROVE  HistoryOK'
  <2> DEFINE a == call[q].asset
  <2>1. CASE WriteSaved(q)
    <3>1. a \in Assets
      BY <2>1, AssetOfCall DEF WriteSaved
    <3>2. loan' \in [Assets -> 0..MaxLoans] /\ told' \in [Assets -> BOOLEAN]
      <4> DEFINE lent == /\ SavedRow(row[a], call[q].base, call[q].copy).status
                              = "issued"
                         /\ row[a].status # "issued"
      <4>1. CASE UNCHANGED <<loan, told>>
        BY <1>0, <4>1 DEF HistoryOK
      <4>2. CASE /\ loan' = [loan EXCEPT ![a] =
                             IF lent /\ @ < MaxLoans THEN @ + 1 ELSE @]
                 /\ told' = [told EXCEPT ![a] = @ /\ ~lent]
        <5> HIDE DEF lent, a
        <5>1. /\ (IF lent /\ loan[a] < MaxLoans THEN loan[a] + 1 ELSE loan[a])
                   \in 0..MaxLoans
              /\ loan' = [loan EXCEPT ![a] =
                           IF lent /\ loan[a] < MaxLoans THEN loan[a] + 1 ELSE loan[a]]
          BY <1>0, <3>1, <4>2, BoundsAreNat DEF HistoryOK
        <5> QED
          BY <1>0, <3>1, <4>2, <5>1 DEF HistoryOK
      <4> QED
        BY <2>1, <4>1, <4>2, SaveMoves
    <3> QED
      BY <1>0, <2>1, <3>2 DEF WriteSaved, HistoryOK
  <2>2. CASE RecordTransaction(q)
    <3>1. /\ a \in Assets /\ row[a].status # "absent"
          /\ call[q].copy.status \in Status
      BY <1>0, <2>2, AssetOfCall DEF RecordTransaction, CallsOK
    <3> QED
      BY <1>0, <2>2, <3>1 DEF RecordTransaction, Recorded, HistoryOK
  <2>3. CASE \/ WritePatch(q) \/ WriteQr(q) \/ StampHook(q) \/ LoadForSave(q)
             \/ Audit(q) \/ ReadHook(q)
    <3>1. UNCHANGED history
      BY <2>3 DEF WritePatch, WriteQr, StampHook, LoadForSave, Audit, ReadHook
    <3> QED
      BY <1>0, <3>1, HistoryKept
  <2> QED
    BY <1>1, <2>1, <2>2, <2>3 DEF Proceed
<1>2. ASSUME NEW q \in Calls, CallFails(q)
      PROVE  HistoryOK'
  BY <1>0, <1>2, HistoryRecorded DEF CallFails
<1>3. ASSUME NEW q \in Calls, NEW a \in Assets, Request(q, a)
      PROVE  HistoryOK'
  <2>1. CASE UNCHANGED history
    BY <1>0, <2>1, HistoryKept
  <2>2. CASE Overlap({a}) /\ Clash(a) /\ UNCHANGED <<loan, told, recorded>>
    BY <1>0, <2>2, HistoryRaced, OverlapOK, ClashOK
  <2> QED
    BY <1>3, <2>1, <2>2 DEF Request, StockRequest, LifecycleRequest, Create,
       Draw, BeginPatch, BeginLifecycle, BeginQr, Enter
<1>4. ASSUME NEW s \in Sweeps, Watch(s)
      PROVE  HistoryOK'
  <2>1. ASSUME NEW as, as \subseteq Assets, Overlap(as),
               UNCHANGED <<loan, told, recorded, clashed>>
        PROVE  HistoryOK'
    <3>1. raced' \subseteq Assets /\ clashed' \subseteq raced'
      BY <1>0, <2>1, OverlapOK DEF HistoryOK
    <3> QED
      BY <1>0, <2>1, <3>1, HistoryRaced
  <2>2. CASE QueryOverdue(s) \/ QueryLowStock(s)
    BY <2>1, <2>2 DEF QueryOverdue, QueryLowStock
  <2>3. ASSUME NEW a \in Assets, NotifyOverdue(s, a)
        PROVE  HistoryOK'
    <3>1. told' \in [Assets -> BOOLEAN]
      BY <1>0, <2>3 DEF NotifyOverdue, HistoryOK
    <3> QED
      BY <1>0, <2>3, <3>1 DEF NotifyOverdue, HistoryOK
  <2>4. CASE UNCHANGED history
    BY <1>0, <2>4, HistoryKept
  <2> QED
    BY <1>4, <2>2, <2>3, <2>4 DEF Watch, Work, Advance, Lose, StampOverdue,
       OverdueFails, AlertLine, StampLine, LowStockFails, EndDaily
<1>5. CASE DayPasses
  BY <1>0, <1>5, HistoryKept DEF DayPasses
<1>6. CASE Restart
  BY <1>0, <1>6, HistoryRecorded DEF Restart
<1> QED
  BY <1>1, <1>2, <1>3, <1>4, <1>5, <1>6 DEF RegistryNext

LEMMA TodayStep ==
  ASSUME RegistryInv, RegistryNext
  PROVE  today' \in 1..LastDay
<1>1. today \in 1..LastDay
  BY DEF RegistryInv, TablesOK
<1>2. CASE UNCHANGED today
  BY <1>1, <1>2
<1>3. CASE DayPasses
  BY <1>1, <1>3, BoundsAreNat DEF DayPasses
<1>4. ASSUME NEW q \in Calls, Proceed(q) \/ CallFails(q)
      PROVE  UNCHANGED today
  BY <1>4 DEF Proceed, CallFails, WritePatch, WriteSaved, WriteQr, StampHook,
       LoadForSave, RecordTransaction, Audit, ReadHook
<1>5. ASSUME NEW q \in Calls, NEW a \in Assets, Request(q, a)
      PROVE  UNCHANGED today
  BY <1>5 DEF Request, StockRequest, LifecycleRequest, Create, Draw, BeginPatch,
       BeginLifecycle, BeginQr, Enter
<1>6. ASSUME NEW s \in Sweeps, Watch(s)
      PROVE  UNCHANGED today
  BY <1>6 DEF Watch, Work, Advance, Lose, QueryOverdue, NotifyOverdue,
       StampOverdue, OverdueFails, QueryLowStock, AlertLine, StampLine,
       LowStockFails, EndDaily
<1>7. CASE Restart
  BY <1>2, <1>7 DEF Restart
<1> QED
  BY <1>2, <1>3, <1>4, <1>5, <1>6, <1>7 DEF RegistryNext

LEMMA RegistryInit_Inv ==
  ASSUME RegistryInit
  PROVE  RegistryInv
<1> DEFINE table == [a \in Assets |-> NoRow]
<1>1. Started(table) /\ today = 1
  BY DEF RegistryInit
<1>2. /\ row = table /\ call = [q \in Calls |-> Idle]
      /\ daily = [s \in Sweeps |-> "idle"]
      /\ late = [s \in Sweeps |-> [a \in Assets |-> NotLate]]
      /\ queue = [s \in Sweeps |-> {}] /\ line = [s \in Sweeps |-> None]
      /\ loan = [a \in Assets |-> 0] /\ told = [a \in Assets |-> FALSE]
      /\ raced = {} /\ clashed = {}
  BY <1>1 DEF Started
<1>3. recorded = [a \in Assets |-> "registered"]
  BY <1>1, Zenon DEF Started
<1>4. TablesOK
  BY <1>1, <1>2, <1>3, NoRowType, BoundsAreNat DEF TablesOK, UniqueRows, Status
<1>5. CallsOK
  BY <1>2, IdleType DEF CallsOK
<1>6. SweepsOK
  BY <1>2, NoSweepType DEF SweepsOK, Sweep, Reports, Waits, NotLate
<1> QED
  BY <1>4, <1>5, <1>6 DEF RegistryInv

(* Whatever handlers and sweeps overlap, fail or are cut off by a restart, *)
(* every column keeps its type, no two assets share a property number or a *)
(* tag, and a slot holds a handler only of an asset that is registered.    *)
THEOREM RegistryInductive == RegistrySpec => []RegistryInv
<1>1. RegistryInit => RegistryInv
  BY RegistryInit_Inv
<1>2. RegistryInv /\ [RegistryNext]_registryVars => RegistryInv'
  <2> SUFFICES ASSUME RegistryInv, [RegistryNext]_registryVars
               PROVE  RegistryInv'
    OBVIOUS
  <2>1. CASE RegistryNext
    <3>1. /\ row' \in [Assets -> Row] /\ UniqueRows'
          /\ \A a \in Assets : row'[a].status = "absent" => row'[a] = NoRow
      BY <2>1, StaysRegistered DEF RegistryInv, TablesOK
    <3>2. TablesOK'
      BY <2>1, <3>1, HistoryStep, TodayStep DEF TablesOK, HistoryOK
    <3> QED
      BY <2>1, <3>2, CallsStep, SweepsStep DEF RegistryInv
  <2>2. CASE UNCHANGED registryVars
    BY <2>2 DEF registryVars, sweeping, history, RegistryInv, TablesOK,
       UniqueRows, Distinct, CallsOK, SweepsOK, Reports, Waits
  <2> QED
    BY <2>1, <2>2
<1> QED
  BY <1>1, <1>2, PTL DEF RegistrySpec

(* The type invariant of the runs: no quantity below zero, no property     *)
(* number and no tag given twice, whatever handlers overlap.               *)
THEOREM RegistryTypes == RegistrySpec => []RegistryTypeOK
<1>1. RegistryInv => RegistryTypeOK
  BY DEF RegistryInv, TablesOK, CallsOK, SweepsOK, RegistryTypeOK, UniqueRows,
     Distinct, Registered, Handler, Places
<1> QED
  BY <1>1, RegistryInductive, PTL

-----------------------------------------------------------------------------
(* A step of the slot q about asset b: it held nothing or a handler of b,  *)
(* and holds nothing or a handler of b.                                    *)
SlotStep(q, b, h) ==
  /\ call' = [call EXCEPT ![q] = h]
  /\ call[q].at = "idle" \/ call[q].asset = b
  /\ h.at = "idle" \/ h.asset = b

LEMMA SlotEnds ==
  ASSUME CallsOK, NEW q \in Calls, End(q)
  PROVE  SlotStep(q, call[q].asset, Idle)
BY IdleType DEF SlotStep, End

LEMMA SlotGoes ==
  ASSUME CallsOK, NEW q \in Calls, NEW at \in Places, Goto(q, at)
  PROVE  \E h \in Handler :
           /\ SlotStep(q, call[q].asset, h) /\ h.at = at
           /\ h.copy = call[q].copy /\ h.base = call[q].base
<1> DEFINE h == [call[q] EXCEPT !.at = at]
<1>1. call[q] \in Handler
  BY DEF CallsOK
<1>2. /\ h \in Handler /\ h.at = at /\ h.asset = call[q].asset
      /\ h.copy = call[q].copy /\ h.base = call[q].base
  BY <1>1 DEF Handler
<1>3. call' = [call EXCEPT ![q] = h]
  BY <1>1 DEF Goto, CallsOK
<1> HIDE DEF h
<1> QED
  BY <1>2, <1>3 DEF SlotStep

LEMMA SlotEnters ==
  ASSUME CallsOK, NEW q \in Calls, NEW a \in Assets, NEW at \in Places,
         NEW copy \in Row, NEW patch \in Patch, Enter(q, a, at, copy, patch)
  PROVE  \E h \in Handler : /\ SlotStep(q, a, h) /\ h.at = at /\ h.copy = copy
<1> DEFINE h == [at |-> at, asset |-> a, copy |-> copy, base |-> NoRow,
                 patch |-> patch]
<1>1. h \in Handler /\ h.at = at /\ h.asset = a /\ h.copy = copy
  BY NoRowType DEF Handler
<1>2. call' = [call EXCEPT ![q] = h] /\ call[q].at = "idle"
  BY DEF Enter
<1> HIDE DEF h
<1> QED
  BY <1>1, <1>2 DEF SlotStep

LEMMA SlotLoads ==
  ASSUME RegistryInv, NEW q \in Calls, LoadForSave(q)
  PROVE  \E h \in Handler :
           /\ SlotStep(q, call[q].asset, h) /\ h.at = "save"
           /\ h.copy = call[q].copy /\ h.base = row[call[q].asset]
<1> DEFINE b == row[call[q].asset]
           h == [call[q] EXCEPT !.at = "save", !.base = b]
<1>1. call[q].at = "load" /\ call[q] \in Handler
  BY DEF LoadForSave, RegistryInv, CallsOK
<1>2. call' = [call EXCEPT ![q].at = "save", ![q].base = b]
  BY DEF LoadForSave
<1>3. b \in Row
  BY <1>1, AssetOfCall
<1> HIDE DEF b
<1>4. call' = [call EXCEPT ![q] = h]
  BY <1>1, <1>2 DEF RegistryInv, CallsOK
<1>5. /\ h \in Handler /\ h.at = "save" /\ h.asset = call[q].asset
      /\ h.copy = call[q].copy /\ h.base = b
  BY <1>1, <1>3 DEF Handler, Places
<1> HIDE DEF h
<1> QED
  BY <1>4, <1>5 DEF SlotStep, b

LEMMA SlotLeft ==
  ASSUME CallsOK, NEW q \in Calls, NEW a \in Assets, NEW at \in {"audit", "hook"},
         call[q].at = "idle",
         call' = [call EXCEPT ![q] = [Idle EXCEPT !.at = at, !.asset = a]]
  PROVE  \E h \in Handler : SlotStep(q, a, h) /\ h.at = at
<1> DEFINE h == [Idle EXCEPT !.at = at, !.asset = a]
<1>1. h \in Handler /\ h.at = at /\ h.asset = a
  BY IdleType DEF Handler, Places
<1>2. call' = [call EXCEPT ![q] = h]
  OBVIOUS
<1> HIDE DEF h
<1> QED
  BY <1>1, <1>2 DEF SlotStep

(* A slot's step leaves the handlers of the other assets alone; and after  *)
(* it nobody else is at work on b, if nobody else was.                     *)
LEMMA SlotElsewhere ==
  ASSUME CallsOK, NEW q \in Calls, NEW b \in Assets, NEW h \in Handler,
         SlotStep(q, b, h), NEW a \in Assets \ {b}
  PROVE  /\ \A p \in Calls : Holds(p, a)' => Holds(p, a)
         /\ \A p \in Calls : Holds(p, a) => Holds(p, a)' /\ call'[p] = call[p]
BY DEF SlotStep, Holds, CallsOK

LEMMA SlotHere ==
  ASSUME CallsOK, NEW q \in Calls, NEW b \in Assets, NEW h \in Handler,
         SlotStep(q, b, h), OneRequest(b),
         call[q].at = "idle" => ~Requested(b)
  PROVE  /\ \A p \in Calls : Holds(p, b)' => p = q
         /\ call'[q] = h
BY DEF SlotStep, Holds, CallsOK, OneRequest, Requested

-----------------------------------------------------------------------------
(* Life: one request at a time on an asset.                                *)
LEMMA LifeKept ==
  ASSUME NEW a \in Assets, LifeAt(a), UNCHANGED call,
         row'[a].status = row[a].status, recorded'[a] = recorded[a]
  PROVE  LifeAt(a)'
BY DEF LifeAt, OneRequest, Holds, CopyMoves, Writing

LEMMA LifeSlot ==
  ASSUME RegistryInv, NEW a \in Assets, LifeAt(a),
         NEW q \in Calls, NEW b \in Assets, NEW h \in Handler, SlotStep(q, b, h),
         a # b => row'[a].status = row[a].status /\ recorded'[a] = recorded[a],
         a = b =>
           /\ call[q].at = "idle" => ~Requested(b)
           /\ h.at # "idle" => CopyMoves(h, row'[b])
           /\ h.at = "history" \/ recorded'[b] \in {row'[b].status, None}
  PROVE  LifeAt(a)'
<1>1. CASE a # b
  <2>1. /\ \A p \in Calls : Holds(p, a)' => Holds(p, a)
        /\ \A p \in Calls : Holds(p, a) => Holds(p, a)' /\ call'[p] = call[p]
    BY <1>1, SlotElsewhere DEF RegistryInv
  <2>2. OneRequest(a)'
    BY <2>1 DEF LifeAt, OneRequest
  <2>3. \A p \in Calls : Holds(p, a)' => CopyMoves(call'[p], row'[a])
    BY <1>1, <2>1 DEF LifeAt, CopyMoves
  <2>4. Writing(a) => Writing(a)'
    BY <2>1 DEF Writing, Holds
  <2> QED
    BY <1>1, <2>2, <2>3, <2>4 DEF LifeAt, CopyMoves
<1>2. CASE a = b
  <2>1. /\ \A p \in Calls : Holds(p, a)' => p = q
        /\ call'[q] = h
    BY <1>2, SlotHere DEF RegistryInv, LifeAt
  <2>2. OneRequest(a)'
    BY <2>1 DEF OneRequest
  <2>3. \A p \in Calls : Holds(p, a)' => CopyMoves(call'[p], row'[a])
    BY <1>2, <2>1 DEF Holds
  <2>4. h.at = "history" => Writing(a)'
    BY <1>2, <2>1 DEF Writing, SlotStep
  <2> QED
    BY <1>2, <2>2, <2>3, <2>4 DEF LifeAt, CopyMoves
<1> QED
  BY <1>1, <1>2

(* Unless a handler is between its two writes, the history is up to date.  *)
LEMMA NotWriting ==
  ASSUME NEW a \in Assets, LifeAt(a),
         ~Requested(a)
           \/ \E q \in Calls : Holds(q, a) /\ call[q].at # "history"
  PROVE  recorded[a] \in {row[a].status, None}
BY DEF LifeAt, Writing, Requested, OneRequest, Holds

LEMMA MovesElsewhere ==
  ASSUME RegistryInv, NEW b \in Assets, NEW r \in Row, RowMoves(b, r),
         NEW a \in Assets \ {b}
  PROVE  row'[a] = row[a]
BY RowSet DEF RegistryInv

LEMMA HistoryGrows ==
  ASSUME RegistryNext
  PROVE  clashed \subseteq clashed' /\ raced \subseteq raced'
<1>1. ASSUME NEW q \in Calls, Proceed(q) \/ CallFails(q)
      PROVE  UNCHANGED <<raced, clashed>>
  BY <1>1 DEF Proceed, CallFails, WritePatch, WriteSaved, WriteQr, StampHook,
       LoadForSave, RecordTransaction, Audit, ReadHook, history
<1>2. ASSUME NEW q \in Calls, NEW a \in Assets, Request(q, a)
      PROVE  UNCHANGED <<raced, clashed>> \/ (Overlap({a}) /\ Clash(a))
  BY <1>2 DEF Request, StockRequest, LifecycleRequest, Create, Draw, BeginPatch,
       BeginLifecycle, BeginQr, Enter, history
<1>3. ASSUME NEW s \in Sweeps, Watch(s)
      PROVE  /\ UNCHANGED clashed
             /\ UNCHANGED raced \/ \E as \in SUBSET Assets : Overlap(as)
  <2>1. CASE QueryOverdue(s) \/ QueryLowStock(s)
    BY <2>1 DEF QueryOverdue, QueryLowStock
  <2>2. CASE UNCHANGED <<raced, clashed>>
    BY <2>2
  <2> QED
    BY <1>3, <2>1, <2>2 DEF Watch, Work, Advance, Lose, NotifyOverdue,
       StampOverdue, OverdueFails, AlertLine, StampLine, LowStockFails,
       EndDaily, history
<1>4. CASE DayPasses \/ Restart
  BY <1>4 DEF DayPasses, Restart, history
<1> QED
  BY <1>1, <1>2, <1>3, <1>4 DEF RegistryNext, Overlap, Clash

LEMMA LifeBySlot ==
  ASSUME RegistryInv, Life, RegistryNext,
         NEW a \in Assets, a \notin clashed', row'[a].status # "absent",
         NEW q \in Calls, NEW b \in Assets, NEW h \in Handler,
         SlotStep(q, b, h), row[b].status # "absent",
         UNCHANGED row \/ \E r \in Row : RowMoves(b, r),
         \A c \in Assets \ {b} : recorded'[c] = recorded[c],
         b \notin clashed' /\ LifeAt(b) =>
           /\ call[q].at = "idle" => ~Requested(b)
           /\ h.at # "idle" => CopyMoves(h, row'[b])
           /\ h.at = "history" \/ recorded'[b] \in {row'[b].status, None}
  PROVE  LifeAt(a)'
<1>1. a # b => row'[a] = row[a]
  BY MovesElsewhere
<1>2. a \notin clashed
  BY HistoryGrows
<1>3. LifeAt(a)
  BY <1>1, <1>2 DEF Life
<1> QED
  BY <1>1, <1>3, LifeSlot

LEMMA LifeProceeds ==
  ASSUME RegistryInv, Life, RegistryNext,
         NEW a \in Assets, a \notin clashed', row'[a].status # "absent",
         NEW q \in Calls, Proceed(q)
  PROVE  LifeAt(a)'
<1> DEFINE b == call[q].asset
<1>1. call[q].at # "idle"
  BY DEF Proceed, WritePatch, WriteSaved, WriteQr, StampHook, LoadForSave,
     RecordTransaction, Audit, ReadHook
<1>2. /\ b \in Assets /\ row[b].status # "absent" /\ row[b] \in Row
      /\ call[q].copy \in Row /\ call[q].base \in Row
      /\ call[q].patch \in Patch /\ row[b].status \in Status
  BY <1>1, AssetOfCall
<1>3. CallsOK /\ Holds(q, b)
  BY <1>1 DEF RegistryInv, Holds
<1>4. call[q].at # "history" /\ LifeAt(b) => recorded[b] \in {row[b].status, None}
  BY <1>2, <1>3, NotWriting
<1>5. ASSUME NEW h \in Handler, SlotStep(q, b, h), h.at \notin {"load", "save", "history"},
             call[q].at # "history", UNCHANGED recorded,
             UNCHANGED row
               \/ \E r \in Row : RowMoves(b, r) /\ r.status = row[b].status
      PROVE  LifeAt(a)'
  <2>1. row'[b].status = row[b].status
    BY <1>2, <1>5, RowSet DEF RegistryInv
  <2>2. CopyMoves(h, row'[b])
    BY <1>5 DEF CopyMoves
  <2> QED
    BY <1>1, <1>2, <1>4, <1>5, <2>1, <2>2, LifeBySlot
<1>6. ASSUME NEW at \in {"idle", "audit", "stamp"}, call[q].at # "history",
             (at = "idle" /\ End(q)) \/ (at # "idle" /\ Goto(q, at)),
             UNCHANGED recorded,
             UNCHANGED row
               \/ \E r \in Row : RowMoves(b, r) /\ r.status = row[b].status
      PROVE  LifeAt(a)'
  <2>1. CASE at = "idle"
    BY <1>3, <1>5, <1>6, <2>1, SlotEnds, IdleType
  <2>2. CASE at # "idle"
    <3>1. PICK h \in Handler : SlotStep(q, b, h) /\ h.at = at
      BY <1>3, <1>6, <2>2, SlotGoes DEF Places
    <3> QED
      BY <1>5, <1>6, <3>1
  <2> QED
    BY <2>1, <2>2
<1>7. CASE WritePatch(q)
  <2> DEFINE r == Patched(row[b], call[q].copy, call[q].patch)
  <2>1. call[q].at = "patch" /\ UNCHANGED recorded
    BY <1>7 DEF WritePatch, history
  <2>2. CASE UNCHANGED row /\ End(q)
    BY <1>6, <2>1, <2>2
  <2>3. CASE r \in Row /\ RowMoves(b, r) /\ Goto(q, "audit")
    <3>1. r.status = row[b].status
      BY ZenonT(60), <1>2, PatchedType
    <3> HIDE DEF r
    <3> QED
      BY <1>6, <2>1, <2>3, <3>1
  <2> QED
    BY <1>7, <2>2, <2>3, PatchMoves
<1>8. CASE WriteQr(q)
  <2> DEFINE r == [row[b] EXCEPT !.tag = TagOf(b, call[q].copy)]
  <2>1. call[q].at = "tag" /\ UNCHANGED recorded
    BY <1>8 DEF WriteQr, history
  <2>2. CASE UNCHANGED row /\ End(q)
    BY <1>6, <2>1, <2>2
  <2>3. CASE r \in Row /\ RowMoves(b, r) /\ Goto(q, "audit")
    <3>1. r.status = row[b].status
      BY <1>2 DEF Row
    <3> HIDE DEF r
    <3> QED
      BY <1>6, <2>1, <2>3, <3>1
  <2> QED
    BY <1>8, <2>2, <2>3, TagMoves
<1>9. CASE StampHook(q)
  <2>1. /\ call[q].at = "stamp" /\ UNCHANGED recorded /\ End(q)
        /\ row' = [row EXCEPT ![b].lowStamped = TRUE]
    BY <1>9 DEF StampHook, history
  <2> DEFINE r == [row[b] EXCEPT !.lowStamped = TRUE]
  <2>2. r \in Row /\ RowMoves(b, r)
    BY <1>2, <2>1, StampMoves
  <2>3. r.status = row[b].status
    BY <1>2 DEF Row
  <2> HIDE DEF r
  <2> QED
    BY <1>6, <2>1, <2>2, <2>3
<1>10. CASE ReadHook(q)
  BY <1>6, <1>10 DEF ReadHook, history
<1>11. CASE Audit(q)
  BY <1>6, <1>11 DEF Audit, history
<1>12. CASE LoadForSave(q)
  <2>1. /\ call[q].at = "load" /\ UNCHANGED <<row, recorded>>
    BY <1>12 DEF LoadForSave, history
  <2>2. PICK h \in Handler : /\ SlotStep(q, b, h) /\ h.at = "save"
                             /\ h.copy = call[q].copy /\ h.base = row[b]
    BY <1>12, SlotLoads
  <2>3. LifeAt(b) => CopyMoves(h, row'[b])
    BY <1>3, <2>1, <2>2 DEF LifeAt, CopyMoves
  <2> QED
    BY <1>1, <1>2, <1>4, <2>1, <2>2, <2>3, LifeBySlot
<1>13. CASE WriteSaved(q)
  <2> DEFINE r == SavedRow(row[b], call[q].base, call[q].copy)
  <2>1. call[q].at = "save" /\ UNCHANGED recorded
    BY <1>13 DEF WriteSaved
  <2>2. CASE UNCHANGED row /\ End(q)
    BY <1>6, <2>1, <2>2
  <2>3. CASE r \in Row /\ RowMoves(b, r) /\ Goto(q, "history")
    <3>1. PICK h \in Handler : /\ SlotStep(q, b, h) /\ h.at = "history"
                               /\ h.copy = call[q].copy
      BY <1>3, <2>3, SlotGoes DEF Places
    <3>2. row'[b] = r
      BY <1>2, <2>3, RowSet DEF RegistryInv
    <3>3. r.status = IF call[q].copy.status # call[q].base.status
                     THEN call[q].copy.status ELSE row[b].status
      BY <1>2, SavedColumns
    <3>4. LifeAt(b) => call[q].base.status = row[b].status
      BY <1>3, <2>1 DEF LifeAt, CopyMoves
    <3>5. LifeAt(b) => CopyMoves(h, row'[b])
      BY <3>1, <3>2, <3>3, <3>4 DEF CopyMoves
    <3> HIDE DEF r
    <3> QED
      BY <1>1, <1>2, <2>1, <2>3, <3>1, <3>5, LifeBySlot
  <2> QED
    BY <1>13, <2>2, <2>3, SaveMoves
<1>14. CASE RecordTransaction(q)
  <2>1. /\ call[q].at = "history" /\ UNCHANGED row /\ Goto(q, "audit")
        /\ recorded' = [recorded EXCEPT ![b] = call[q].copy.status]
    BY <1>14 DEF RecordTransaction, Recorded
  <2>2. PICK h \in Handler : SlotStep(q, b, h) /\ h.at = "audit"
    BY <1>3, <2>1, SlotGoes DEF Places
  <2>3. /\ recorded'[b] = call[q].copy.status
        /\ \A c \in Assets \ {b} : recorded'[c] = recorded[c]
    BY <1>2, <2>1 DEF RegistryInv, TablesOK
  <2>4. LifeAt(b) => recorded'[b] = row'[b].status
    BY <1>3, <2>1, <2>3 DEF LifeAt, CopyMoves
  <2>5. CopyMoves(h, row'[b])
    BY <2>2 DEF CopyMoves
  <2> QED
    BY <1>1, <1>2, <2>1, <2>2, <2>3, <2>4, <2>5, LifeBySlot
<1> QED
  BY <1>7, <1>8, <1>9, <1>10, <1>11, <1>12, <1>13, <1>14 DEF Proceed

LEMMA LifeRequests ==
  ASSUME RegistryInv, Life, RegistryNext,
         NEW a \in Assets, a \notin clashed', row'[a].status # "absent",
         NEW q \in Calls, NEW b \in Assets, Request(q, b)
  PROVE  LifeAt(a)'
<1>0. CallsOK /\ TablesOK
  BY DEF RegistryInv
<1>1. ASSUME NEW at \in Places, NEW copy \in Row, NEW patch \in Patch,
             row[b].status # "absent", Enter(q, b, at, copy, patch),
             \A h : h.at = at /\ h.copy = copy => CopyMoves(h, row[b]),
             at # "history"
      PROVE  LifeAt(a)'
  <2>1. PICK h \in Handler : SlotStep(q, b, h) /\ h.at = at /\ h.copy = copy
    BY <1>0, <1>1, SlotEnters
  <2>2. UNCHANGED <<row, recorded>>
    BY <1>1 DEF Enter
  <2>3. b \notin clashed' => ~Requested(b)
    BY <1>1 DEF Enter, Clash
  <2>4. LifeAt(b) /\ ~Requested(b) => recorded[b] \in {row[b].status, None}
    BY NotWriting
  <2> QED
    BY <1>1, <2>1, <2>2, <2>3, <2>4, LifeBySlot
<1>2. ASSUME NEW type \in AssetType, NEW class \in AssetClass, NEW p \in Patch,
             p.quantity # None,
             Create(q, b, type, class, p.number, p.quantity, p.reorder)
      PROVE  LifeAt(a)'
  <2>1. PICK r \in Row : RowMoves(b, r) /\ r.status = "registered"
    BY <1>2, CreateMoves
  <2>2. /\ call[q].at = "idle" /\ row[b].status = "absent" /\ UNCHANGED recorded
        /\ call' = [call EXCEPT ![q] = [Idle EXCEPT !.at = "audit", !.asset = b]]
    BY <1>2 DEF Create, history
  <2>3. PICK h \in Handler : SlotStep(q, b, h) /\ h.at = "audit"
    BY <1>0, <2>2, SlotLeft
  <2>4. CASE a # b
    <3>1. row'[a] = row[a]
      BY <2>1, <2>4, MovesElsewhere
    <3>2. LifeAt(a)
      BY <3>1, HistoryGrows DEF Life
    <3> QED
      BY <2>2, <2>3, <2>4, <3>1, <3>2, LifeSlot
  <2>5. CASE a = b
    <3>1. ~Requested(b) /\ recorded[b] = "registered"
      BY <1>0, <2>2 DEF Requested, CallsOK, TablesOK
    <3>2. OneRequest(b)
      BY <3>1 DEF OneRequest, Requested, Holds
    <3>3. /\ \A s \in Calls : Holds(s, b)' => s = q
          /\ call'[q] = h
      BY <1>0, <2>3, <3>1, <3>2, SlotHere
    <3>4. row'[b] = r
      BY <2>1, RowSet DEF RegistryInv
    <3> QED
      BY <2>1, <2>2, <2>3, <2>5, <3>1, <3>3, <3>4
         DEF LifeAt, OneRequest, CopyMoves
  <2> QED
    BY <2>4, <2>5
<1>3. ASSUME NEW n \in 1..MaxQuantity, Draw(q, b, n)
      PROVE  LifeAt(a)'
  <2>1. /\ row[b].status # "absent" /\ row[b] \in Row /\ call[q].at = "idle"
        /\ UNCHANGED recorded /\ Clash(b)
        /\ call' = [call EXCEPT ![q] = [Idle EXCEPT !.at = "hook", !.asset = b]]
    BY <1>0, <1>3 DEF Draw, Registered, TablesOK
  <2>2. PICK h \in Handler : SlotStep(q, b, h) /\ h.at = "hook"
    BY <1>0, <2>1, SlotLeft
  <2>3. \E r \in Row : RowMoves(b, r) /\ r.status = row[b].status
    <3> DEFINE r == [row[b] EXCEPT !.quantity = row[b].quantity - n]
    <3>1. r.status = row[b].status
      BY <2>1 DEF Row
    <3>2. r \in Row /\ RowMoves(b, r)
      BY <1>3, DrawMoves
    <3> HIDE DEF r
    <3> QED
      BY <3>1, <3>2
  <2>4. row'[b].status = row[b].status
    BY <2>3, RowSet DEF RegistryInv
  <2>5. b \notin clashed' => ~Requested(b)
    BY <2>1 DEF Clash
  <2>6. LifeAt(b) /\ ~Requested(b) => recorded[b] \in {row[b].status, None}
    BY NotWriting
  <2>7. CopyMoves(h, row'[b])
    BY <2>2 DEF CopyMoves
  <2> QED
    BY <2>1, <2>2, <2>3, <2>4, <2>5, <2>6, <2>7, LifeBySlot
<1>4. ASSUME NEW p \in Patch, BeginPatch(q, b, p)
      PROVE  LifeAt(a)'
  <2>1. /\ row[b].status # "absent" /\ row[b] \in Row
        /\ Enter(q, b, "patch", row[b], p)
    BY <1>0, <1>4 DEF BeginPatch, Registered, TablesOK
  <2> QED
    BY <1>1, <2>1 DEF Places, CopyMoves
<1>5. ASSUME NEW to \in Status, NEW who \in Staff \cup {None},
             NEW date \in 1..LastDay \cup {None},
             BeginLifecycle(q, b, to, who, date)
      PROVE  LifeAt(a)'
  <2> DEFINE w == Moved(row[b], to, who, date)
  <2>1. /\ row[b].status # "absent" /\ row[b] \in Row
        /\ to \in ValidTransitions[row[b].status]
        /\ Enter(q, b, "load", w, NoPatch)
    BY <1>0, <1>5 DEF BeginLifecycle, MayMove, Registered, TablesOK
  <2>2. w \in Row /\ w.status = to
    BY ZenonT(60), <2>1, MovedType
  <2> HIDE DEF w
  <2>3. \A h : h.at = "load" /\ h.copy = w => CopyMoves(h, row[b])
    BY <2>1, <2>2 DEF CopyMoves
  <2> QED
    BY <1>1, <2>1, <2>2, <2>3, NoPatchType DEF Places
<1>6. CASE BeginQr(q, b)
  <2>1. /\ row[b].status # "absent" /\ row[b] \in Row
        /\ Enter(q, b, "tag", row[b], NoPatch)
    BY <1>0, <1>6 DEF BeginQr, Registered, TablesOK
  <2> QED
    BY <1>1, <2>1, NoPatchType DEF Places, CopyMoves
<1> QED
  BY <1>2, <1>3, <1>4, <1>5, <1>6 DEF Request, StockRequest, LifecycleRequest

LEMMA WatchKeeps ==
  ASSUME RegistryInv, NEW s \in Sweeps, Watch(s), NEW a \in Assets
  PROVE  /\ row'[a].status = row[a].status
         /\ UNCHANGED <<call, recorded, clashed, loan>>
<1>1. ASSUME NEW b \in Assets, StampOverdue(s, b)
      PROVE  row'[a].status = row[a].status
  <2>1. row' = [row EXCEPT ![b] = [row[b] EXCEPT !.overdueStamped = TRUE]]
    BY <1>1 DEF StampOverdue, OverdueStamp, RegistryInv, TablesOK
  <2>2. row[b] \in Row
    BY DEF RegistryInv, TablesOK
  <2> QED
    BY <2>1, <2>2 DEF RegistryInv, TablesOK, Row
<1>2. ASSUME NEW b \in Assets, StampLine(s, b)
      PROVE  row'[a].status = row[a].status
  <2>1. row' = [row EXCEPT ![b] = [row[b] EXCEPT !.lowStamped = TRUE]]
    BY <1>2 DEF StampLine, RegistryInv, TablesOK
  <2>2. row[b] \in Row
    BY DEF RegistryInv, TablesOK
  <2> QED
    BY <2>1, <2>2 DEF RegistryInv, TablesOK, Row
<1>3. UNCHANGED <<call, recorded, clashed, loan>>
  BY DEF Watch, Work, Advance, Lose, QueryOverdue, NotifyOverdue,
     StampOverdue, OverdueFails, QueryLowStock, AlertLine, StampLine,
     LowStockFails, EndDaily, history
<1> QED
  BY <1>1, <1>2, <1>3 DEF Watch, Work, Advance, Lose, QueryOverdue,
     NotifyOverdue, OverdueFails, QueryLowStock, AlertLine, LowStockFails,
     EndDaily

(* A handler that is lost between its two writes leaves no status in the   *)
(* history, so what it moved is not misreported.                           *)
LEMMA LifeLost ==
  ASSUME RegistryInv, NEW a \in Assets, LifeAt(a), NEW lost \in SUBSET Calls,
         UNCHANGED row, recorded' = RecordedWithout(lost),
         \A q \in Calls \ lost : call'[q] = call[q],
         \A q \in lost : call'[q] = Idle
  PROVE  LifeAt(a)'
<1>1. \A q \in Calls : Holds(q, a)' => Holds(q, a) /\ call'[q] = call[q]
  BY IdleType DEF Holds
<1>2. OneRequest(a)' /\ \A q \in Calls : Holds(q, a)' => CopyMoves(call'[q], row'[a])
  BY <1>1 DEF LifeAt, OneRequest, CopyMoves
<1>3. Writing(a)' \/ recorded'[a] \in {row'[a].status, None}
  <2>1. CASE \E q \in lost : call[q].at = "history" /\ call[q].asset = a
    BY <2>1, RecordedWithoutType DEF RegistryInv
  <2>2. CASE ~ \E q \in lost : call[q].at = "history" /\ call[q].asset = a
    <3>1. recorded'[a] = recorded[a]
      BY <2>2, RecordedWithoutType DEF RegistryInv
    <3>2. Writing(a) => Writing(a)'
      BY <2>2 DEF Writing
    <3> QED
      BY <3>1, <3>2 DEF LifeAt
  <2> QED
    BY <2>1, <2>2
<1> QED
  BY <1>2, <1>3 DEF LifeAt, CopyMoves

LEMMA LifeStep ==
  ASSUME RegistryInv, Life, [RegistryNext]_registryVars
  PROVE  Life'
<1>1. CASE UNCHANGED registryVars
  BY <1>1 DEF registryVars, sweeping, history, Life, LifeAt, OneRequest, Holds,
     CopyMoves, Writing
<1> SUFFICES ASSUME RegistryNext, NEW a \in Assets, a \notin clashed',
                    row'[a].status # "absent"
             PROVE  LifeAt(a)'
  BY <1>1 DEF Life
<1>2. ASSUME NEW q \in Calls, Proceed(q)
      PROVE  LifeAt(a)'
  BY <1>2, LifeProceeds
<1>3. ASSUME NEW q \in Calls, NEW b \in Assets, Request(q, b)
      PROVE  LifeAt(a)'
  BY <1>3, LifeRequests
<1>4. ASSUME UNCHANGED row
      PROVE  LifeAt(a)
  BY <1>4, HistoryGrows DEF Life
<1>5. ASSUME NEW q \in Calls, CallFails(q)
      PROVE  LifeAt(a)'
  <2>1. /\ UNCHANGED row /\ recorded' = RecordedWithout({q})
        /\ \A p \in Calls \ {q} : call'[p] = call[p]
        /\ call'[q] = Idle
    BY <1>5 DEF CallFails, End, RegistryInv, CallsOK
  <2> QED
    BY <1>4, <2>1, LifeLost
<1>6. CASE Restart
  <2>1. /\ UNCHANGED row /\ recorded' = RecordedWithout(Calls)
        /\ \A p \in Calls : call'[p] = Idle
    BY <1>6 DEF Restart
  <2> QED
    BY <1>4, <2>1, LifeLost
<1>7. CASE DayPasses
  BY <1>4, <1>7, LifeKept DEF DayPasses, history
<1>8. ASSUME NEW s \in Sweeps, Watch(s)
      PROVE  LifeAt(a)'
  <2>1. row'[a].status = row[a].status /\ UNCHANGED <<call, recorded, clashed>>
    BY <1>8, WatchKeeps
  <2>2. LifeAt(a)
    BY <2>1 DEF Life
  <2> QED
    BY <2>1, <2>2, LifeKept
<1> QED
  BY <1>2, <1>3, <1>5, <1>6, <1>7, <1>8 DEF RegistryNext

THEOREM LifeInductive == RegistrySpec => [](RegistryInv /\ Life)
<1>1. RegistryInit => RegistryInv /\ Life
  <2> SUFFICES ASSUME RegistryInit PROVE Life
    BY RegistryInit_Inv
  <2>1. \A a \in Assets : row[a].status = "absent"
    BY NoRowType DEF RegistryInit, Started
  <2> QED
    BY <2>1 DEF Life
<1>2. RegistryInv /\ Life /\ RegistryInv' /\ [RegistryNext]_registryVars => Life'
  BY LifeStep
<1> QED
  BY <1>1, <1>2, RegistryInductive, PTL DEF RegistrySpec

(* The transaction history of an asset ends with the status it is in,      *)
(* whenever no request is at work on it, unless the last one failed        *)
(* between its two writes.                                                 *)
THEOREM HistorySafe == RegistrySpec => []HistoryUpToDate
<1>1. RegistryInv /\ Life => HistoryUpToDate
  <2> SUFFICES ASSUME RegistryInv, Life, NEW a \in Assets, a \notin clashed,
                      row[a].status # "absent", ~Requested(a)
               PROVE  recorded[a] \in {row[a].status, None}
    BY DEF HistoryUpToDate, Registered
  <2>1. LifeAt(a)
    BY DEF Life
  <2> QED
    BY <2>1, NotWriting
<1> QED
  BY <1>1, LifeInductive, PTL

(* The asset moves along the documented lifecycle, though the whole row is *)
(* saved and the watchers write it meanwhile: unless two requests overlap  *)
(* on it, no write takes it out of a status by another way.                *)
THEOREM LifecycleSafe == RegistrySpec => LifecycleFollowed
<1> DEFINE Follows(a) == row'[a].status # row[a].status =>
                           row'[a].status \in ValidTransitions[row[a].status]
<1>1. ASSUME RegistryInv, Life, [RegistryNext]_registryVars,
             NEW a \in Registered \ clashed
      PROVE  Follows(a)
  <2>0. a \in Assets /\ row[a].status # "absent" /\ LifeAt(a) /\ row[a] \in Row
    BY <1>1 DEF Registered, Life, RegistryInv, TablesOK
  <2>1. ASSUME NEW b \in Assets, NEW r \in Row, RowMoves(b, r),
               a = b => r.status = row[b].status
                        \/ r.status \in ValidTransitions[row[b].status]
        PROVE  Follows(a)
    <3>1. CASE a = b
      BY <1>1, <2>1, <3>1, RowSet DEF RegistryInv
    <3>2. CASE a # b
      BY <1>1, <2>0, <2>1, <3>2, MovesElsewhere
    <3> QED
      BY <3>1, <3>2
  <2>2. CASE UNCHANGED row
    BY <2>2
  <2>3. ASSUME NEW q \in Calls, Proceed(q)
        PROVE  Follows(a)
    <3> DEFINE b == call[q].asset
    <3>1. /\ b \in Assets /\ row[b].status # "absent" /\ row[b] \in Row
          /\ call[q].copy \in Row /\ call[q].base \in Row
          /\ call[q].patch \in Patch
          /\ call[q].at # "idle"
      BY <1>1, <2>3, AssetOfCall DEF Proceed, WritePatch, WriteSaved, WriteQr,
         StampHook, LoadForSave, RecordTransaction, Audit, ReadHook
    <3>2. CASE WritePatch(q)
      <4> DEFINE r == Patched(row[b], call[q].copy, call[q].patch)
      <4>1. r.status = row[b].status
        BY ZenonT(60), <3>1, PatchedType
      <4>2. UNCHANGED row \/ (r \in Row /\ RowMoves(b, r))
        BY <1>1, <3>2, PatchMoves
      <4> HIDE DEF r
      <4> QED
        BY <2>1, <2>2, <3>1, <4>1, <4>2
    <3>3. CASE WriteQr(q)
      <4> DEFINE r == [row[b] EXCEPT !.tag = TagOf(b, call[q].copy)]
      <4>1. r.status = row[b].status
        BY <3>1 DEF Row
      <4>2. UNCHANGED row \/ (r \in Row /\ RowMoves(b, r))
        BY <1>1, <3>3, TagMoves
      <4> HIDE DEF r
      <4> QED
        BY <2>1, <2>2, <3>1, <4>1, <4>2
    <3>4. CASE StampHook(q)
      <4> DEFINE r == [row[b] EXCEPT !.lowStamped = TRUE]
      <4>1. r.status = row[b].status
        BY <3>1 DEF Row
      <4>2. r \in Row /\ RowMoves(b, r)
        BY <1>1, <3>1, <3>4, StampMoves DEF StampHook
      <4> HIDE DEF r
      <4> QED
        BY <2>1, <3>1, <4>1, <4>2
    <3>5. CASE WriteSaved(q)
      <4> DEFINE r == SavedRow(row[b], call[q].base, call[q].copy)
      <4>1. r.status = IF call[q].copy.status # call[q].base.status
                       THEN call[q].copy.status ELSE row[b].status
        BY <3>1, SavedColumns
      <4>2. UNCHANGED row \/ (r \in Row /\ RowMoves(b, r))
        BY <1>1, <3>5, SaveMoves
      <4>3. a = b => call[q].copy.status \in ValidTransitions[row[b].status]
        BY <2>0, <3>5 DEF WriteSaved, LifeAt, Holds, CopyMoves
      <4> HIDE DEF r
      <4> QED
        BY <2>1, <2>2, <3>1, <4>1, <4>2, <4>3
    <3>6. CASE LoadForSave(q) \/ RecordTransaction(q) \/ Audit(q) \/ ReadHook(q)
      BY <2>2, <3>6 DEF LoadForSave, RecordTransaction, Audit, ReadHook
    <3> QED
      BY <2>3, <3>2, <3>3, <3>4, <3>5, <3>6 DEF Proceed
  <2>4. ASSUME NEW q \in Calls, NEW b \in Assets, Request(q, b)
        PROVE  Follows(a)
    <3>1. ASSUME NEW type \in AssetType, NEW class \in AssetClass,
                 NEW p \in Patch, p.quantity # None,
                 Create(q, b, type, class, p.number, p.quantity, p.reorder)
          PROVE  Follows(a)
      <4>1. a # b
        BY <2>0, <3>1 DEF Create
      <4> QED
        BY <1>1, <2>1, <3>1, <4>1, CreateMoves
    <3>2. ASSUME NEW n \in 1..MaxQuantity, Draw(q, b, n)
          PROVE  Follows(a)
      <4> DEFINE r == [row[b] EXCEPT !.quantity = row[b].quantity - n]
      <4>1. r.status = row[b].status
        BY <1>1 DEF Row, RegistryInv, TablesOK
      <4>2. r \in Row /\ RowMoves(b, r)
        BY <1>1, <3>2, DrawMoves
      <4> HIDE DEF r
      <4> QED
        BY <2>1, <4>1, <4>2
    <3>3. CASE UNCHANGED row
      BY <2>2, <3>3
    <3> QED
      BY <2>4, <3>1, <3>2, <3>3 DEF Request, StockRequest, LifecycleRequest,
         BeginPatch, BeginLifecycle, BeginQr, Enter
  <2>5. ASSUME NEW s \in Sweeps, Watch(s)
        PROVE  Follows(a)
    BY <1>1, <2>0, <2>5, WatchKeeps
  <2> QED
    BY <1>1, <2>2, <2>3, <2>4, <2>5 DEF RegistryNext, CallFails, DayPasses,
       Restart, registryVars
<1>2. RegistryInv /\ Life /\ [RegistryNext]_registryVars =>
        [\A a \in Registered \ clashed : Follows(a)]_registryVars
  BY <1>1
<1> QED
  BY <1>2, LifeInductive, PTL DEF RegistrySpec, LifecycleFollowed

-----------------------------------------------------------------------------
(* Sole: one handler of any kind at a time on an asset.                    *)
LEMMA WorkIs ==
  ASSUME NEW a \in Assets
  PROVE  AtWork(a) <=> \/ \E q \in Calls : Holds(q, a)
                       \/ \E s \in Sweeps : Reports(s, a) \/ Waits(s, a)
BY DEF AtWork, Requested, Holds, Reports, Waits

(* Work that only ends on an asset nobody writes leaves it in order.       *)
LEMMA SoleKept ==
  ASSUME NEW a \in Assets, SoleAt(a), row'[a] = row[a],
         loan'[a] = loan[a], told'[a] = told[a],
         \A q \in Calls : Holds(q, a)' => Holds(q, a) /\ call'[q] = call[q],
         \A s \in Sweeps : Reports(s, a)' => Reports(s, a) /\ late'[s][a] = late[s][a],
         \A s \in Sweeps : Waits(s, a)' => Waits(s, a)
  PROVE  SoleAt(a)'
<1>1. OneRequest(a)' /\ OneSweep(a)' /\ NotBoth(a)'
  BY DEF SoleAt, OneRequest, OneSweep, NotBoth
<1>2. StampsTrue(row'[a], told'[a])
  BY DEF SoleAt, StampsTrue, Threshold
<1>3. \A q \in Calls : Holds(q, a)' => CopyHolds(call'[q], row'[a])
  BY DEF SoleAt
<1>4. \A s \in Sweeps :
        /\ Reports(s, a)' => late'[s][a].loan = loan'[a]
        /\ late'[s][a].stage = "notified" => told'[a]
        /\ Waits(s, a)' => Low(row'[a])
  BY DEF SoleAt, Reports
<1> QED
  BY <1>1, <1>2, <1>3, <1>4 DEF SoleAt, CopyHolds, Low, Threshold, SameStock

(* A slot's step on b: its handler was alone on b, or nobody was there.    *)
LEMMA SoleSlot ==
  ASSUME RegistryInv, NEW a \in Assets, SoleAt(a), UNCHANGED sweeping,
         NEW q \in Calls, NEW b \in Assets, NEW h \in Handler, SlotStep(q, b, h),
         a # b => row'[a] = row[a] /\ loan'[a] = loan[a] /\ told'[a] = told[a],
         a = b =>
           /\ call[q].at = "idle" => ~AtWork(b)
           /\ h.at # "idle" => CopyHolds(h, row'[b])
           /\ StampsTrue(row'[b], told'[b])
  PROVE  SoleAt(a)'
<1>0. \A s \in Sweeps :
        /\ Reports(s, a)' <=> Reports(s, a)
        /\ Waits(s, a)' <=> Waits(s, a)
        /\ late'[s][a] = late[s][a]
  BY DEF sweeping, Reports, Waits
<1>1. CASE a # b
  <2>1. /\ \A p \in Calls : Holds(p, a)' => Holds(p, a)
        /\ \A p \in Calls : Holds(p, a) => Holds(p, a)' /\ call'[p] = call[p]
    BY <1>1, SlotElsewhere DEF RegistryInv
  <2> QED
    BY <1>0, <1>1, <2>1, SoleKept
<1>2. CASE a = b
  <2>1. /\ \A p \in Calls : Holds(p, a)' => p = q
        /\ call'[q] = h
    <3>1. call[q].at = "idle" => ~Requested(b)
      BY <1>2 DEF AtWork
    <3> QED
      BY <1>2, <3>1, SlotHere DEF RegistryInv, SoleAt
  <2>2. \A s \in Sweeps : ~Reports(s, a) /\ ~Waits(s, a)
    <3>1. CASE call[q].at = "idle"
      BY <1>2, <3>1, WorkIs
    <3>2. CASE call[q].at # "idle"
      <4>1. Holds(q, a)
        BY <1>2, <3>2 DEF SlotStep, Holds
      <4> QED
        BY <4>1 DEF SoleAt, NotBoth
    <3> QED
      BY <3>1, <3>2
  <2>3. OneRequest(a)' /\ OneSweep(a)' /\ NotBoth(a)'
    BY <1>0, <2>1, <2>2 DEF OneRequest, OneSweep, NotBoth
  <2>4. \A p \in Calls : Holds(p, a)' => CopyHolds(call'[p], row'[a])
    BY <1>2, <2>1 DEF Holds
  <2>5. \A s \in Sweeps : late'[s][a].stage # "notified"
    BY <1>0, <2>2 DEF Reports
  <2> QED
    BY <1>0, <1>2, <2>2, <2>3, <2>4, <2>5
       DEF SoleAt, CopyHolds, Low, Threshold, SameStock
<1> QED
  BY <1>1, <1>2

LEMMA SoleBySlot ==
  ASSUME RegistryInv, Sole, RegistryNext, UNCHANGED sweeping,
         NEW a \in Assets, a \notin raced', row'[a].status # "absent",
         NEW q \in Calls, NEW b \in Assets, NEW h \in Handler,
         SlotStep(q, b, h), row[b].status # "absent",
         UNCHANGED row \/ \E r \in Row : RowMoves(b, r),
         \A c \in Assets \ {b} : loan'[c] = loan[c] /\ told'[c] = told[c],
         b \notin raced' /\ SoleAt(b) =>
           /\ call[q].at = "idle" => ~AtWork(b)
           /\ h.at # "idle" => CopyHolds(h, row'[b])
           /\ StampsTrue(row'[b], told'[b])
  PROVE  SoleAt(a)'
<1>1. a # b => row'[a] = row[a]
  BY MovesElsewhere
<1>2. a \notin raced
  BY HistoryGrows
<1>3. SoleAt(a)
  BY <1>1, <1>2 DEF Sole
<1> QED
  BY <1>1, <1>3, SoleSlot

LEMMA ThresholdType ==
  ASSUME NEW r \in Row
  PROVE  Threshold(r) \in Nat /\ r.quantity \in Nat
<1>1. r.quantity \in 0..MaxQuantity /\ r.reorder \in 0..MaxQuantity \cup {None}
  BY RowFields
<1> QED
  BY <1>1, BoundsAreNat DEF Threshold

LEMMA PatchKeeps ==
  ASSUME NEW r \in Row, NEW c \in Row, NEW p \in Patch
  PROVE  /\ Patched(r, c, p).status = r.status
         /\ Patched(r, c, p).overdueStamped = r.overdueStamped
BY PatchedType

(* update() re-arms on what it read, so a line it leaves silenced is low,  *)
(* if what it read is the row.                                             *)
LEMMA PatchRearms ==
  ASSUME NEW r \in Row, NEW p \in Patch,
         r.lowStamped => r.quantity <= Threshold(r),
         Patched(r, r, p).lowStamped
  PROVE  Patched(r, r, p).quantity <= Threshold(Patched(r, r, p))
<1> DEFINE w == Patched(r, r, p)
<1>1. /\ w \in Row /\ r.lowStamped /\ ~Rearms(r, p)
      /\ w.quantity = Given(p.quantity, r.quantity)
      /\ w.reorder = Given(p.reorder, r.reorder)
  BY PatchedType
<1>2. /\ w.quantity \in Nat /\ Threshold(w) \in Nat
      /\ r.quantity \in Nat /\ Threshold(r) \in Nat
  BY <1>1, ThresholdType
<1> HIDE DEF w
<1>3. Threshold(w) = Given(p.reorder, Threshold(r))
  <2>1. CASE p.reorder = None
    BY <1>1, <2>1 DEF Threshold, Given
  <2>2. CASE p.reorder # None
    BY <1>1, <2>2 DEF Threshold, Given
  <2> QED
    BY <2>1, <2>2
<1>4. ASSUME p.quantity = None /\ p.reorder = None
      PROVE  w.quantity <= Threshold(w)
  BY <1>1, <1>3, <1>4 DEF Given
<1>5. ASSUME p.quantity # None \/ p.reorder # None
      PROVE  w.quantity <= Threshold(w)
  <2>1. ~(w.quantity > Threshold(w))
    BY <1>1, <1>3, <1>5 DEF Rearms
  <2> QED
    BY <1>2, <2>1
<1>6. w.quantity <= Threshold(w)
  BY <1>4, <1>5
<1> QED
  BY <1>6 DEF w

LEMMA SoleProceeds ==
  ASSUME RegistryInv, Sole, RegistryNext,
         NEW a \in Assets, a \notin raced', row'[a].status # "absent",
         NEW q \in Calls, Proceed(q)
  PROVE  SoleAt(a)'
<1> DEFINE b == call[q].asset
<1>1. call[q].at # "idle" /\ UNCHANGED sweeping
  BY DEF Proceed, WritePatch, WriteSaved, WriteQr, StampHook, LoadForSave,
     RecordTransaction, Audit, ReadHook
<1>2. /\ b \in Assets /\ row[b].status # "absent" /\ row[b] \in Row
      /\ call[q].copy \in Row /\ call[q].base \in Row
      /\ call[q].patch \in Patch
  BY <1>1, AssetOfCall
<1>3. CallsOK /\ Holds(q, b) /\ TablesOK
  BY <1>1 DEF RegistryInv, Holds
<1>4. SoleAt(b) => CopyHolds(call[q], row[b]) /\ StampsTrue(row[b], told[b])
  BY <1>3 DEF SoleAt
<1>5. ASSUME NEW at \in {"idle", "audit", "history", "stamp"},
             (at = "idle" /\ End(q)) \/ (at # "idle" /\ Goto(q, at)),
             UNCHANGED row \/ \E r \in Row : RowMoves(b, r),
             \A c \in Assets \ {b} : loan'[c] = loan[c] /\ told'[c] = told[c],
             b \notin raced' /\ SoleAt(b) =>
               /\ at = "stamp" => Low(row'[b])
               /\ StampsTrue(row'[b], told'[b])
      PROVE  SoleAt(a)'
  <2>1. PICK h \in Handler : SlotStep(q, b, h) /\ h.at = at
    <3>1. CASE at = "idle"
      BY <1>3, <1>5, <3>1, SlotEnds, IdleType
    <3>2. CASE at # "idle"
      BY <1>3, <1>5, <3>2, SlotGoes DEF Places
    <3> QED
      BY <3>1, <3>2
  <2>2. b \notin raced' /\ SoleAt(b) /\ h.at # "idle" => CopyHolds(h, row'[b])
    BY <1>5, <2>1 DEF CopyHolds
  <2> QED
    BY <1>1, <1>2, <1>5, <2>1, <2>2, SoleBySlot
<1>6. ASSUME NEW at \in {"idle", "audit", "stamp"},
             (at = "idle" /\ End(q)) \/ (at # "idle" /\ Goto(q, at)),
             UNCHANGED <<row, loan, told>>, at = "stamp" => Low(row[b])
      PROVE  SoleAt(a)'
  <2>1. SoleAt(b) => StampsTrue(row'[b], told'[b])
    BY <1>4, <1>6 DEF StampsTrue
  <2>2. at = "stamp" => Low(row'[b])
    BY <1>6
  <2> QED
    BY <1>5, <1>6, <2>1, <2>2
<1>7. CASE WritePatch(q)
  <2> DEFINE r == Patched(row[b], call[q].copy, call[q].patch)
  <2>1. call[q].at = "patch" /\ UNCHANGED <<loan, told>>
    BY <1>7 DEF WritePatch, history
  <2>2. CASE UNCHANGED row /\ End(q)
    BY <1>6, <2>1, <2>2
  <2>3. CASE r \in Row /\ RowMoves(b, r) /\ Goto(q, "audit")
    <3>1. /\ r.status = row[b].status
          /\ r.overdueStamped = row[b].overdueStamped
      BY <1>2, PatchKeeps
    <3>2. SoleAt(b) /\ r.lowStamped => r.quantity <= Threshold(r)
      <4>1. SoleAt(b) => call[q].copy = row[b]
        BY <1>4, <2>1 DEF CopyHolds
      <4> QED
        BY <1>2, <1>4, <4>1, PatchRearms DEF StampsTrue
    <3>3. row'[b] = r
      BY <1>2, <1>3, <2>3, RowSet
    <3> HIDE DEF r
    <3>4. SoleAt(b) => StampsTrue(row'[b], told'[b])
      BY <1>4, <2>1, <3>1, <3>2, <3>3 DEF StampsTrue
    <3> QED
      BY <1>5, <2>1, <2>3, <3>4
  <2> QED
    BY <1>7, <2>2, <2>3, PatchMoves
<1>8. CASE WriteQr(q)
  <2> DEFINE r == [row[b] EXCEPT !.tag = TagOf(b, call[q].copy)]
  <2>1. UNCHANGED <<loan, told>>
    BY <1>8 DEF WriteQr, history
  <2>2. CASE UNCHANGED row /\ End(q)
    BY <1>6, <2>1, <2>2
  <2>3. CASE r \in Row /\ RowMoves(b, r) /\ Goto(q, "audit")
    <3>1. /\ r.status = row[b].status /\ r.quantity = row[b].quantity
          /\ r.reorder = row[b].reorder /\ r.lowStamped = row[b].lowStamped
          /\ r.overdueStamped = row[b].overdueStamped
      BY <1>2 DEF Row
    <3>2. row'[b] = r
      BY <1>2, <1>3, <2>3, RowSet
    <3> HIDE DEF r
    <3>3. SoleAt(b) => StampsTrue(row'[b], told'[b])
      BY <1>4, <2>1, <3>1, <3>2 DEF StampsTrue, Threshold
    <3> QED
      BY <1>5, <2>1, <2>3, <3>3
  <2> QED
    BY <1>8, <2>2, <2>3, TagMoves
<1>9. CASE StampHook(q)
  <2> DEFINE r == [row[b] EXCEPT !.lowStamped = TRUE]
  <2>1. /\ call[q].at = "stamp" /\ UNCHANGED <<loan, told>> /\ End(q)
        /\ row' = [row EXCEPT ![b].lowStamped = TRUE]
    BY <1>9 DEF StampHook, history
  <2>2. r \in Row /\ RowMoves(b, r)
    BY <1>2, <2>1, StampMoves
  <2>3. /\ r.status = row[b].status /\ r.quantity = row[b].quantity
        /\ r.reorder = row[b].reorder
        /\ r.overdueStamped = row[b].overdueStamped
    BY <1>2 DEF Row
  <2>4. row'[b] = r
    BY <1>2, <1>3, <2>2, RowSet
  <2> HIDE DEF r
  <2>5. SoleAt(b) => row[b].quantity <= Threshold(row[b])
    BY <1>4, <2>1 DEF CopyHolds, Low
  <2>6. SoleAt(b) => StampsTrue(row'[b], told'[b])
    BY <1>4, <2>1, <2>3, <2>4, <2>5 DEF StampsTrue, Threshold
  <2> QED
    BY <1>5, <2>1, <2>2, <2>6
<1>10. CASE ReadHook(q)
  BY <1>6, <1>10 DEF ReadHook, history, NeedsAlert
<1>11. CASE Audit(q)
  BY <1>6, <1>11 DEF Audit, history
<1>12. CASE LoadForSave(q)
  <2>1. /\ call[q].at = "load" /\ UNCHANGED <<row, loan, told>>
    BY <1>12 DEF LoadForSave, history
  <2>2. PICK h \in Handler : /\ SlotStep(q, b, h) /\ h.at = "save"
                             /\ h.copy = call[q].copy /\ h.base = row[b]
    BY <1>12, SlotLoads
  <2>3. SoleAt(b) => CopyHolds(h, row'[b]) /\ StampsTrue(row'[b], told'[b])
    BY <1>4, <2>1, <2>2 DEF CopyHolds, StampsTrue
  <2> QED
    BY <1>1, <1>2, <2>1, <2>2, <2>3, SoleBySlot
<1>13. CASE WriteSaved(q)
  <2> DEFINE r == SavedRow(row[b], call[q].base, call[q].copy)
             lent == r.status = "issued" /\ row[b].status # "issued"
  <2>1. call[q].at = "save"
    BY <1>13 DEF WriteSaved
  <2>2. CASE UNCHANGED <<row, loan, told>> /\ End(q)
    BY <1>6, <2>2
  <2>3. CASE /\ r \in Row /\ RowMoves(b, r) /\ Goto(q, "history")
             /\ loan' = [loan EXCEPT ![b] =
                          IF lent /\ @ < MaxLoans THEN @ + 1 ELSE @]
             /\ told' = [told EXCEPT ![b] = @ /\ ~lent]
    <3>1. row'[b] = r
      BY <1>2, <1>3, <2>3, RowSet
    <3>2. \A c \in Assets \ {b} : loan'[c] = loan[c] /\ told'[c] = told[c]
      BY <1>2, <1>3, <2>3 DEF TablesOK
    <3>3. SoleAt(b) => r = call[q].copy
      BY <1>2, <1>4, <2>1, SavedColumns DEF CopyHolds
    <3>4. SoleAt(b) =>
            /\ SameStock(call[q].copy, row[b])
            /\ call[q].copy.status = "issued" => ~call[q].copy.overdueStamped
      BY <1>4, <2>1 DEF CopyHolds
    <3> HIDE DEF r, lent
    <3>5. SoleAt(b) => StampsTrue(row'[b], told'[b])
      BY <1>4, <3>1, <3>3, <3>4 DEF StampsTrue, SameStock, Threshold
    <3> QED
      BY <1>5, <2>3, <3>2, <3>5
  <2> QED
    BY <1>13, <2>2, <2>3, SaveMoves
<1>14. CASE RecordTransaction(q)
  BY <1>6, <1>14 DEF RecordTransaction
<1> QED
  BY <1>7, <1>8, <1>9, <1>10, <1>11, <1>12, <1>13, <1>14 DEF Proceed

LEMMA SoleRequests ==
  ASSUME RegistryInv, Sole, RegistryNext,
         NEW a \in Assets, a \notin raced', row'[a].status # "absent",
         NEW q \in Calls, NEW b \in Assets, Request(q, b)
  PROVE  SoleAt(a)'
<1>0. CallsOK /\ TablesOK /\ SweepsOK
  BY DEF RegistryInv
<1>1. ASSUME NEW at \in Places, NEW copy \in Row, NEW patch \in Patch,
             row[b].status # "absent", Enter(q, b, at, copy, patch),
             \A h : h.at = at /\ h.copy = copy => CopyHolds(h, row[b])
      PROVE  SoleAt(a)'
  <2>1. PICK h \in Handler : SlotStep(q, b, h) /\ h.at = at /\ h.copy = copy
    BY <1>0, <1>1, SlotEnters
  <2>2. UNCHANGED <<row, loan, told, sweeping>>
    BY <1>1 DEF Enter
  <2>3. b \notin raced' => ~AtWork(b)
    BY <1>1 DEF Enter, Overlap
  <2>4. SoleAt(b) => StampsTrue(row'[b], told'[b])
    BY <2>2 DEF SoleAt
  <2>5. CopyHolds(h, row'[b])
    BY <1>1, <2>1, <2>2
  <2> QED
    BY <1>1, <2>1, <2>2, <2>3, <2>4, <2>5, SoleBySlot
<1>2. ASSUME NEW type \in AssetType, NEW class \in AssetClass, NEW p \in Patch,
             p.quantity # None,
             Create(q, b, type, class, p.number, p.quantity, p.reorder)
      PROVE  SoleAt(a)'
  <2>1. PICK r \in Row : /\ RowMoves(b, r) /\ r.status = "registered"
                         /\ ~r.lowStamped /\ ~r.overdueStamped
    BY <1>2, CreateMoves
  <2>2. /\ call[q].at = "idle" /\ row[b].status = "absent"
        /\ UNCHANGED <<loan, told, sweeping>>
        /\ call' = [call EXCEPT ![q] = [Idle EXCEPT !.at = "audit", !.asset = b]]
    BY <1>2 DEF Create, history
  <2>3. PICK h \in Handler : SlotStep(q, b, h) /\ h.at = "audit"
    BY <1>0, <2>2, SlotLeft
  <2>4. CASE a # b
    <3>1. row'[a] = row[a]
      BY <2>1, <2>4, MovesElsewhere
    <3>2. SoleAt(a)
      BY <3>1, HistoryGrows DEF Sole
    <3> QED
      BY <2>2, <2>3, <2>4, <3>1, <3>2, SoleSlot
  <2>5. CASE a = b
    <3>1. ~Requested(b) /\ \A s \in Sweeps : ~Reports(s, b) /\ ~Waits(s, b)
      BY <1>0, <2>2 DEF Requested, CallsOK, SweepsOK
    <3>2. OneRequest(b)
      BY <3>1 DEF OneRequest, Requested, Holds
    <3>3. /\ \A p1 \in Calls : Holds(p1, b)' => p1 = q
          /\ call'[q] = h
      BY <1>0, <2>3, <3>1, <3>2, SlotHere
    <3>4. row'[b] = r
      BY <2>1, RowSet DEF RegistryInv
    <3>5. \A s \in Sweeps : /\ ~Reports(s, b)' /\ ~Waits(s, b)'
                            /\ late'[s][b].stage # "notified"
      BY <2>2, <3>1 DEF Reports, Waits, sweeping
    <3>6. OneRequest(b)' /\ OneSweep(b)' /\ NotBoth(b)'
      BY <3>3, <3>5 DEF OneRequest, OneSweep, NotBoth
    <3>7. StampsTrue(row'[b], told'[b])
      BY <2>1, <3>4 DEF StampsTrue
    <3>8. CopyHolds(h, row'[b])
      BY <2>3 DEF CopyHolds
    <3> QED
      BY <2>5, <3>3, <3>5, <3>6, <3>7, <3>8 DEF SoleAt
  <2> QED
    BY <2>4, <2>5
<1>3. ASSUME NEW n \in 1..MaxQuantity, Draw(q, b, n)
      PROVE  SoleAt(a)'
  <2> DEFINE r == [row[b] EXCEPT !.quantity = row[b].quantity - n]
  <2>1. /\ row[b].status # "absent" /\ row[b] \in Row /\ call[q].at = "idle"
        /\ UNCHANGED <<loan, told, sweeping>> /\ Overlap({b})
        /\ call' = [call EXCEPT ![q] = [Idle EXCEPT !.at = "hook", !.asset = b]]
    BY <1>0, <1>3 DEF Draw, Registered, TablesOK
  <2>2. PICK h \in Handler : SlotStep(q, b, h) /\ h.at = "hook"
    BY <1>0, <2>1, SlotLeft
  <2>3. /\ r.status = row[b].status /\ r.quantity = row[b].quantity - n
        /\ r.reorder = row[b].reorder /\ r.lowStamped = row[b].lowStamped
        /\ r.overdueStamped = row[b].overdueStamped
    BY <2>1 DEF Row
  <2>4. r \in Row /\ RowMoves(b, r)
    BY <1>3, DrawMoves
  <2> HIDE DEF r
  <2>5. row'[b] = r
    BY <1>0, <2>4, RowSet
  <2>6. b \notin raced' => ~AtWork(b)
    BY <2>1 DEF Overlap
  <2>7. /\ row[b].quantity \in Nat /\ r.quantity \in Nat
        /\ Threshold(row[b]) \in Nat /\ Threshold(r) = Threshold(row[b])
    BY <2>1, <2>3, <2>4, ThresholdType DEF Threshold
  <2>8. SoleAt(b) => StampsTrue(row'[b], told'[b])
    <3> SUFFICES ASSUME StampsTrue(row[b], told[b])
                 PROVE  StampsTrue(r, told[b])
      BY <2>1, <2>5 DEF SoleAt
    <3>1. row[b].quantity <= Threshold(row[b]) => r.quantity <= Threshold(r)
      BY <2>3, <2>7
    <3> QED
      BY <2>3, <3>1 DEF StampsTrue
  <2>9. CopyHolds(h, row'[b])
    BY <2>2 DEF CopyHolds
  <2> QED
    BY <2>1, <2>2, <2>4, <2>6, <2>8, <2>9, SoleBySlot
<1>4. ASSUME NEW p \in Patch, BeginPatch(q, b, p)
      PROVE  SoleAt(a)'
  <2>1. /\ row[b].status # "absent" /\ row[b] \in Row
        /\ Enter(q, b, "patch", row[b], p)
    BY <1>0, <1>4 DEF BeginPatch, Registered, TablesOK
  <2> QED
    BY <1>1, <2>1 DEF Places, CopyHolds
<1>5. ASSUME NEW to \in Status, NEW who \in Staff \cup {None},
             NEW date \in 1..LastDay \cup {None},
             BeginLifecycle(q, b, to, who, date)
      PROVE  SoleAt(a)'
  <2> DEFINE w == Moved(row[b], to, who, date)
  <2>1. /\ row[b].status # "absent" /\ row[b] \in Row
        /\ Enter(q, b, "load", w, NoPatch)
    BY <1>0, <1>5 DEF BeginLifecycle, Registered, TablesOK
  <2>2. /\ w \in Row
        /\ w.status = to /\ w.quantity = row[b].quantity
        /\ w.reorder = row[b].reorder
        /\ w.class = row[b].class /\ w.lowStamped = row[b].lowStamped
        /\ to = "issued" => ~w.overdueStamped
    BY <2>1, MovedType
  <2> HIDE DEF w
  <2>3. \A h : h.at = "load" /\ h.copy = w => CopyHolds(h, row[b])
    BY <2>2 DEF CopyHolds, SameStock
  <2> QED
    BY <1>1, <2>1, <2>2, <2>3, NoPatchType DEF Places
<1>6. CASE BeginQr(q, b)
  <2>1. /\ row[b].status # "absent" /\ row[b] \in Row
        /\ Enter(q, b, "tag", row[b], NoPatch)
    BY <1>0, <1>6 DEF BeginQr, Registered, TablesOK
  <2> QED
    BY <1>1, <2>1, NoPatchType DEF Places, CopyHolds
<1> QED
  BY <1>2, <1>3, <1>4, <1>5, <1>6 DEF Request, StockRequest, LifecycleRequest

LEMMA NoticeSet ==
  ASSUME SweepsOK, NEW s \in Sweeps, NEW a \in Assets, NEW stage \in Stages,
         late' = [late EXCEPT ![s][a].stage = stage]
  PROVE  /\ late'[s][a].stage = stage /\ late'[s][a].loan = late[s][a].loan
         /\ \A t \in Sweeps, b \in Assets : t # s \/ b # a => late'[t][b] = late[t][b]
<1> DEFINE n == [late[s][a] EXCEPT !.stage = stage]
           f == [late[s] EXCEPT ![a] = n]
<1>1. late[s] \in Sweep /\ late[s][a] \in [stage: Stages, loan: 0..MaxLoans]
  BY DEF SweepsOK, Sweep
<1>2. n.stage = stage /\ n.loan = late[s][a].loan
  BY <1>1
<1>3. late' = [late EXCEPT ![s] = f]
  BY DEF SweepsOK
<1> HIDE DEF n
<1>4. f[a] = n /\ \A b \in Assets \ {a} : f[b] = late[s][b]
  BY <1>1 DEF Sweep
<1> HIDE DEF f
<1>5. late'[s] = f /\ \A t \in Sweeps \ {s} : late'[t] = late[t]
  BY <1>3 DEF SweepsOK
<1> QED
  BY ZenonT(60), <1>2, <1>4, <1>5

(* A notice of b moves on while nobody else is at work on b.               *)
LEMMA SoleNotices ==
  ASSUME RegistryInv, NEW a \in Assets, SoleAt(a), UNCHANGED <<call, queue, loan>>,
         NEW s \in Sweeps, NEW b \in Assets, NEW stage \in {"notified", "done", "failed"},
         Reports(s, b), late' = [late EXCEPT ![s][b].stage = stage],
         a # b => row'[a] = row[a] /\ told'[a] = told[a],
         a = b => /\ stage = "notified" => told'[b]
                  /\ StampsTrue(row'[b], told'[b])
  PROVE  SoleAt(a)'
<1>0. SweepsOK /\ stage \in Stages
  BY DEF RegistryInv, Stages
<1>1. /\ late'[s][b].stage = stage /\ late'[s][b].loan = late[s][b].loan
      /\ \A t \in Sweeps, c \in Assets : t # s \/ c # b => late'[t][c] = late[t][c]
  BY <1>0, NoticeSet
<1>2. \A q \in Calls : Holds(q, a)' => Holds(q, a) /\ call'[q] = call[q]
  BY DEF Holds
<1>3. \A t \in Sweeps : Waits(t, a)' => Waits(t, a)
  BY DEF Waits
<1>4. CASE a # b
  <2>1. \A t \in Sweeps : Reports(t, a)' => Reports(t, a) /\ late'[t][a] = late[t][a]
    BY <1>1, <1>4 DEF Reports
  <2> QED
    BY <1>2, <1>3, <1>4, <2>1, SoleKept
<1>5. CASE a = b
  <2>1. /\ \A q \in Calls : ~Holds(q, a)
        /\ \A t \in Sweeps : ~Waits(t, a)
        /\ \A t \in Sweeps \ {s} : ~Reports(t, a)
        /\ late[s][a].loan = loan[a]
    BY <1>5 DEF SoleAt, NotBoth, OneSweep
  <2>2. /\ \A q \in Calls : ~Holds(q, a)'
        /\ \A t \in Sweeps : ~Waits(t, a)'
    BY <1>2, <1>3, <2>1
  <2>3. \A t \in Sweeps \ {s} : ~Reports(t, a)' /\ late'[t][a].stage # "notified"
    BY <1>1, <2>1 DEF Reports
  <2>4. OneRequest(a)' /\ OneSweep(a)' /\ NotBoth(a)'
    BY <2>2, <2>3 DEF OneRequest, OneSweep, NotBoth
  <2>5. \A t \in Sweeps :
          /\ Reports(t, a)' => late'[t][a].loan = loan'[a]
          /\ late'[t][a].stage = "notified" => told'[a]
    BY <1>1, <1>5, <2>1, <2>3
  <2> QED
    BY <1>5, <2>2, <2>4, <2>5 DEF SoleAt
<1> QED
  BY <1>4, <1>5

(* A watcher's query takes up the assets it finds; one of them that        *)
(* somebody is at work on is counted as raced.                             *)
LEMMA SoleQueriesOverdue ==
  ASSUME RegistryInv, NEW a \in Assets, SoleAt(a), a \notin raced',
         NEW s \in Sweeps, QueryOverdue(s)
  PROVE  SoleAt(a)'
<1> DEFINE f == [c \in Assets |-> IF Overdue(row[c])
                                  THEN [stage |-> "found", loan |-> loan[c]]
                                  ELSE NotLate]
<1>1. /\ UNCHANGED <<row, call, queue, loan, told>>
      /\ late' = [late EXCEPT ![s] = f]
      /\ Overlap({c \in Assets : Overdue(row[c])})
  BY DEF QueryOverdue
<1>2. f[a] = IF Overdue(row[a]) THEN [stage |-> "found", loan |-> loan[a]]
                                ELSE NotLate
  OBVIOUS
<1> HIDE DEF f
<1>3. late'[s] = f /\ \A t \in Sweeps \ {s} : late'[t] = late[t]
  BY <1>1 DEF RegistryInv, SweepsOK
<1>4. \A q \in Calls : Holds(q, a)' => Holds(q, a) /\ call'[q] = call[q]
  BY <1>1 DEF Holds
<1>5. \A t \in Sweeps : Waits(t, a)' => Waits(t, a)
  BY <1>1 DEF Waits
<1>6. CASE ~Overdue(row[a])
  <2>1. \A t \in Sweeps : Reports(t, a)' => Reports(t, a) /\ late'[t][a] = late[t][a]
    BY <1>2, <1>3, <1>6 DEF Reports, NotLate
  <2> QED
    BY <1>1, <1>4, <1>5, <2>1, SoleKept
<1>7. CASE Overdue(row[a])
  <2>1. ~AtWork(a)
    BY <1>1, <1>7 DEF Overlap
  <2>2. /\ \A q \in Calls : ~Holds(q, a)'
        /\ \A t \in Sweeps : ~Waits(t, a)'
        /\ \A t \in Sweeps \ {s} : ~Reports(t, a)' /\ late'[t][a].stage # "notified"
    BY <1>3, <1>4, <1>5, <2>1, WorkIs DEF Reports
  <2>3. late'[s][a] = [stage |-> "found", loan |-> loan[a]]
    BY <1>2, <1>3, <1>7
  <2>4. OneRequest(a)' /\ OneSweep(a)' /\ NotBoth(a)'
    BY <2>2 DEF OneRequest, OneSweep, NotBoth
  <2>5. \A t \in Sweeps :
          /\ Reports(t, a)' => late'[t][a].loan = loan'[a]
          /\ late'[t][a].stage = "notified" => told'[a]
    BY <1>1, <2>2, <2>3
  <2> QED
    BY <1>1, <2>2, <2>4, <2>5 DEF SoleAt
<1> QED
  BY <1>6, <1>7

LEMMA SoleQueriesLow ==
  ASSUME RegistryInv, NEW a \in Assets, SoleAt(a), a \notin raced',
         NEW s \in Sweeps, QueryLowStock(s)
  PROVE  SoleAt(a)'
<1> DEFINE low == {c \in Assets : NeedsAlert(row[c])}
<1>1. /\ UNCHANGED <<row, call, late, loan, told>>
      /\ queue' = [queue EXCEPT ![s] = low]
      /\ Overlap(low)
  BY DEF QueryLowStock
<1>2. a \in low <=> NeedsAlert(row[a])
  OBVIOUS
<1> HIDE DEF low
<1>3. queue'[s] = low /\ \A t \in Sweeps \ {s} : queue'[t] = queue[t]
  BY <1>1 DEF RegistryInv, SweepsOK
<1>4. \A q \in Calls : Holds(q, a)' => Holds(q, a) /\ call'[q] = call[q]
  BY <1>1 DEF Holds
<1>5. \A t \in Sweeps : Reports(t, a)' => Reports(t, a) /\ late'[t][a] = late[t][a]
  BY <1>1 DEF Reports
<1>6. CASE a \notin low
  <2>1. \A t \in Sweeps : Waits(t, a)' => Waits(t, a)
    BY <1>3, <1>6 DEF Waits
  <2> QED
    BY <1>1, <1>4, <1>5, <2>1, SoleKept
<1>7. CASE a \in low
  <2>1. ~AtWork(a) /\ Low(row[a])
    BY <1>1, <1>2, <1>7 DEF Overlap, NeedsAlert
  <2>2. /\ \A q \in Calls : ~Holds(q, a)'
        /\ \A t \in Sweeps : ~Reports(t, a)' /\ late'[t][a].stage # "notified"
        /\ \A t \in Sweeps \ {s} : ~Waits(t, a)'
    BY <1>1, <1>3, <1>4, <1>5, <2>1, WorkIs DEF Reports, Waits
  <2>3. OneRequest(a)' /\ OneSweep(a)' /\ NotBoth(a)'
    BY <2>2 DEF OneRequest, OneSweep, NotBoth
  <2>4. \A t \in Sweeps : Waits(t, a)' => Low(row'[a])
    BY <1>1, <2>1
  <2> QED
    BY <1>1, <2>2, <2>3, <2>4 DEF SoleAt
<1> QED
  BY <1>6, <1>7

LEMMA SoleStampsLine ==
  ASSUME RegistryInv, NEW a \in Assets, SoleAt(a),
         NEW s \in Sweeps, NEW b \in Assets, StampLine(s, b)
  PROVE  SoleAt(a)'
<1>1. /\ UNCHANGED <<call, late, loan, told>>
      /\ queue' = [queue EXCEPT ![s] = @ \ {b}]
      /\ row' = [row EXCEPT ![b].lowStamped = TRUE]
      /\ line[s] = b
  BY DEF StampLine, history
<1>2. b \in queue[s] /\ row[b].status # "absent" /\ row[b] \in Row
  BY <1>1, BoundsAreNat DEF RegistryInv, SweepsOK, TablesOK, Waits
<1> DEFINE r == [row[b] EXCEPT !.lowStamped = TRUE]
<1>3. r \in Row /\ RowMoves(b, r)
  BY <1>1, <1>2, StampMoves
<1>4. /\ r.status = row[b].status /\ r.quantity = row[b].quantity
      /\ r.reorder = row[b].reorder
      /\ r.overdueStamped = row[b].overdueStamped
  BY <1>2 DEF Row
<1> HIDE DEF r
<1>5. /\ queue'[s] = queue[s] \ {b}
      /\ \A t \in Sweeps \ {s} : queue'[t] = queue[t]
  BY <1>1 DEF RegistryInv, SweepsOK
<1>6. CASE a # b
  <2>1. row'[a] = row[a]
    BY <1>3, <1>6, MovesElsewhere
  <2>2. \A t \in Sweeps : Waits(t, a)' => Waits(t, a)
    BY <1>5 DEF Waits
  <2>3. \A t \in Sweeps : Reports(t, a)' => Reports(t, a) /\ late'[t][a] = late[t][a]
    BY <1>1 DEF Reports
  <2>4. \A q \in Calls : Holds(q, a)' => Holds(q, a) /\ call'[q] = call[q]
    BY <1>1 DEF Holds
  <2> QED
    BY <1>1, <2>1, <2>2, <2>3, <2>4, SoleKept
<1>7. CASE a = b
  <2>1. /\ \A q \in Calls : ~Holds(q, a)
        /\ \A t \in Sweeps : ~Reports(t, a)
        /\ \A t \in Sweeps \ {s} : ~Waits(t, a)
        /\ Low(row[a])
    BY <1>2, <1>7 DEF SoleAt, NotBoth, OneSweep, Waits
  <2>2. /\ \A q \in Calls : ~Holds(q, a)'
        /\ \A t \in Sweeps : /\ ~Reports(t, a)' /\ ~Waits(t, a)'
                             /\ late'[t][a].stage # "notified"
    BY <1>1, <1>5, <1>7, <2>1 DEF Holds, Reports, Waits
  <2>3. OneRequest(a)' /\ OneSweep(a)' /\ NotBoth(a)'
    BY <2>2 DEF OneRequest, OneSweep, NotBoth
  <2>4. row'[a] = r
    BY <1>3, <1>7, RowSet DEF RegistryInv
  <2>5. StampsTrue(row[a], told[a])
    BY DEF SoleAt
  <2>6. StampsTrue(row'[a], told'[a])
    BY <1>1, <1>4, <1>7, <2>1, <2>4, <2>5 DEF StampsTrue, Low, Threshold
  <2> QED
    BY <2>2, <2>3, <2>6 DEF SoleAt
<1> QED
  BY <1>6, <1>7

LEMMA SoleWatches ==
  ASSUME RegistryInv, Sole, RegistryNext,
         NEW a \in Assets, a \notin raced', row'[a].status # "absent",
         NEW s \in Sweeps, Watch(s)
  PROVE  SoleAt(a)'
<1>1. SoleAt(a)
  BY WatchKeeps, HistoryGrows DEF Sole
<1>2. SweepsOK /\ TablesOK
  BY DEF RegistryInv
<1>3. ASSUME UNCHANGED <<row, call, loan, told>>,
             \A t \in Sweeps : Reports(t, a)' => Reports(t, a) /\ late'[t][a] = late[t][a],
             \A t \in Sweeps : Waits(t, a)' => Waits(t, a)
      PROVE  SoleAt(a)'
  BY <1>1, <1>3, SoleKept DEF Holds
<1>4. CASE QueryOverdue(s)
  BY <1>1, <1>4, SoleQueriesOverdue
<1>5. CASE QueryLowStock(s)
  BY <1>1, <1>5, SoleQueriesLow
<1>6. CASE EndDaily(s)
  <2>1. /\ UNCHANGED <<row, call, queue, loan, told>>
        /\ late' = [late EXCEPT ![s] = [c \in Assets |-> NotLate]]
    BY <1>6 DEF EndDaily, history
  <2>2. /\ late'[s][a] = NotLate
        /\ \A t \in Sweeps \ {s} : late'[t] = late[t]
    BY <1>2, <2>1 DEF SweepsOK
  <2> QED
    BY <1>3, <2>1, <2>2 DEF Reports, Waits, NotLate
<1>7. CASE LowStockFails(s)
  <2>1. /\ UNCHANGED <<row, call, late, loan, told>>
        /\ queue' = [queue EXCEPT ![s] = {}]
    BY <1>7 DEF LowStockFails, history
  <2>2. queue'[s] = {} /\ \A t \in Sweeps \ {s} : queue'[t] = queue[t]
    BY <1>2, <2>1 DEF SweepsOK
  <2> QED
    BY <1>3, <2>1, <2>2 DEF Reports, Waits
<1>8. ASSUME NEW b \in Assets, OverdueFails(s, b)
      PROVE  SoleAt(a)'
  <2>1. /\ UNCHANGED <<row, call, queue, loan, told>> /\ Reports(s, b)
        /\ late' = [late EXCEPT ![s][b].stage = "failed"]
    BY <1>8 DEF OverdueFails, history, Reports
  <2>2. StampsTrue(row'[a], told'[a])
    BY <1>1, <2>1 DEF SoleAt
  <2> QED
    BY <1>1, <2>1, <2>2, SoleNotices
<1>9. ASSUME NEW b \in Assets, NotifyOverdue(s, b)
      PROVE  SoleAt(a)'
  <2>1. /\ UNCHANGED <<row, call, queue, loan>> /\ Reports(s, b)
        /\ late' = [late EXCEPT ![s][b].stage = "notified"]
        /\ told' = [told EXCEPT ![b] = @ \/ late[s][b].loan = loan[b]]
    BY <1>9 DEF NotifyOverdue, Reports
  <2>2. a # b => told'[a] = told[a]
    BY <1>2, <2>1 DEF TablesOK
  <2>3. a = b => told'[b]
    <3>1. a = b => late[s][b].loan = loan[b]
      BY <1>1, <2>1 DEF SoleAt
    <3> QED
      BY <1>2, <2>1, <3>1 DEF TablesOK
  <2>4. a = b => StampsTrue(row'[b], told'[b])
    BY <1>1, <2>1, <2>3 DEF SoleAt, StampsTrue
  <2> QED
    BY <1>1, <2>1, <2>2, <2>3, <2>4, SoleNotices
<1>10. ASSUME NEW b \in Assets, StampOverdue(s, b)
       PROVE  SoleAt(a)'
  <2> DEFINE r == [row[b] EXCEPT !.overdueStamped = TRUE]
  <2>1. /\ UNCHANGED <<call, queue, loan, told>> /\ Reports(s, b)
        /\ late[s][b].stage = "notified"
        /\ late' = [late EXCEPT ![s][b].stage = "done"]
        /\ row' = [row EXCEPT ![b] = OverdueStamp(@)]
    BY <1>10 DEF StampOverdue, history, Reports
  <2>2. row[b].status # "absent" /\ row[b] \in Row
    BY <1>2, <2>1 DEF SweepsOK, TablesOK
  <2>3. r \in Row /\ RowMoves(b, r)
    BY <2>1, <2>2, OverdueMoves
  <2>4. /\ r.status = row[b].status /\ r.quantity = row[b].quantity
        /\ r.reorder = row[b].reorder /\ r.lowStamped = row[b].lowStamped
    BY <2>2 DEF Row
  <2> HIDE DEF r
  <2>5. row'[b] = r
    BY <1>2, <2>3, RowSet
  <2>6. a # b => row'[a] = row[a]
    BY <2>3, MovesElsewhere
  <2>7. a = b => StampsTrue(row'[b], told'[b])
    <3>1. a = b => told[b] /\ StampsTrue(row[b], told[b])
      BY <1>1, <2>1 DEF SoleAt
    <3> QED
      BY <2>1, <2>4, <2>5, <3>1 DEF StampsTrue, Threshold
  <2> QED
    BY <1>1, <2>1, <2>6, <2>7, SoleNotices
<1>11. ASSUME NEW b \in Assets, AlertLine(s, b)
       PROVE  SoleAt(a)'
  BY <1>3, <1>11 DEF AlertLine, history, Reports, Waits
<1>12. ASSUME NEW b \in Assets, StampLine(s, b)
       PROVE  SoleAt(a)'
  BY <1>1, <1>12, SoleStampsLine
<1> QED
  BY <1>4, <1>5, <1>6, <1>7, <1>8, <1>9, <1>10, <1>11, <1>12
     DEF Watch, Work, Advance, Lose

LEMMA SoleStep ==
  ASSUME RegistryInv, Sole, [RegistryNext]_registryVars
  PROVE  Sole'
<1>1. CASE UNCHANGED registryVars
  <2> SUFFICES ASSUME NEW a \in Assets \ raced, row[a].status # "absent"
               PROVE  SoleAt(a)'
    BY <1>1 DEF registryVars, history, Sole
  <2>1. SoleAt(a)
    BY DEF Sole
  <2> QED
    BY <1>1, <2>1, SoleKept
       DEF registryVars, history, sweeping, Holds, Reports, Waits
<1> SUFFICES ASSUME RegistryNext, NEW a \in Assets, a \notin raced',
                    row'[a].status # "absent"
             PROVE  SoleAt(a)'
  BY <1>1 DEF Sole
<1>2. ASSUME NEW q \in Calls, Proceed(q)
      PROVE  SoleAt(a)'
  BY <1>2, SoleProceeds
<1>3. ASSUME NEW q \in Calls, NEW b \in Assets, Request(q, b)
      PROVE  SoleAt(a)'
  BY <1>3, SoleRequests
<1>4. ASSUME NEW s \in Sweeps, Watch(s)
      PROVE  SoleAt(a)'
  BY <1>4, SoleWatches
<1>5. ASSUME UNCHANGED <<row, loan, told>>,
             \A q \in Calls : Holds(q, a)' => Holds(q, a) /\ call'[q] = call[q],
             \A s \in Sweeps : Reports(s, a)' => Reports(s, a) /\ late'[s][a] = late[s][a],
             \A s \in Sweeps : Waits(s, a)' => Waits(s, a)
      PROVE  SoleAt(a)'
  <2>1. SoleAt(a)
    BY <1>5, HistoryGrows DEF Sole
  <2> QED
    BY <1>5, <2>1, SoleKept
<1>6. ASSUME NEW q \in Calls, CallFails(q)
      PROVE  SoleAt(a)'
  <2>1. /\ UNCHANGED <<row, loan, told, sweeping>>
        /\ \A p \in Calls \ {q} : call'[p] = call[p]
        /\ call'[q] = Idle
    BY <1>6 DEF CallFails, End, RegistryInv, CallsOK
  <2> QED
    BY <1>5, <2>1, IdleType DEF sweeping, Holds, Reports, Waits
<1>7. CASE Restart
  <2>1. /\ UNCHANGED <<row, loan, told>>
        /\ \A p \in Calls : call'[p] = Idle
        /\ \A s \in Sweeps : late'[s][a] = NotLate /\ queue'[s] = {}
    BY <1>7 DEF Restart
  <2> QED
    BY <1>5, <2>1, IdleType DEF Holds, Reports, Waits, NotLate
<1>8. CASE DayPasses
  BY <1>5, <1>8 DEF DayPasses, history, sweeping, Holds, Reports, Waits
<1> QED
  BY <1>2, <1>3, <1>4, <1>6, <1>7, <1>8 DEF RegistryNext

THEOREM SoleInductive == RegistrySpec => [](RegistryInv /\ Sole)
<1>1. RegistryInit => RegistryInv /\ Sole
  <2> SUFFICES ASSUME RegistryInit PROVE Sole
    BY RegistryInit_Inv
  <2>1. \A a \in Assets : row[a].status = "absent"
    BY NoRowType DEF RegistryInit, Started
  <2> QED
    BY <2>1 DEF Sole
<1>2. RegistryInv /\ Sole /\ RegistryInv' /\ [RegistryNext]_registryVars => Sole'
  BY SoleStep
<1> QED
  BY <1>1, <1>2, RegistryInductive, PTL DEF RegistrySpec

(* A low-stock stamp stays only while the line is low, over any number of  *)
(* PATCHes, draws and sweeps that do not overlap on it: update() re-arms   *)
(* on a new quantity and on a new reorder level alike, and the lifecycle,  *)
(* the hook and the watchers carry the stamp as they found it.             *)
THEOREM SilenceSafe == RegistrySpec => []SilencedOnlyWhileLow
<1>1. RegistryInv /\ Sole => SilencedOnlyWhileLow
  BY DEF SilencedOnlyWhileLow, Registered, Sole, SoleAt, StampsTrue
<1> QED
  BY <1>1, SoleInductive, PTL

(* An asset on loan carries the mark of the overdue watcher only if        *)
(* somebody was told about this very loan, over any number of returns,     *)
(* repairs and new loans.                                                  *)
THEOREM LoanReportSafe == RegistrySpec => []ReportedForThisLoan
<1>1. RegistryInv /\ Sole => ReportedForThisLoan
  BY DEF ReportedForThisLoan, Registered, Sole, SoleAt, StampsTrue
<1> QED
  BY <1>1, SoleInductive, PTL

=============================================================================
