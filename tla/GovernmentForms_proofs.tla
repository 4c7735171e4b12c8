------------------------ MODULE GovernmentForms_proofs ------------------------
(***************************************************************************)
(* Theorems about GovernmentForms, for any holdings, requisitions and      *)
(* people, any tables to start with and any number of orders and changes.  *)
(* They hold of every layout: no leaf looks into FormLayouts.              *)
(***************************************************************************)
EXTENDS GovernmentForms, SequenceTheorems, TLAPS

-----------------------------------------------------------------------------
(* The records and the archive only grow at their ends.                    *)
IsSequence(s) == \E S : s \in Seq(S)

LEMMA Appended ==
  ASSUME NEW s, NEW x, IsSequence(s)
  PROVE  /\ IsSequence(Append(s, x))
         /\ Len(s) \in Nat /\ Len(Append(s, x)) = Len(s) + 1
         /\ DOMAIN s = 1..Len(s) /\ DOMAIN Append(s, x) = 1..Len(s) + 1
         /\ \A i \in 1..Len(s) : Append(s, x)[i] = s[i]
         /\ Append(s, x)[Len(s) + 1] = x
<1>1. PICK S : s \in Seq(S)
  BY DEF IsSequence
<1>2. s \in Seq(S \cup {x})
  <2>1. s \in [1..Len(s) -> S] /\ Len(s) \in Nat
    BY <1>1, LenProperties
  <2>2. s \in [1..Len(s) -> S \cup {x}]
    BY <2>1
  <2> QED
    BY <2>1, <2>2, SeqDef, SMT
<1>3. /\ Append(s, x) \in Seq(S \cup {x})
      /\ Len(Append(s, x)) = Len(s) + 1
      /\ \A i \in 1..Len(s) : Append(s, x)[i] = s[i]
      /\ Append(s, x)[Len(s) + 1] = x
  BY <1>2, AppendProperties
<1>4. Len(s) \in Nat /\ DOMAIN s = 1..Len(s)
      /\ DOMAIN Append(s, x) = 1..Len(Append(s, x))
  BY <1>1, <1>3, LenProperties
<1> QED
  BY <1>3, <1>4 DEF IsSequence

-----------------------------------------------------------------------------
FormPlaces == {"records", "people", "save", "log", "answer"}

(* An order, whatever it asks for and has drawn.                           *)
HasFields(o) ==
  o \in [n: {o.n}, at: FormPlaces, heard: BOOLEAN, dto: {o.dto}, since: Nat \ {0},
         read: Nat, rows: {o.rows}, id: Nat]

(* It has read a state of the records that was there since it was made.    *)
IsOrder(o) ==
  /\ HasFields(o)
  /\ o.since <= o.read /\ o.read <= Len(ledger)
  /\ o.at \in {"log", "answer"} => o.id \in 1..Len(archive)

(* What it has drawn is what the form says of the records it has read.     *)
DrawnFromRead(o) ==
  o.at = "save" => o.rows = Rendered(o.dto, ledger[o.read])

StoredOfOneMoment(f) ==
  \E t \in f.since..f.until : /\ t \in 1..Len(ledger)
                              /\ f.rows = Rendered(f.dto, ledger[t])

AllOfOneMoment ==
  \A id \in 1..Len(archive) : StoredOfOneMoment(archive[id])

FormsInv ==
  /\ IsSequence(ledger) /\ Len(ledger) >= 1
  /\ IsSequence(archive)
  /\ \A o \in orders : IsOrder(o) /\ DrawnFromRead(o)
  /\ AllOfOneMoment

(* The page waits for one order at most, and knows what it may know.       *)
PageInv ==
  /\ selectedForm \in Offered \cup {NoForm}
  /\ generating \in BOOLEAN
  /\ \A o, p \in orders : o.heard /\ p.heard => o = p
  /\ generating <=> \E o \in orders : o.heard
  /\ logged \cup obtained \subseteq 1..Len(archive)

LEMMA InitForms ==
  ASSUME NEW tables, FormsInit(tables)
  PROVE  FormsInv /\ PageInv
<1>1. PICK records \in tables : ledger = <<records>>
  BY DEF FormsInit
<1>2. IsSequence(ledger) /\ Len(ledger) = 1
  <2>1. ledger \in Seq({records}) /\ Len(ledger) = 1
    BY <1>1
  <2> QED
    BY <2>1 DEF IsSequence
<1>3. IsSequence(archive) /\ Len(archive) = 0
  <2>1. archive = <<>> /\ <<>> \in Seq({}) /\ Len(<<>>) = 0
    BY DEF FormsInit
  <2> QED
    BY <2>1 DEF IsSequence
<1>4. /\ orders = {} /\ logged = {} /\ obtained = {}
      /\ selectedForm = NoForm /\ generating = FALSE
  BY DEF FormsInit
<1>5. AllOfOneMoment
  BY <1>3 DEF AllOfOneMoment
<1>6. FormsInv
  BY <1>2, <1>3, <1>4, <1>5 DEF FormsInv
<1>7. PageInv
  BY <1>4 DEF PageInv
<1> QED
  BY <1>6, <1>7

-----------------------------------------------------------------------------
(* No step takes back what the records or the archive have been.           *)
Grow ==
  /\ IsSequence(ledger') /\ IsSequence(archive')
  /\ Len(ledger) \in Nat /\ Len(ledger') \in Nat /\ Len(ledger) <= Len(ledger')
  /\ Len(archive) \in Nat /\ Len(archive') \in Nat /\ Len(archive) <= Len(archive')
  /\ \A t \in 1..Len(ledger) : ledger'[t] = ledger[t]
  /\ \A id \in 1..Len(archive) : archive'[id] = archive[id]

LEMMA NothingGrows ==
  ASSUME FormsInv, UNCHANGED <<ledger, archive>>
  PROVE  Grow
<1>1. Len(ledger) \in Nat /\ Len(archive) \in Nat
  BY Appended DEF FormsInv
<1> QED
  BY <1>1 DEF Grow, FormsInv

(* What was true of an order, and of a stored form, stays true.            *)
LEMMA OrderStays ==
  ASSUME Grow, NEW o, IsOrder(o), DrawnFromRead(o)
  PROVE  (IsOrder(o) /\ DrawnFromRead(o))'
<1>1. /\ o.since \in Nat \ {0} /\ o.read \in Nat /\ o.id \in Nat
      /\ o.since <= o.read /\ o.read <= Len(ledger)
  BY DEF IsOrder, HasFields
<1>2. o.read <= Len(ledger') /\ ledger'[o.read] = ledger[o.read]
  BY <1>1 DEF Grow
<1>3. o.id \in 1..Len(archive) => o.id \in 1..Len(archive')
  BY <1>1 DEF Grow
<1>4. HasFields(o)
  BY DEF IsOrder
<1>5. IsOrder(o)'
  BY <1>1, <1>2, <1>3, <1>4 DEF IsOrder
<1>6. DrawnFromRead(o)'
  BY <1>2 DEF DrawnFromRead
<1> QED
  BY <1>5, <1>6

LEMMA StoredStays ==
  ASSUME Grow, NEW f, StoredOfOneMoment(f)
  PROVE  StoredOfOneMoment(f)'
<1>1. PICK t \in f.since..f.until : /\ t \in 1..Len(ledger)
                                    /\ f.rows = Rendered(f.dto, ledger[t])
  BY DEF StoredOfOneMoment
<1>2. t \in 1..Len(ledger') /\ ledger'[t] = ledger[t]
  BY <1>1 DEF Grow
<1> QED
  BY <1>1, <1>2 DEF StoredOfOneMoment

LEMMA AllStay ==
  ASSUME FormsInv, Grow, UNCHANGED archive
  PROVE  AllOfOneMoment'
BY StoredStays DEF FormsInv, AllOfOneMoment

LEMMA OrdersStay ==
  ASSUME FormsInv, Grow
  PROVE  \A o \in orders : (IsOrder(o) /\ DrawnFromRead(o))'
BY OrderStays DEF FormsInv

LEMMA LedgerStays ==
  ASSUME FormsInv, Grow
  PROVE  IsSequence(ledger') /\ Len(ledger') >= 1 /\ IsSequence(archive')
BY DEF FormsInv, Grow

-----------------------------------------------------------------------------
(* An order that goes on in place of itself, with nothing else moving.     *)
LEMMA StepKeeps ==
  ASSUME FormsInv, PageInv, NEW o \in orders, NEW next, Step(o, next),
         IsOrder(next), DrawnFromRead(next), next.heard = o.heard,
         UNCHANGED <<ledger, archive, selectedForm, generating, obtained>>,
         logged' \subseteq 1..Len(archive)
  PROVE  FormsInv' /\ PageInv'
<1>1. orders' = (orders \ {o}) \cup {next}
  BY DEF Step
<1>0. Grow
  BY NothingGrows
<1>5. (IsOrder(next) /\ DrawnFromRead(next))'
  BY <1>0, OrderStays
<1>2. \A p \in orders' : (IsOrder(p) /\ DrawnFromRead(p))'
  BY <1>0, <1>1, <1>5, OrdersStay
<1>3. FormsInv'
  BY <1>0, <1>2, AllStay, LedgerStays DEF FormsInv
<1>4. /\ \A p, q \in orders' : p.heard /\ q.heard => p = q
      /\ generating' <=> \E p \in orders' : p.heard
  BY <1>1 DEF PageInv
<1> QED
  BY <1>3, <1>4 DEF PageInv

(* An order that ends, or that the page gives up.                          *)
LEMMA OrderEnds ==
  ASSUME FormsInv, PageInv, NEW o \in orders,
         orders' = orders \ {o}, generating' = (generating /\ ~o.heard),
         UNCHANGED <<ledger, archive, selectedForm, logged>>,
         obtained' \subseteq 1..Len(archive)
  PROVE  FormsInv' /\ PageInv'
<1>0. Grow
  BY NothingGrows
<1>1. FormsInv'
  BY <1>0, OrdersStay, AllStay, LedgerStays DEF FormsInv
<1>2. o.heard \in BOOLEAN
  BY DEF FormsInv, IsOrder, HasFields
<1>3. generating' \in BOOLEAN
  BY <1>2 DEF PageInv
<1>4. generating' <=> \E p \in orders' : p.heard
  BY <1>2 DEF PageInv
<1> QED
  BY <1>1, <1>3, <1>4 DEF PageInv

LEMMA GenerateKeeps ==
  ASSUME FormsInv, PageInv, NEW about, NEW p, Generate(about, p)
  PROVE  FormsInv' /\ PageInv'
<1>0. PICK new : new =
       [n |-> ordered + 1, at |-> "records", heard |-> TRUE,
        dto |-> [form |-> selectedForm, about |-> about, returnee |-> p],
        since |-> Len(ledger), read |-> Len(ledger), rows |-> {}, id |-> 0]
  OBVIOUS
<1>1. Len(ledger) \in Nat \ {0}
  BY Appended DEF FormsInv
<1>2. IsOrder(new) /\ DrawnFromRead(new) /\ new.heard
  <2>1. HasFields(new) /\ new.since = Len(ledger) /\ new.read = Len(ledger)
        /\ new.at = "records" /\ new.heard
    BY <1>0, <1>1 DEF HasFields, FormPlaces
  <2> QED
    BY <1>1, <2>1 DEF IsOrder, DrawnFromRead
<1>3. /\ orders' = orders \cup {new} /\ generating' = TRUE /\ ~generating
      /\ UNCHANGED <<ledger, selectedForm, archive, logged, obtained>>
  BY <1>0 DEF Generate
<1>4. FormsInv'
  <2>1. Grow
    BY <1>3, NothingGrows
  <2>2. (IsOrder(new) /\ DrawnFromRead(new))'
    BY <1>2, <2>1, OrderStays
  <2> QED
    BY <1>3, <2>1, <2>2, OrdersStay, AllStay, LedgerStays DEF FormsInv
<1>5. /\ \A q, r \in orders' : q.heard /\ r.heard => q = r
      /\ \E q \in orders' : q.heard
  BY <1>2, <1>3 DEF PageInv
<1> QED
  BY <1>3, <1>4, <1>5 DEF PageInv

LEMMA ReadRecordsKeeps ==
  ASSUME FormsInv, PageInv, NEW o \in orders, ReadRecords(o)
  PROVE  FormsInv' /\ PageInv'
<1> DEFINE next == [o EXCEPT !.at = "people", !.read = Len(ledger)]
<1>1. IsOrder(o) /\ Len(ledger) \in Nat
  BY Appended DEF FormsInv
<1>2. /\ HasFields(next) /\ next.at = "people" /\ next.read = Len(ledger)
      /\ next.since = o.since /\ next.heard = o.heard
  BY <1>1 DEF IsOrder, HasFields, FormPlaces
<1>3. IsOrder(next) /\ DrawnFromRead(next) /\ next.heard = o.heard
  BY <1>1, <1>2 DEF IsOrder, HasFields, DrawnFromRead
<1>4. /\ Step(o, next)
      /\ UNCHANGED <<ledger, archive, selectedForm, generating, obtained>>
      /\ logged' \subseteq 1..Len(archive)
  BY DEF ReadRecords, PageInv
<1> HIDE DEF next
<1> QED
  BY <1>3, <1>4, StepKeeps

(* The people are taken from the rows that were read: the form is that of  *)
(* the moment of reading.                                                  *)
LEMMA ReadPeopleKeeps ==
  ASSUME FormsInv, PageInv, NEW o \in orders, ReadPeople(o)
  PROVE  FormsInv' /\ PageInv'
<1> DEFINE next == [o EXCEPT !.at = "save", !.rows = RowsOf(o)]
<1>1. IsOrder(o)
  BY DEF FormsInv
<1>2. /\ HasFields(next) /\ next.at = "save" /\ next.read = o.read
      /\ next.since = o.since /\ next.heard = o.heard /\ next.dto = o.dto
      /\ next.rows = RowsOf(o)
  BY <1>1 DEF IsOrder, HasFields, FormPlaces
<1>3. RowsOf(o) = Rendered(o.dto, ledger[o.read])
  BY DEF RowsOf, ReadThen, Rendered
<1>4. IsOrder(next) /\ DrawnFromRead(next) /\ next.heard = o.heard
  BY <1>1, <1>2, <1>3 DEF IsOrder, DrawnFromRead
<1>5. /\ Step(o, next)
      /\ UNCHANGED <<ledger, archive, selectedForm, generating, obtained>>
      /\ logged' \subseteq 1..Len(archive)
  BY DEF ReadPeople, PageInv
<1> HIDE DEF next
<1> QED
  BY <1>4, <1>5, StepKeeps

LEMMA SaveFormKeeps ==
  ASSUME FormsInv, PageInv, NEW o \in orders, SaveForm(o)
  PROVE  FormsInv' /\ PageInv'
<1>01. PICK next : next = [o EXCEPT !.at = "log", !.id = Len(archive) + 1]
  OBVIOUS
<1>02. PICK stored : stored = [dto |-> o.dto, rows |-> o.rows, since |-> o.since,
                               until |-> Len(ledger)]
  OBVIOUS
<1>1. /\ IsOrder(o) /\ DrawnFromRead(o) /\ o.at = "save"
      /\ Len(ledger) \in Nat /\ Len(archive) \in Nat
  BY Appended DEF FormsInv, SaveForm
<1>2. /\ HasFields(next) /\ next.at = "log" /\ next.read = o.read
      /\ next.since = o.since /\ next.heard = o.heard
      /\ next.id = Len(archive) + 1
  <2>1. Len(archive) + 1 \in Nat /\ "log" \in FormPlaces
    BY <1>1 DEF FormPlaces
  <2> QED
    BY <1>01, <1>1, <2>1 DEF IsOrder, HasFields
<1>3. stored.dto = o.dto /\ stored.rows = o.rows /\ stored.since = o.since
      /\ stored.until = Len(ledger)
  BY <1>02
<1>4. /\ archive' = Append(archive, stored)
      /\ orders' = (orders \ {o}) \cup {next}
      /\ UNCHANGED <<ledger, selectedForm, generating, logged, obtained>>
  BY <1>01, <1>02 DEF SaveForm, Step
<1>5. /\ IsSequence(archive') /\ Len(archive') = Len(archive) + 1
      /\ \A id \in 1..Len(archive) : archive'[id] = archive[id]
      /\ archive'[Len(archive) + 1] = stored
  BY <1>4, Appended DEF FormsInv
<1>6. Grow
  BY <1>1, <1>4, <1>5 DEF Grow, FormsInv
<1>7. (IsOrder(next) /\ DrawnFromRead(next))'
  BY <1>1, <1>2, <1>4, <1>5 DEF IsOrder, DrawnFromRead
<1>8. StoredOfOneMoment(stored)
  <2>1. /\ o.since \in Nat \ {0} /\ o.read \in Nat
        /\ o.since <= o.read /\ o.read <= Len(ledger)
        /\ o.rows = Rendered(o.dto, ledger[o.read])
    BY <1>1 DEF IsOrder, HasFields, DrawnFromRead
  <2>2. o.read \in stored.since..stored.until /\ o.read \in 1..Len(ledger)
    BY <1>1, <1>3, <2>1
  <2> QED
    BY <1>3, <2>1, <2>2 DEF StoredOfOneMoment
<1>9. AllOfOneMoment'
  <2>1. ASSUME NEW id \in 1..Len(archive'), NEW f, f = archive'[id]
        PROVE  StoredOfOneMoment(f)'
    <3>1. StoredOfOneMoment(f)
      <4>1. CASE id \in 1..Len(archive)
        BY <1>5, <2>1, <4>1 DEF FormsInv, AllOfOneMoment
      <4>2. CASE id = Len(archive) + 1
        BY <1>5, <1>8, <2>1, <4>2
      <4> QED
        BY <1>1, <1>5, <4>1, <4>2
    <3> QED
      BY <1>6, <3>1, StoredStays
  <2> QED
    BY <2>1 DEF AllOfOneMoment, StoredOfOneMoment
<1>10. FormsInv'
  BY <1>4, <1>6, <1>7, <1>9, OrdersStay, LedgerStays DEF FormsInv
<1>11. /\ \A p, q \in orders' : p.heard /\ q.heard => p = q
       /\ generating' <=> \E p \in orders' : p.heard
  BY <1>2, <1>4 DEF PageInv
<1>12. (logged \cup obtained)' \subseteq 1..Len(archive')
  BY <1>1, <1>4, <1>5 DEF PageInv
<1> QED
  BY <1>4, <1>10, <1>11, <1>12 DEF PageInv

LEMMA LogFormKeeps ==
  ASSUME FormsInv, PageInv, NEW o \in orders, LogForm(o)
  PROVE  FormsInv' /\ PageInv'
<1> DEFINE next == [o EXCEPT !.at = "answer"]
<1>1. IsOrder(o) /\ o.at = "log"
  BY DEF FormsInv, LogForm
<1>2. /\ HasFields(next) /\ next.at = "answer" /\ next.read = o.read
      /\ next.since = o.since /\ next.heard = o.heard /\ next.id = o.id
  BY <1>1 DEF IsOrder, HasFields, FormPlaces
<1>3. IsOrder(next) /\ DrawnFromRead(next) /\ next.heard = o.heard
  BY <1>1, <1>2 DEF IsOrder, HasFields, DrawnFromRead
<1>4. /\ Step(o, next)
      /\ UNCHANGED <<ledger, archive, selectedForm, generating, obtained>>
  BY DEF LogForm
<1>5. logged' \subseteq 1..Len(archive)
  BY <1>1 DEF LogForm, PageInv, IsOrder
<1> HIDE DEF next
<1> QED
  BY <1>3, <1>4, <1>5, StepKeeps

LEMMA LoseContactKeeps ==
  ASSUME FormsInv, PageInv, NEW o \in orders, LoseContact(o)
  PROVE  FormsInv' /\ PageInv'
<1> DEFINE next == [o EXCEPT !.heard = FALSE]
<1>1. IsOrder(o) /\ DrawnFromRead(o) /\ o.heard
  BY DEF FormsInv, LoseContact
<1>2. /\ HasFields(next) /\ next.at = o.at /\ next.read = o.read
      /\ next.since = o.since /\ ~next.heard /\ next.id = o.id
      /\ next.dto = o.dto /\ next.rows = o.rows
  BY <1>1 DEF IsOrder, HasFields, FormPlaces
<1>3. IsOrder(next) /\ DrawnFromRead(next) /\ ~next.heard
  BY <1>1, <1>2 DEF IsOrder, DrawnFromRead
<1>4. /\ orders' = (orders \ {o}) \cup {next} /\ generating' = FALSE
      /\ UNCHANGED <<ledger, archive, selectedForm, logged, obtained>>
  BY DEF LoseContact, Step
<1> HIDE DEF next
<1>5. FormsInv'
  <2>1. Grow
    BY <1>4, NothingGrows
  <2>2. (IsOrder(next) /\ DrawnFromRead(next))'
    BY <1>3, <2>1, OrderStays
  <2> QED
    BY <1>4, <2>1, <2>2, OrdersStay, AllStay, LedgerStays DEF FormsInv
<1>6. \A p \in orders' : ~p.heard
  BY <1>1, <1>3, <1>4 DEF PageInv
<1> QED
  BY <1>4, <1>5, <1>6 DEF PageInv

(* A record that changes leaves the moments before it as they were.        *)
LEMMA MoveKeeps ==
  ASSUME FormsInv, PageInv, NEW r, NEW row, Move(r, row)
  PROVE  FormsInv' /\ PageInv'
<1>1. ledger' = Append(ledger, [Tables EXCEPT ![r] = row])
  BY DEF Move
<1>2. UNCHANGED <<selectedForm, generating, orders, ordered, archive, logged, obtained>>
  BY DEF Move
<1>3. /\ IsSequence(ledger') /\ Len(ledger') = Len(ledger) + 1
      /\ Len(ledger) \in Nat
      /\ \A t \in 1..Len(ledger) : ledger'[t] = ledger[t]
  BY <1>1, Appended DEF FormsInv
<1>4. Len(archive) \in Nat
  BY Appended DEF FormsInv
<1>5. Grow
  BY <1>2, <1>3, <1>4 DEF Grow, FormsInv
<1>6. FormsInv'
  BY <1>2, <1>5, OrdersStay, AllStay, LedgerStays DEF FormsInv
<1> QED
  BY <1>2, <1>6 DEF PageInv

LEMMA NextForms ==
  FormsInv /\ PageInv /\ [FormsNext]_formsVars => FormsInv' /\ PageInv'
<1> SUFFICES ASSUME FormsInv, PageInv, [FormsNext]_formsVars
             PROVE  FormsInv' /\ PageInv'
  OBVIOUS
<1>0. ASSUME UNCHANGED <<ledger, archive, orders>> PROVE FormsInv'
  BY <1>0, NothingGrows, OrdersStay, AllStay, LedgerStays DEF FormsInv
<1>1. ASSUME NEW form \in Offered, SelectForm(form) PROVE FormsInv' /\ PageInv'
  BY <1>0, <1>1 DEF SelectForm, PageInv
<1>2. ASSUME NEW o \in orders, FormComes(o) PROVE FormsInv' /\ PageInv'
  <2>1. o.at = "answer" /\ o.id \in 1..Len(archive)
    BY <1>2 DEF FormComes, FormsInv, IsOrder
  <2> QED
    BY <1>2, <2>1, OrderEnds DEF FormComes, PageInv
<1>3. ASSUME NEW o \in orders, FormFails(o) PROVE FormsInv' /\ PageInv'
  BY <1>3, OrderEnds DEF FormFails, PageInv
<1>4. ASSUME NEW id, DownloadStored(id) PROVE FormsInv' /\ PageInv'
  <2>1. id \in 1..Len(archive)
    BY <1>4, Appended DEF DownloadStored, FormsInv
  <2> QED
    BY <1>0, <1>4, <2>1 DEF DownloadStored, PageInv
<1>5. CASE \/ (\E a \in Holdings :
                 \/ \E to \in Reached, p \in People \cup {Nobody} :
                      LifecycleMoves(a, to, p)
                 \/ \E column \in Amended, text \in Texts : Amend(a, column, text))
           \/ (\E s \in Slips : \/ \E p \in People : HandOn(s, p)
                                \/ \E supplied \in BOOLEAN : Fulfil(s, supplied))
  BY <1>5, MoveKeeps DEF LifecycleMoves, Amend, HandOn, Fulfil
<1>6. CASE UNCHANGED formsVars
  BY <1>0, <1>6 DEF formsVars, PageInv
<1> QED
  BY <1>1, <1>2, <1>3, <1>4, <1>5, <1>6, GenerateKeeps, ReadRecordsKeeps,
     ReadPeopleKeeps, SaveFormKeeps, LogFormKeeps, LoseContactKeeps
     DEF FormsNext

(* Whatever the layouts are, a stored form is true of one moment between   *)
(* its order and its storing, though the records change between the        *)
(* awaits.                                                                 *)
THEOREM OneMoment ==
  ASSUME NEW tables PROVE FormsSpec(tables) => []FormOfOneMoment
<1>1. FormsInit(tables) => FormsInv /\ PageInv
  BY InitForms
<1>2. FormsInv => FormOfOneMoment
  <2> SUFFICES ASSUME FormsInv, NEW id \in DOMAIN archive
               PROVE  \E t \in archive[id].since..archive[id].until :
                        archive[id].rows = Rendered(archive[id].dto, ledger[t])
    BY DEF FormOfOneMoment
  <2>1. id \in 1..Len(archive)
    BY Appended DEF FormsInv
  <2> QED
    BY <2>1 DEF FormsInv, AllOfOneMoment, StoredOfOneMoment
<1> QED
  BY <1>1, <1>2, NextForms, PTL DEF FormsSpec

(* The page waits exactly while an order it has not given up is at work,   *)
(* and nobody has got a form that is not stored.                           *)
THEOREM PageWaitsForOrders ==
  ASSUME NEW tables PROVE FormsSpec(tables) => []FormsTypeOK
<1>1. FormsInit(tables) => FormsInv /\ PageInv
  BY InitForms
<1>2. FormsInv /\ PageInv => FormsTypeOK
  <2> SUFFICES ASSUME FormsInv, PageInv PROVE FormsTypeOK
    OBVIOUS
  <2>1. DOMAIN archive = 1..Len(archive)
    BY Appended DEF FormsInv
  <2> QED
    BY <2>1 DEF FormsInv, PageInv, IsOrder, HasFields, FormsTypeOK
<1> QED
  BY <1>1, <1>2, NextForms, PTL DEF FormsSpec
=============================================================================
