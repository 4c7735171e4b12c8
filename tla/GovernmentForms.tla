---------------------------- MODULE GovernmentForms ----------------------------
(***************************************************************************)
(* The COA forms: the page on which a custodian orders one                 *)
(* (FormsGeneratorContent), the service that reads the records await by    *)
(* await, renders the form, archives it and logs it (generateForm), and    *)
(* the archive it is downloaded from later.  Holdings are issued, returned *)
(* and amended meanwhile and requisitions handed on and fulfilled, a       *)
(* request fails at any step, and one the page has given up may be at work *)
(* still.                                                                  *)
(*                                                                         *)
(* What a form says of each record in it is its layout (FormLayouts).  The *)
(* period of a batch form and the texts of the page are left out.          *)
(***************************************************************************)
EXTENDS Naturals, FormLayouts, AimrsVocabulary

CONSTANTS
  Holdings,   \* assets
  ClassOf,    \* [Holdings -> "PPE", "SEP" or "IES"]
  Slips,      \* requisitions
  People,     \* who hold, return, request and approve
  Clerk,      \* the user of the page, who issues
  Nobody,
  Unknown,    \* an identifier that nothing and nobody has
  NoForm,
  Offered,    \* bound: the forms the page offers
  Returnees,  \* bound: who is named as the returnee of a receipt
  Reached,    \* bound: the statuses other users lead an asset to
  Amended,    \* bound: the columns of an asset other users amend
  Texts,      \* what they write there
  MaxMoves,   \* bound on the changes of the records
  MaxOrders   \* bound on the forms ordered

ASSUME FormsAssumption ==
  /\ ClassOf \in [Holdings -> {"PPE", "SEP", "IES"}]
  /\ Holdings \cap Slips = {}
  /\ Unknown \notin Holdings \cup Slips \cup People
  /\ Nobody \notin People \cup {Unknown, Clerk}
  /\ NoForm \notin Offered
  /\ Returnees \subseteq People \cup {Nobody, Unknown}
  /\ MaxMoves \in Nat /\ MaxOrders \in Nat

VARIABLES
  ledger,       \* the records, as they have been: [Holdings \cup Slips -> row]
  selectedForm, \* the radio button
  generating,   \* the page waits for a form
  orders,       \* requests at work
  ordered,      \* requests so far
  archive,      \* generated_forms
  logged,       \* rows of it that the audit log knows
  obtained      \* history: the stored forms the user has got

formsVars ==
  <<ledger, selectedForm, generating, orders, ordered, archive, logged, obtained>>

-----------------------------------------------------------------------------
(* FORM_CONFIGS, and what generateForm reads for each form.                *)
Receipts == {"RECEIPT_RETURNED_PROPERTY", "RECEIPT_RETURNED_SEP"}
AssetForms ==
  Receipts \cup {"PAR", "ICS", "PTR", "IIRUP", "RLSDDP", "STICKER_CARD", "IAR",
                 "MOVE_IN", "MOVE_OUT"}
BatchForms == {"RSMI", "RSPI", "RPCI", "RPCPPE", "WMR", "ANNEX_A4"}
FormTypes == DOMAIN Layouts

(* The records an order may be about: its group has the input for it.      *)
Inputs(form) ==
  CASE form \in AssetForms -> Holdings \cup {Unknown}
    [] form = "RIS"        -> Slips \cup {Unknown}
    [] OTHER               -> {Unknown}

InBatch(form, r, records) ==
  CASE form = "RSMI" -> r \in Slips /\ records[r].fulfilled
    [] form = "WMR"  -> r \in Holdings /\ records[r].status = "disposed"
    [] form = "RSPI" ->
         r \in Holdings /\ ClassOf[r] = "SEP" /\ records[r].status = "issued"
    [] form = "RPCI"     -> r \in Holdings /\ ClassOf[r] \in {"IES", "SEP"}
    [] form = "RPCPPE"   -> r \in Holdings /\ ClassOf[r] = "PPE"
    [] form = "ANNEX_A4" -> r \in Holdings /\ ClassOf[r] = "SEP"

(* The records the form is about.                                          *)
Subjects(dto, records) ==
  IF dto.form \in BatchForms
  THEN {r \in DOMAIN records : InBatch(dto.form, r, records)}
  ELSE {dto.about} \cap DOMAIN records

(* Who stands for a part in the matter; nobody, where it is left open.     *)
Person(dto, row, part) ==
  CASE part \in {"custodian", "requester", "supervisor"} -> row[part]
    [] part = "returnee" ->
         IF dto.returnee = Nobody THEN row.custodian ELSE dto.returnee
    [] part = "issuer" -> Clerk
    [] part = ByHand   -> Nobody

(* What the form says of a record: people from one row of it, columns from *)
(* another, which should be the same.                                      *)
Said(dto, r, row, people) ==
  LET layout == Layouts[dto.form] IN
  [record |-> r,
   signed |-> [i \in DOMAIN layout.signs |-> Person(dto, people, layout.signs[i])],
   named  |-> {Person(dto, people, part) : part \in layout.names},
   shown  |-> [c \in layout.shows |-> row[c]]]

Rendered(dto, records) ==
  {Said(dto, r, records[r], records[r]) : r \in Subjects(dto, records)}

Tables == ledger[Len(ledger)]

-----------------------------------------------------------------------------
(* The page: the radio buttons stay open while it waits.                   *)
SelectForm(form) ==
  /\ selectedForm # form
  /\ selectedForm' = form
  /\ UNCHANGED <<ledger, generating, orders, ordered, archive, logged, obtained>>

(* handleGenerate(): the dto has the inputs of the form's group, which are *)
(* free texts and may stem from an earlier order.                          *)
Generate(about, returnee) ==
  LET form == selectedForm IN
  /\ form # NoForm /\ ~generating
  /\ about \in Inputs(form)
  /\ form \in Receipts \/ returnee = Nobody
  /\ ordered < MaxOrders
  /\ generating' = TRUE
  /\ ordered' = ordered + 1
  /\ orders' = orders \cup
       {[n |-> ordered + 1, at |-> "records", heard |-> TRUE,
         dto |-> [form |-> form, about |-> about, returnee |-> returnee],
         since |-> Len(ledger), read |-> Len(ledger), rows |-> {}, id |-> 0]}
  /\ UNCHANGED <<ledger, selectedForm, archive, logged, obtained>>

-----------------------------------------------------------------------------
Step(o, next) == orders' = (orders \ {o}) \cup {next}

(* getAsset(), the requisition of a RIS, or the query of a batch form.     *)
ReadRecords(o) ==
  /\ o.at = "records"
  /\ o.dto.form \notin BatchForms => o.dto.about # Unknown
  /\ Step(o, [o EXCEPT !.at = "people", !.read = Len(ledger)])
  /\ UNCHANGED <<ledger, selectedForm, generating, ordered, archive, logged, obtained>>

(* getCustodian() and getUser() follow the row that was read.  A form that *)
(* a custodian signs is refused for an asset without one, and a receipt    *)
(* cannot be drawn for a returnee who is unknown.                          *)
Holder(dto, row) ==
  /\ dto.form \in AssetForms /\ Signs(dto.form, "custodian") =>
       row.custodian # Nobody
  /\ dto.form \in Receipts =>
       IF dto.returnee = Nobody THEN row.custodian # Nobody
       ELSE dto.returnee # Unknown

ReadNow(o) == Tables   \* mutant: the people are looked up anew

ReadThen(o) == ledger[o.read]

RowsOf(o) ==
  LET then == ledger[o.read] IN
  {Said(o.dto, r, then[r], ReadThen(o)[r]) : r \in Subjects(o.dto, then)}

ReadPeople(o) ==
  /\ o.at = "people"
  /\ \A r \in Subjects(o.dto, ledger[o.read]) : Holder(o.dto, ReadThen(o)[r])
  /\ Step(o, [o EXCEPT !.at = "save", !.rows = RowsOf(o)])
  /\ UNCHANGED <<ledger, selectedForm, generating, ordered, archive, logged, obtained>>

(* The form is rendered and its row stored, with the file; then logged.    *)
SaveForm(o) ==
  /\ o.at = "save"
  /\ archive' = Append(archive, [dto |-> o.dto, rows |-> o.rows,
                                 since |-> o.since, until |-> Len(ledger)])
  /\ Step(o, [o EXCEPT !.at = "log", !.id = Len(archive) + 1])
  /\ UNCHANGED <<ledger, selectedForm, generating, ordered, logged, obtained>>

LogForm(o) ==
  /\ o.at = "log"
  /\ logged' = logged \cup {o.id}
  /\ Step(o, [o EXCEPT !.at = "answer"])
  /\ UNCHANGED <<ledger, selectedForm, generating, ordered, archive, obtained>>

(* The file comes: the one stored, under the name of the form it was       *)
(* ordered as.                                                             *)
FormComes(o) ==
  /\ o.at = "answer"
  /\ orders' = orders \ {o}
  /\ obtained' = obtained \cup (IF o.heard THEN {o.id} ELSE {})
  /\ generating' = (generating /\ ~o.heard)
  /\ UNCHANGED <<ledger, selectedForm, ordered, archive, logged>>

(* Not found, refused, crashed: the page says so, and may order again.     *)
FormFails(o) ==
  /\ orders' = orders \ {o}
  /\ generating' = (generating /\ ~o.heard)
  /\ UNCHANGED <<ledger, selectedForm, ordered, archive, logged, obtained>>

(* The connection is lost; the server goes on.                             *)
LoseContact(o) ==
  /\ o.heard
  /\ Step(o, [o EXCEPT !.heard = FALSE])
  /\ generating' = FALSE
  /\ UNCHANGED <<ledger, selectedForm, ordered, archive, logged, obtained>>

(* FormsArchiveContent lists the stored forms and downloads them: a row    *)
(* stays once it is listed.                                                *)
DownloadStored(id) ==
  /\ id \in DOMAIN archive
  /\ obtained' = obtained \cup {id}
  /\ UNCHANGED <<ledger, selectedForm, generating, orders, ordered, archive, logged>>

-----------------------------------------------------------------------------
(* The other users: updateLifecycle() and update() of an asset, the        *)
(* hand-off of a requisition to an alternate, its fulfilment.              *)
Move(r, row) ==
  /\ Len(ledger) <= MaxMoves
  /\ ledger' = Append(ledger, [Tables EXCEPT ![r] = row])
  /\ UNCHANGED <<selectedForm, generating, orders, ordered, archive, logged, obtained>>

LifecycleMoves(a, to, p) ==
  LET row == Tables[a]
      custodian == CASE to \in {"returned", "disposed"} -> Nobody
                     [] to = "issued" /\ p # Nobody -> p
                     [] OTHER -> row.custodian
  IN
  /\ to \in AssetLifecycleTransitions[row.status] \cap Reached
  /\ Move(a, [row EXCEPT !.status = to, !.custodian = custodian])

Amend(a, column, text) ==
  /\ Tables[a][column] # text
  /\ Move(a, [Tables[a] EXCEPT ![column] = text])

HandOn(s, p) ==
  /\ Tables[s].supervisor \notin {p, Nobody}
  /\ Move(s, [Tables[s] EXCEPT !.supervisor = p])

Fulfil(s, supplied) ==
  /\ ~Tables[s].fulfilled
  /\ Move(s, [Tables[s] EXCEPT !.fulfilled = TRUE, !.supplied = supplied])

(* What the tables start with.                                             *)
FormsInit(tables) ==
  /\ \E records \in tables : ledger = <<records>>
  /\ selectedForm = NoForm
  /\ generating = FALSE
  /\ orders = {} /\ ordered = 0
  /\ archive = <<>> /\ logged = {} /\ obtained = {}

FormsNext ==
  \/ \E form \in Offered : SelectForm(form)
  \/ \E about \in Holdings \cup Slips \cup {Unknown},
        p \in Returnees : Generate(about, p)
  \/ \E o \in orders :
       \/ ReadRecords(o) \/ ReadPeople(o) \/ SaveForm(o) \/ LogForm(o)
       \/ FormComes(o) \/ FormFails(o) \/ LoseContact(o)
  \/ \E id \in 1..MaxOrders : DownloadStored(id)
  \/ \E a \in Holdings :
       \/ \E to \in Reached, p \in People \cup {Nobody} : LifecycleMoves(a, to, p)
       \/ \E column \in Amended, text \in Texts : Amend(a, column, text)
  \/ \E s \in Slips :
       \/ \E p \in People : HandOn(s, p)
       \/ \E supplied \in BOOLEAN : Fulfil(s, supplied)

FormsSpec(tables) == FormsInit(tables) /\ [][FormsNext]_formsVars

-----------------------------------------------------------------------------
(* The page keeps its types, and waits exactly while an order it has not   *)
(* given up is at work.  What the user was given is in the archive.        *)
FormsTypeOK ==
  /\ selectedForm \in Offered \cup {NoForm}
  /\ \A o \in orders : o.read \in o.since..Len(ledger)
  /\ logged \cup obtained \subseteq DOMAIN archive
  /\ generating <=> \E o \in orders : o.heard

(***************************************************************************)
(* A form in the archive is true of one moment between its order and its   *)
(* storing: the records in it, their columns and who signs for each of     *)
(* them go together, though the records change between the awaits.         *)
(***************************************************************************)
FormOfOneMoment ==
  \A id \in DOMAIN archive :
    LET f == archive[id] IN
    \E t \in f.since..f.until : f.rows = Rendered(f.dto, ledger[t])
=============================================================================
