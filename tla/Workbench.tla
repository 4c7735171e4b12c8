------------------------------ MODULE Workbench ------------------------------
(***************************************************************************)
(* WorkflowPage, the shared work page of the officers and custodians: the  *)
(* list it fetches, the record drawer, the confirm dialog with its inputs, *)
(* and the decisions it posts.  `served' is the table behind the API; its  *)
(* other users change it at any time.                                      *)
(*                                                                         *)
(* A text typed into the dialog is represented by the record it was typed  *)
(* for.  Titles, search words, sorting and toasts are left out.            *)
(***************************************************************************)
EXTENDS Integers, FiniteSets, AimrsVocabulary

CONSTANTS
  Records,     \* requisitions, or assets
  Own,         \* the requisitions the user has submitted
  NoRecord,
  Contested,   \* bound: the records other users decide on meanwhile
  PageSize,    \* rows on a page of the list
  MaxChanges   \* bound on the changes of a record

ASSUME WorkbenchAssumption ==
  /\ NoRecord \notin Records /\ IsFiniteSet(Records)
  /\ Own \cup Contested \subseteq Records
  /\ PageSize \in Nat \ {0}
  /\ MaxChanges \in Nat

VARIABLES
  page,       \* [role, slug] of the page, fixed
  served,     \* [Records -> status and number of changes, at the server]
  rows,       \* [Records -> the row in the list, or NoRecord]
  loading,    \* the first fetch is not back yet
  pageNo,     \* page of the list
  selected,   \* the record in the drawer, as it was in its row, or NoRecord
  confirm,    \* the action in the dialog, or NoRecord
  typed,      \* record for which the dialog's text was typed, or NoRecord
  submitting, \* actionSubmitting
  post,       \* the decision on its way to the server, or NoRecord
  fetches,    \* list fetches on their way: "asked", or the answer
  behind,     \* the last fetch, or the answer of a decision, was lost
  decided     \* history: [Records -> the change the user's decision was]

benchVars ==
  <<page, served, rows, loading, pageNo, selected, confirm, typed, submitting,
    post, fetches, behind, decided>>

dialog == <<pageNo, selected, confirm, typed>>

-----------------------------------------------------------------------------
(* The pages that work on real records, and the others.                    *)
LivePages ==
  [role: {"approving_officer"}, slug: {"approvals", "requisitions"}]
  \cup [role: {"management_audit_viewer"}, slug: {"audit"}]
  \cup [role: {"it_asset_custodian"},
        slug: {"fulfillment", "custody", "maintenance", "disposal"}]
  \cup [role: {"property_custodian"},
        slug: {"fulfillment", "custody", "disposal"}]

ReadOnly == page.role = "management_audit_viewer"

AssetPages == {"custody", "maintenance", "disposal"}

AssetStatus == DOMAIN AssetLifecycleTransitions

(* What an action asks of the API: the status it leads to.                 *)
Target ==
  [Approve |-> "pending_fulfillment", Reject |-> "rejected",
   Fulfill |-> "fulfilled", Hold |-> "on_hold", Issue |-> "issued",
   Transfer |-> "transferred", Return |-> "returned",
   MarkComplete |-> "available", RecommendDisposal |-> "flagged_for_disposal"]

(* ... and when the API does it.                                           *)
Takes(action, status) ==
  CASE action \in {"Approve", "Reject"} -> status = "pending_supervisor"
    [] action \in {"Fulfill", "Hold"} -> status \in Fulfillable
    [] OTHER -> status \in AssetStatus
                /\ Target[action] \in AssetLifecycleTransitions[status]

(* The actions whose confirmation calls the API.                           *)
LiveActions ==
  CASE page.slug = "approvals"   -> {"Approve", "Reject"}
    [] page.slug = "fulfillment" -> {"Fulfill", "Hold"}
    [] page.slug = "custody"     -> {"Issue", "Transfer", "Return"}
    [] page.slug = "maintenance" -> {"MarkComplete", "RecommendDisposal"}
    [] page.slug = "disposal"    -> {"RecommendDisposal"}
    [] OTHER -> {}

(* The dialog asks for a text, and the decision requires it.               *)
NeedsText(action) ==
  action \in {"Reject", "Revise", "Hold", "RecommendDisposal", "Issue", "Transfer"}

(* The button in a row of the list, and those in the drawer.               *)
ActionLabel ==
  CASE page.slug = "fulfillment" -> "Fulfill"
    [] page.slug = "custody"     -> "Issue"
    [] page.slug = "maintenance" -> "MarkComplete"
    [] page.slug = "disposal"    -> "RecommendDisposal"
    [] OTHER -> "Open"

DetailActions(status) ==
  CASE page.slug = "approvals"    -> LiveActions \cup {"Revise"}
    [] page.slug = "requisitions" -> {"Cancel", "Submit"}
    [] page.slug = "custody"      -> {a \in LiveActions : Takes(a, status)}
    [] page.slug = "audit"        -> {"Open"}
    [] OTHER -> LiveActions

SelfApproval(id) == page.role = "approving_officer" /\ id \in Own

-----------------------------------------------------------------------------
(* The list the API returns for the page, mapped to rows.                  *)
Listed(status) ==
  CASE page.slug = "fulfillment" -> status = "pending_fulfillment"
    [] page.slug = "maintenance" -> status = "under_repair"
    [] page.slug = "disposal"    -> status = "available"
    [] OTHER -> TRUE

AnswerRows ==
  [r \in Records |-> IF Listed(served[r].status) THEN served[r] ELSE NoRecord]

Asked == [at |-> "asked", rows |-> [r \in Records |-> NoRecord], last |-> FALSE]

(* fetchLiveRows(): called by the page, answered by the server, and back,  *)
(* in any order.                                                           *)
ServerAnswers(f) ==
  /\ f \in fetches /\ f.at = "asked"
  /\ fetches' = (fetches \ {f})
                  \cup {[f EXCEPT !.at = "answered", !.rows = AnswerRows]}
  /\ UNCHANGED <<page, served, rows, loading, dialog, submitting, post, behind,
                 decided>>

FetchBack(f) ==
  /\ f \in fetches /\ f.at = "answered"
  /\ rows' = f.rows
  /\ behind' = FALSE
  /\ fetches' = fetches \ {f}
  /\ loading' = FALSE
  /\ submitting' = (submitting /\ ~f.last)
  /\ UNCHANGED <<page, served, dialog, post, decided>>

FetchFails(f) ==
  /\ f \in fetches
  /\ fetches' = fetches \ {f}
  /\ behind' = TRUE
  /\ loading' = FALSE
  /\ submitting' = (submitting /\ ~f.last)
  /\ UNCHANGED <<page, served, rows, dialog, post, decided>>

-----------------------------------------------------------------------------
(* The filtered rows, and the pages of the list.                           *)
Visible == {r \in Records : rows[r] # NoRecord}

TotalPages ==
  LET n == (Cardinality(Visible) + PageSize - 1) \div PageSize IN
  IF n > 1 THEN n ELSE 1

Previous == IF pageNo > 1 THEN pageNo - 1 ELSE 1

Following == IF pageNo < TotalPages THEN pageNo + 1 ELSE TotalPages

TurnPage(to) ==
  /\ ~loading /\ confirm = NoRecord /\ selected = NoRecord
  /\ pageNo' = to
  /\ UNCHANGED <<page, served, rows, loading, selected, confirm, typed,
                 submitting, post, fetches, behind, decided>>

OnPage(r) ==   \* the visible rows may be sorted by any column
  /\ r \in Visible
  /\ (pageNo - 1) * PageSize < Cardinality(Visible)

Record(r) == [id |-> r, status |-> rows[r].status]

(* A row's View button opens the drawer, its action button the dialog too. *)
Open(r) ==
  /\ ~loading /\ confirm = NoRecord /\ selected = NoRecord
  /\ OnPage(r)
  /\ selected' = Record(r)
  /\ confirm' \in {NoRecord} \cup (IF ReadOnly THEN {} ELSE {ActionLabel})
  /\ UNCHANGED <<page, served, rows, loading, pageNo, typed, submitting, post,
                 fetches, behind, decided>>

(* The drawer's buttons, and its closing.                                  *)
ChooseAction(action) ==
  /\ selected # NoRecord /\ confirm = NoRecord
  /\ ~ReadOnly /\ ~SelfApproval(selected.id)
  /\ action \in DetailActions(selected.status)
  /\ confirm' = action
  /\ UNCHANGED <<page, served, rows, loading, pageNo, selected, typed,
                 submitting, post, fetches, behind, decided>>

CloseRecord ==
  /\ selected # NoRecord /\ confirm = NoRecord
  /\ selected' = NoRecord
  /\ UNCHANGED <<page, served, rows, loading, pageNo, confirm, typed,
                 submitting, post, fetches, behind, decided>>

(* The inputs of the dialog.                                               *)
Type ==
  /\ confirm # NoRecord /\ selected # NoRecord
  /\ NeedsText(confirm)
  /\ typed' = selected.id
  /\ UNCHANGED <<page, served, rows, loading, pageNo, selected, confirm,
                 submitting, post, fetches, behind, decided>>

TextAfterCancelKept == typed   \* mutant: only the dialog is closed

TextAfterCancel == NoRecord

CancelDialog ==
  /\ confirm # NoRecord
  /\ confirm' = NoRecord
  /\ typed' = TextAfterCancel
  /\ UNCHANGED <<page, served, rows, loading, pageNo, selected, submitting,
                 post, fetches, behind, decided>>

(* runAction(): what no API does is shown in the list only.                *)
MockStatus == [Revise |-> "Returned for Revision", Cancel |-> "Cancelled",
               Submit |-> "Pending Approval"]

RunAction ==
  LET set(r, action) == [r EXCEPT !.status = MockStatus[action]] IN
  /\ confirm # NoRecord /\ selected # NoRecord /\ confirm \notin LiveActions
  /\ NeedsText(confirm) => typed # NoRecord
  /\ IF confirm \in DOMAIN MockStatus
     THEN /\ rows' = [rows EXCEPT ![selected.id] =
                        IF @ = NoRecord THEN NoRecord ELSE set(@, confirm)]
          /\ selected' = set(selected, confirm)
     ELSE UNCHANGED <<rows, selected>>
  /\ confirm' = NoRecord /\ typed' = NoRecord
  /\ UNCHANGED <<page, served, loading, pageNo, submitting, post, fetches,
                 behind, decided>>

-----------------------------------------------------------------------------
(* submitApprovalDecision() and its three siblings.                        *)
Submit ==
  /\ confirm \in LiveActions
  /\ selected # NoRecord /\ ~submitting
  /\ NeedsText(confirm) => typed # NoRecord
  /\ submitting' = TRUE
  /\ post' = [id |-> selected.id, action |-> confirm, text |-> typed, at |-> "sent"]
  /\ UNCHANGED <<page, served, rows, loading, dialog, fetches, behind, decided>>

(* The server takes the decision, or refuses it.                           *)
ServerDecides ==
  LET r == post.id
      takes == Takes(post.action, served[r].status) IN
  /\ post # NoRecord /\ post.at = "sent"
  /\ takes => served[r].changes < MaxChanges
  /\ served' = IF takes
               THEN [served EXCEPT ![r] = [status |-> Target[post.action],
                                           changes |-> @.changes + 1]]
               ELSE served
  /\ post' = [post EXCEPT !.at = IF takes THEN "done" ELSE "refused"]
  /\ decided' = IF takes THEN [decided EXCEPT ![r] = served'[r].changes]
                ELSE decided
  /\ UNCHANGED <<page, rows, loading, dialog, submitting, fetches, behind>>

(* The dialog and the drawer close, and the list is fetched again; only    *)
(* then may another decision be posted.                                    *)
MarkedUnawaited(f) == f   \* mutant: the fetch is not awaited

Marked(f) == [f EXCEPT !.last = TRUE]

SubmitDone ==
  /\ post # NoRecord /\ post.at = "done"
  /\ post' = NoRecord
  /\ selected' = NoRecord /\ confirm' = NoRecord /\ typed' = NoRecord
  /\ fetches' = fetches \cup {Marked(Asked)}
  /\ submitting' = Marked(Asked).last
  /\ UNCHANGED <<page, served, rows, loading, pageNo, behind, decided>>

(* The dialog stays as it is, though the decision may have been taken and  *)
(* only its answer lost.                                                   *)
SubmitFails ==
  /\ post # NoRecord
  /\ post' = NoRecord
  /\ submitting' = FALSE
  /\ behind' = (behind \/ post.at = "done")
  /\ UNCHANGED <<page, served, rows, loading, dialog, fetches, decided>>

-----------------------------------------------------------------------------
(* Another user's decision on a record.                                    *)
OthersDecide(r, action) ==
  /\ r \in Contested
  /\ Takes(action, served[r].status)
  /\ served[r].changes < MaxChanges
  /\ served' = [served EXCEPT ![r] = [status |-> Target[action],
                                      changes |-> @.changes + 1]]
  /\ UNCHANGED <<page, rows, loading, dialog, submitting, post, fetches, behind,
                 decided>>

BenchInit(table) ==
  /\ page \in LivePages
  /\ served = [r \in Records |->
                 [status |-> table[IF page.slug \in AssetPages THEN "asset" ELSE page.slug],
                  changes |-> 0]]
  /\ rows = [r \in Records |-> NoRecord]
  /\ loading = TRUE
  /\ pageNo = 1
  /\ selected = NoRecord /\ confirm = NoRecord /\ typed = NoRecord
  /\ submitting = FALSE /\ post = NoRecord
  /\ fetches = {Asked}
  /\ behind = FALSE
  /\ decided = [r \in Records |-> 0]

BenchNext ==
  \/ \E f \in fetches : ServerAnswers(f) \/ FetchBack(f) \/ FetchFails(f)
  \/ TurnPage(Previous) \/ TurnPage(Following)
  \/ \E r \in Records : Open(r) \/ \E a \in DOMAIN Target : OthersDecide(r, a)
  \/ selected # NoRecord /\ \E a \in DetailActions(selected.status) : ChooseAction(a)
  \/ CloseRecord \/ Type \/ CancelDialog \/ RunAction
  \/ Submit \/ ServerDecides \/ SubmitDone \/ SubmitFails

BenchSpec(table) == BenchInit(table) /\ [][BenchNext]_benchVars

-----------------------------------------------------------------------------
(* The page keeps its types; it never shows a dialog without its record,   *)
(* and a decision is on its way only while the page says so.               *)
WorkbenchTypeOK ==
  /\ page \in LivePages
  /\ pageNo \in 1..Cardinality(Records)
  /\ selected # NoRecord => selected.id \in Records
  /\ typed \in Records \cup {NoRecord}
  /\ {loading, submitting, behind} \subseteq BOOLEAN
  /\ confirm # NoRecord => selected # NoRecord
  /\ post # NoRecord => submitting

(***************************************************************************)
(* The reason of a rejection, the employee an asset is issued to, is the   *)
(* one typed for this record, though dialogs are cancelled, decisions fail *)
(* and come back while another record is open.                             *)
(***************************************************************************)
TextIsForRecord ==
  post # NoRecord /\ post.text # NoRecord => post.text = post.id

(***************************************************************************)
(* Once the page is at rest, a record the user has decided is not shown as *)
(* it was before, whatever order the answers came back in, unless the page *)
(* has said that the list failed to refresh, or the decision to arrive.    *)
(***************************************************************************)
ListReflectsDecision ==
  ~submitting /\ ~behind =>
    \A r \in Visible : rows[r].changes >= decided[r]
=============================================================================
