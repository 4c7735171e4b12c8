----------------------------- MODULE AssetDetail -----------------------------
(***************************************************************************)
(* AssetDetailManager, the page of one asset: its edit form, its lifecycle *)
(* dialog and its QR button.  Requests of the page overlap: a save may be  *)
(* cancelled on the screen while it is on its way, and the lifecycle be    *)
(* updated meanwhile.  The server takes each request in one step here; its *)
(* own races are AssetRegistry's.                                          *)
(*                                                                         *)
(* Each request of the page is numbered; `stored' is what the server has   *)
(* applied of them, and of other users' transitions the status.  A text    *)
(* typed into the form is represented by the edit it was typed in; messages *)
(* and the suggestion of a form are left out.                              *)
(***************************************************************************)
EXTENDS Naturals, FiniteSets, AimrsVocabulary

CONSTANTS
  Fields,     \* of the edit form
  Foreign,    \* bound: statuses other users may lead the asset to
  MaxEdits,   \* bound on the edits begun
  MaxPosts    \* bound on the requests of the page

ASSUME DetailAssumption ==
  /\ Fields # {} /\ MaxEdits \in Nat /\ MaxPosts \in Nat

VARIABLES
  stored,      \* the asset at the server: [status, has]
  shown,       \* the asset in the page, or NoAsset before it is loaded
  editing,     \* edit
  edits,       \* number of the edit, counted
  form,        \* [Fields -> the edit a value was typed in, 0: as loaded]
  saving, updating,
  box,         \* the lifecycle dialog: [open, target, given, notes]
  posts,       \* requests on their way
  posted,      \* requests so far
  confirmed,   \* history: requests whose success the page has seen
  dropped,     \* history: edits that were cancelled
  outrun       \* history: an answer without what the page had been confirmed

detailVars ==
  <<stored, shown, editing, edits, form, saving, updating, box, posts, posted,
    confirmed, dropped, outrun>>

NoAsset == [status |-> "none", has |-> {}]
NoTarget == "none"
Closed == [open |-> FALSE, target |-> NoTarget, given |-> NoTarget,
           notes |-> FALSE]

NextTransitions ==
  [status \in {"none"} \cup DOMAIN AssetLifecycleTransitions |->
     IF status = "none" THEN {} ELSE AssetLifecycleTransitions[status]]

AsLoaded == [f \in Fields |-> 0]

-----------------------------------------------------------------------------
Load ==
  /\ shown = NoAsset
  /\ shown' = stored
  /\ form' = AsLoaded
  /\ UNCHANGED <<stored, editing, edits, saving, updating, box, posts, posted,
                 confirmed, dropped, outrun>>

(* The buttons beside the title; the dialog covers them.                   *)
BeginEdit ==
  /\ shown # NoAsset /\ ~editing /\ ~box.open
  /\ edits < MaxEdits
  /\ editing' = TRUE /\ edits' = edits + 1
  /\ UNCHANGED <<stored, shown, form, saving, updating, box, posts, posted,
                 confirmed, dropped, outrun>>

TypeField(f) ==
  /\ editing
  /\ form' = [form EXCEPT ![f] = edits]
  /\ UNCHANGED <<stored, shown, editing, edits, saving, updating, box, posts,
                 posted, confirmed, dropped, outrun>>

FormAfterCancelKept == form   \* mutant: only the inputs are closed

FormAfterCancel == AsLoaded

CancelEdit ==
  /\ editing
  /\ editing' = FALSE
  /\ form' = FormAfterCancel
  /\ dropped' = dropped \cup {edits}
  /\ UNCHANGED <<stored, shown, edits, saving, updating, box, posts, posted,
                 confirmed, outrun>>

Posting(p) ==
  /\ posted < MaxPosts
  /\ posted' = posted + 1
  /\ posts' = posts \cup
       {[n |-> posted + 1, what |-> p.what, form |-> p.form, target |-> p.target,
         given |-> p.given, asset |-> p.asset, at |-> "sent", answer |-> NoAsset]}

Post(what) ==
  [what |-> what, form |-> AsLoaded, target |-> NoTarget, given |-> NoTarget,
   asset |-> NoAsset]

Save ==
  /\ editing /\ ~saving
  /\ saving' = TRUE
  /\ Posting([Post("save") EXCEPT !.form = form])
  /\ UNCHANGED <<stored, shown, editing, edits, form, updating, box, confirmed,
                 dropped, outrun>>

GenerateQr ==
  /\ shown # NoAsset /\ ~editing /\ ~box.open
  /\ ~\E n \in shown.has : n[1] = "qr"
  /\ Posting([Post("qr") EXCEPT !.asset = shown])
  /\ UNCHANGED <<stored, shown, editing, edits, form, saving, updating, box,
                 confirmed, dropped, outrun>>

-----------------------------------------------------------------------------
OpenBox ==
  /\ shown # NoAsset /\ ~editing /\ ~box.open
  /\ NextTransitions[shown.status] # {}
  /\ box' = [box EXCEPT !.open = TRUE]
  /\ UNCHANGED <<stored, shown, editing, edits, form, saving, updating, posts,
                 posted, confirmed, dropped, outrun>>

(* The recipient, the office and the date go with the status they were     *)
(* given for; notes stay.                                                  *)
GivenAfter == NoTarget

ChooseTarget(to) ==
  /\ box.open /\ to \in NextTransitions[shown.status]
  /\ box' = [box EXCEPT !.target = to, !.given = GivenAfter]
  /\ UNCHANGED <<stored, shown, editing, edits, form, saving, updating, posts,
                 posted, confirmed, dropped, outrun>>

Give ==
  /\ box.open
  /\ \/ box.target \in {"issued", "transferred"}
        /\ box' = [box EXCEPT !.given = box.target]
     \/ box' = [box EXCEPT !.notes = TRUE]
  /\ UNCHANGED <<stored, shown, editing, edits, form, saving, updating, posts,
                 posted, confirmed, dropped, outrun>>

MayConfirm ==
  /\ ~updating /\ box.target # NoTarget
  /\ box.target \in {"issued", "transferred"} => box.given # NoTarget
  /\ box.target = "flagged_for_disposal" => box.notes

Confirm ==
  /\ box.open /\ MayConfirm
  /\ updating' = TRUE
  /\ Posting([Post("move") EXCEPT !.target = box.target, !.given = box.given])
  /\ UNCHANGED <<stored, shown, editing, edits, form, saving, box, confirmed,
                 dropped, outrun>>

UpdatingAfterCancelReset == FALSE   \* mutant: the dialog starts afresh

UpdatingAfterCancel == updating

CancelBox ==
  /\ box.open
  /\ box' = Closed
  /\ updating' = UpdatingAfterCancel
  /\ UNCHANGED <<stored, shown, editing, edits, form, saving, posts, posted,
                 confirmed, dropped, outrun>>

-----------------------------------------------------------------------------
(* The server takes a request, or refuses it.                              *)
ServerTakes(p) ==
  LET taken == p.what = "move" => p.target \in NextTransitions[stored.status]
      done == [status |-> IF p.what = "move" THEN p.target ELSE stored.status,
               has |-> stored.has \cup {<<p.what, p.n>>}]
  IN
  /\ p.at = "sent"
  /\ stored' = IF taken THEN done ELSE stored
  /\ posts' = (posts \ {p}) \cup
       {[p EXCEPT !.at = IF taken THEN "done" ELSE "refused",
                  !.answer = IF taken THEN done ELSE NoAsset]}
  /\ UNCHANGED <<shown, editing, edits, form, saving, updating, box, posted,
                 confirmed, dropped, outrun>>

Tag(p) == {n \in p.answer.has : n[1] = "qr"}

TaggedAsBefore(p) ==   \* mutant: the asset as it was when the button was clicked
  [p.asset EXCEPT !.has = @ \cup Tag(p)]

Tagged(p) == [shown EXCEPT !.has = @ \cup Tag(p)]

(* handleSave, handleLifecycleUpdate and handleGenerateQr resume.          *)
Back(p) ==
  /\ p.at = "done"
  /\ posts' = posts \ {p}
  /\ confirmed' = confirmed \cup {<<p.what, p.n>>}
  /\ outrun' = (outrun \/ (p.what # "qr" /\ ~confirmed \subseteq p.answer.has))
  /\ shown' = IF p.what = "qr" THEN Tagged(p) ELSE p.answer
  /\ editing' = (editing /\ p.what # "save")
  /\ saving' = (saving /\ p.what # "save")
  /\ updating' = (updating /\ p.what # "move")
  /\ box' = IF p.what = "move" THEN Closed ELSE box
  /\ UNCHANGED <<stored, edits, form, posted, dropped>>

PostFails(p) ==
  /\ p.at \in {"sent", "refused"}
  /\ posts' = posts \ {p}
  /\ saving' = (saving /\ p.what # "save")
  /\ updating' = (updating /\ p.what # "move")
  /\ UNCHANGED <<stored, shown, editing, edits, form, box, posted, confirmed,
                 dropped, outrun>>

OthersMove(to) ==
  /\ to \in NextTransitions[stored.status] \cap Foreign
  /\ stored' = [stored EXCEPT !.status = to]
  /\ UNCHANGED <<shown, editing, edits, form, saving, updating, box, posts,
                 posted, confirmed, dropped, outrun>>

DetailInit(statuses) ==
  /\ stored \in [status: statuses, has: {{}}]
  /\ shown = NoAsset
  /\ editing = FALSE /\ edits = 0 /\ form = AsLoaded
  /\ saving = FALSE /\ updating = FALSE
  /\ box = Closed
  /\ posts = {} /\ posted = 0
  /\ confirmed = {} /\ dropped = {} /\ outrun = FALSE

DetailNext ==
  \/ Load \/ BeginEdit \/ CancelEdit \/ Save \/ GenerateQr
  \/ \E f \in Fields : TypeField(f)
  \/ OpenBox \/ Give \/ Confirm \/ CancelBox
  \/ \E to \in DOMAIN NextTransitions : ChooseTarget(to) \/ OthersMove(to)
  \/ \E p \in posts : ServerTakes(p) \/ Back(p) \/ PostFails(p)

DetailSpec(statuses) == DetailInit(statuses) /\ [][DetailNext]_detailVars

-----------------------------------------------------------------------------
(* The page keeps its types; it has at most one save and one lifecycle     *)
(* update on their way, though both may be cancelled on the screen.        *)
DetailTypeOK ==
  LET ofKind(what) == {p \in posts : p.what = what} IN
  /\ shown.status \in DOMAIN NextTransitions
  /\ form \in [Fields -> 0..edits]
  /\ {editing, saving, updating, outrun} \subseteq BOOLEAN
  /\ Cardinality(ofKind("save")) = (IF saving THEN 1 ELSE 0)
  /\ Cardinality(ofKind("move")) = (IF updating THEN 1 ELSE 0)

(***************************************************************************)
(* What the user typed and then cancelled is not saved by a later edit: a  *)
(* save that starts now would not send it.  And the recipient or office    *)
(* that a lifecycle update carries was given for the status it asks for,   *)
(* over changes of mind in the dialog and answers that come meanwhile.     *)
(***************************************************************************)
CancelledNotSent ==
  editing /\ ~saving => \A f \in Fields : form[f] \notin dropped

GivenForTarget ==
  \A p \in posts : p.what = "move" => p.given \in {NoTarget, p.target}

SentAsMeant == CancelledNotSent /\ GivenForTarget

(***************************************************************************)
(* The asset on the page has every change the page has confirmed to its    *)
(* user, whatever requests overlapped, unless the answer to one of them    *)
(* was older than that of another.                                         *)
(***************************************************************************)
ConfirmedIsShown == ~outrun => confirmed \subseteq shown.has
=============================================================================
