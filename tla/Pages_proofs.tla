----------------------------- MODULE Pages_proofs -----------------------------
(***************************************************************************)
(* Theorems about the pages that keep state of their own: AssetDetail, for *)
(* any fields, any statuses to start from, any transitions of others and   *)
(* any number of edits and requests; AccountPanels, for any accounts,      *)
(* supervisors and colleagues and any number of requests on their way;     *)
(* Workbench, for any records, any pages of the list and any decisions of  *)
(* other users; and Directory, for any criteria, lengths of the lists and  *)
(* numbers of requests and changes.                                        *)
(***************************************************************************)
EXTENDS AssetDetail, AccountPanels, Workbench, Directory, FiniteSetTheorems,
        TLAPS

(* AssetDetail.                                                            *)
-----------------------------------------------------------------------------
(* The shapes of assets, requests and the dialog, whatever is in them.     *)
IsAsset(a) == a \in [status: {a.status}, has: {a.has}]

IsPost(p) ==
  p \in [n: {p.n}, what: {"save", "qr", "move"}, form: {p.form},
         target: {p.target}, given: {p.given}, asset: {p.asset},
         at: {"sent", "done", "refused"}, answer: {p.answer}]

(* A request that is done is in its answer.                                *)
InItsAnswer(p) ==
  /\ IsPost(p) /\ IsAsset(p.answer)
  /\ p.at = "done" => <<p.what, p.n>> \in p.answer.has

AnswersInv ==
  /\ IsAsset(stored) /\ IsAsset(shown) /\ outrun \in BOOLEAN
  /\ \A p \in posts : InItsAnswer(p)
  /\ ConfirmedIsShown

LEMMA NoAssetShaped == IsAsset(NoAsset)
BY DEF IsAsset, NoAsset

(* A request as the page sends it.                                         *)
LEMMA PostingShaped ==
  ASSUME NEW q, q.what \in {"save", "qr", "move"}, Posting(q)
  PROVE  \E p : /\ posts' = posts \cup {p} /\ IsPost(p) /\ InItsAnswer(p)
                /\ p.what = q.what /\ p.target = q.target /\ p.given = q.given
                /\ p.answer = NoAsset
<1>1. PICK p : p = [n |-> posted + 1, what |-> q.what, form |-> q.form,
                    target |-> q.target, given |-> q.given, asset |-> q.asset,
                    at |-> "sent", answer |-> NoAsset]
  OBVIOUS
<1>2. /\ IsPost(p) /\ p.at = "sent" /\ p.answer = NoAsset
      /\ p.what = q.what /\ p.target = q.target /\ p.given = q.given
  BY <1>1 DEF IsPost
<1>3. InItsAnswer(p)
  BY <1>2, NoAssetShaped DEF InItsAnswer
<1>4. posts' = posts \cup {p}
  BY <1>1 DEF Posting
<1> QED
  BY <1>2, <1>3, <1>4

LEMMA SavePosts == Save => \E q : Posting(q) /\ q.what = "save"
<1> SUFFICES ASSUME Save PROVE \E q : Posting(q) /\ q.what = "save"
  OBVIOUS
<1> DEFINE q == [Post("save") EXCEPT !.form = form]
<1>1. Posting(q)
  BY DEF Save
<1>2. q.what = "save"
  BY DEF Post
<1> QED
  BY <1>1, <1>2

LEMMA QrPosts == GenerateQr => \E q : Posting(q) /\ q.what = "qr"
<1> SUFFICES ASSUME GenerateQr PROVE \E q : Posting(q) /\ q.what = "qr"
  OBVIOUS
<1> DEFINE q == [Post("qr") EXCEPT !.asset = shown]
<1>1. Posting(q)
  BY DEF GenerateQr
<1>2. q.what = "qr"
  BY DEF Post
<1> QED
  BY <1>1, <1>2

LEMMA ConfirmPosts ==
  Confirm => \E q : /\ Posting(q) /\ q.what = "move"
                    /\ q.target = box.target /\ q.given = box.given
<1> SUFFICES ASSUME Confirm
             PROVE  \E q : /\ Posting(q) /\ q.what = "move"
                           /\ q.target = box.target /\ q.given = box.given
  OBVIOUS
<1> DEFINE q == [Post("move") EXCEPT !.target = box.target, !.given = box.given]
<1>1. Posting(q)
  BY DEF Confirm
<1>2. q.what = "move" /\ q.target = box.target /\ q.given = box.given
  BY DEF Post
<1> QED
  BY <1>1, <1>2

(* What the server answers, and does not answer.                           *)
LEMMA TakenShaped ==
  ASSUME NEW p, IsPost(p), InItsAnswer(p), IsAsset(stored), ServerTakes(p)
  PROVE  /\ IsAsset(stored')
         /\ \E q : /\ posts' = (posts \ {p}) \cup {q} /\ InItsAnswer(q)
                   /\ q.what = p.what /\ q.target = p.target /\ q.given = p.given
                   /\ q.answer \in {stored', NoAsset}
         /\ stored'.status \in {stored.status} \cup NextTransitions[stored.status]
<1>1. PICK done : done = [status |-> IF p.what = "move" THEN p.target ELSE stored.status,
                          has |-> stored.has \cup {<<p.what, p.n>>}]
  OBVIOUS
<1>2. PICK taken \in BOOLEAN :
        taken = (p.what = "move" => p.target \in NextTransitions[stored.status])
  OBVIOUS
<1>3. PICK q : q = [p EXCEPT !.at = IF taken THEN "done" ELSE "refused",
                             !.answer = IF taken THEN done ELSE NoAsset]
  OBVIOUS
<1>4. IsAsset(done) /\ <<p.what, p.n>> \in done.has
  BY <1>1 DEF IsAsset
<1>5. /\ stored' = IF taken THEN done ELSE stored
      /\ posts' = (posts \ {p}) \cup {q}
  BY <1>1, <1>2, <1>3 DEF ServerTakes
<1>6. /\ IsPost(q) /\ q.n = p.n
      /\ q.what = p.what /\ q.target = p.target /\ q.given = p.given
      /\ q.at = (IF taken THEN "done" ELSE "refused")
      /\ q.answer = (IF taken THEN done ELSE NoAsset)
  BY <1>3 DEF IsPost
<1>7. InItsAnswer(q)
  BY <1>4, <1>6, NoAssetShaped DEF InItsAnswer
<1>8. IsAsset(stored') /\ q.answer \in {stored', NoAsset}
  BY <1>4, <1>5, <1>6
<1>9. stored'.status \in {stored.status} \cup NextTransitions[stored.status]
  BY <1>1, <1>2, <1>5
<1> QED
  BY <1>5, <1>6, <1>7, <1>8, <1>9

-----------------------------------------------------------------------------
LEMMA NextAnswers == AnswersInv /\ [DetailNext]_detailVars => AnswersInv'
<1> SUFFICES ASSUME AnswersInv, [DetailNext]_detailVars PROVE AnswersInv'
  OBVIOUS
<1> USE DEF AnswersInv, ConfirmedIsShown
<1>1. ASSUME UNCHANGED <<stored, shown, posts, confirmed, outrun>> PROVE AnswersInv'
  BY <1>1 DEF InItsAnswer, IsAsset, IsPost
<1>2. CASE Load
  BY <1>2 DEF Load, NoAsset, IsAsset, InItsAnswer, IsPost
<1>3. CASE Save \/ GenerateQr \/ Confirm
  <2>0. PICK q : Posting(q) /\ q.what \in {"save", "qr", "move"}
    BY <1>3, SavePosts, QrPosts, ConfirmPosts
  <2>1. PICK p : posts' = posts \cup {p} /\ InItsAnswer(p)
    BY <2>0, PostingShaped
  <2>2. UNCHANGED <<stored, shown, confirmed, outrun>>
    BY <1>3 DEF Save, GenerateQr, Confirm
  <2> QED
    BY <2>1, <2>2 DEF InItsAnswer, IsAsset, IsPost
<1>4. ASSUME NEW p \in posts, ServerTakes(p) PROVE AnswersInv'
  <2>1. IsPost(p) /\ InItsAnswer(p)
    BY DEF InItsAnswer
  <2>2. IsAsset(stored')
    BY <1>4, <2>1, TakenShaped
  <2>3. PICK q : posts' = (posts \ {p}) \cup {q} /\ InItsAnswer(q)
    BY <1>4, <2>1, TakenShaped
  <2>4. UNCHANGED <<shown, confirmed, outrun>>
    BY <1>4 DEF ServerTakes
  <2> QED
    BY <2>2, <2>3, <2>4 DEF InItsAnswer, IsAsset, IsPost
<1>5. ASSUME NEW p \in posts, Back(p) PROVE AnswersInv'
  <2>1. /\ p.at = "done" /\ IsAsset(p.answer) /\ <<p.what, p.n>> \in p.answer.has
        /\ p.what \in {"save", "qr", "move"}
    BY <1>5 DEF Back, InItsAnswer, IsPost
  <2>2. /\ posts' = posts \ {p} /\ stored' = stored
        /\ confirmed' = confirmed \cup {<<p.what, p.n>>}
        /\ outrun' = (outrun \/ (p.what # "qr" /\ ~confirmed \subseteq p.answer.has))
        /\ shown' = IF p.what = "qr" THEN Tagged(p) ELSE p.answer
    BY <1>5 DEF Back
  <2>3. outrun' \in BOOLEAN /\ IsAsset(stored') /\ \A q \in posts' : InItsAnswer(q)
    BY <2>2
  <2>4. CASE p.what = "qr"
    <3>1. /\ IsAsset(Tagged(p)) /\ Tagged(p).has = shown.has \cup Tag(p)
      BY DEF Tagged, IsAsset
    <3>2. <<p.what, p.n>> \in Tag(p)
      BY <2>1, <2>4 DEF Tag
    <3>3. IsAsset(shown') /\ ConfirmedIsShown'
      BY <2>2, <2>4, <3>1, <3>2
    <3> QED
      BY <2>3, <3>3 DEF InItsAnswer, IsAsset, IsPost
  <2>5. CASE p.what # "qr"
    <3>1. IsAsset(shown') /\ ConfirmedIsShown'
      BY <2>1, <2>2, <2>5
    <3> QED
      BY <2>3, <3>1 DEF InItsAnswer, IsAsset, IsPost
  <2> QED
    BY <2>4, <2>5
<1>6. ASSUME NEW p \in posts, PostFails(p) PROVE AnswersInv'
  BY <1>6 DEF PostFails, InItsAnswer, IsAsset, IsPost
<1>7. ASSUME NEW to, OthersMove(to) PROVE AnswersInv'
  <2>1. IsAsset(stored')
    BY <1>7 DEF OthersMove, IsAsset
  <2>2. UNCHANGED <<shown, posts, confirmed, outrun>>
    BY <1>7 DEF OthersMove
  <2> QED
    BY <2>1, <2>2 DEF InItsAnswer, IsAsset, IsPost
<1>8. CASE \/ BeginEdit \/ CancelEdit \/ OpenBox \/ Give \/ CancelBox
           \/ (\E f \in Fields : TypeField(f))
           \/ (\E to \in DOMAIN NextTransitions : ChooseTarget(to))
           \/ UNCHANGED detailVars
  BY <1>1, <1>8
     DEF BeginEdit, CancelEdit, OpenBox, Give, CancelBox, TypeField, ChooseTarget,
         detailVars
<1> QED
  BY <1>2, <1>3, <1>4, <1>5, <1>6, <1>7, <1>8 DEF DetailNext

(* The asset on the page has every change its user was told of, in         *)
(* whatever order the answers come, unless one was older than another.     *)
THEOREM ShowsWhatItConfirmed ==
  ASSUME NEW statuses PROVE DetailSpec(statuses) => []ConfirmedIsShown
<1>1. DetailInit(statuses) => AnswersInv
  <2> SUFFICES ASSUME DetailInit(statuses) PROVE AnswersInv
    OBVIOUS
  <2>1. IsAsset(stored)
    BY DEF DetailInit, IsAsset
  <2>2. IsAsset(shown)
    BY NoAssetShaped DEF DetailInit
  <2> QED
    BY <2>1, <2>2 DEF DetailInit, AnswersInv, ConfirmedIsShown
<1>2. AnswersInv => ConfirmedIsShown
  BY DEF AnswersInv
<1> QED
  BY <1>1, <1>2, NextAnswers, PTL DEF DetailSpec

-----------------------------------------------------------------------------
(* No cancelled edit is in the form, and the edit at hand is not one.      *)
FormInv ==
  /\ editing \in BOOLEAN /\ edits \in Nat
  /\ form \in [Fields -> 0..edits]
  /\ dropped \subseteq 1..edits
  /\ editing => edits >= 1 /\ edits \notin dropped
  /\ \A f \in Fields : form[f] \notin dropped

(* What the dialog has was given for the status it is set to.              *)
IsBox == box \in [open: BOOLEAN, target: {box.target}, given: {NoTarget, box.target},
                  notes: BOOLEAN]

BoxInv == IsBox /\ GivenForTarget /\ \A p \in posts : InItsAnswer(p)

LEMMA NextForm == FormInv /\ [DetailNext]_detailVars => FormInv'
<1> SUFFICES ASSUME FormInv, [DetailNext]_detailVars PROVE FormInv'
  OBVIOUS
<1> USE DEF FormInv
<1>0. ASSUME UNCHANGED <<editing, edits, form, dropped>> PROVE FormInv'
  BY <1>0
<1>1. AsLoaded \in [Fields -> 0..edits] /\ \A f \in Fields : AsLoaded[f] = 0
  BY DEF AsLoaded
<1>2. CASE Load
  BY <1>1, <1>2 DEF Load
<1>3. CASE BeginEdit
  <2>1. edits' = edits + 1 /\ editing' = TRUE /\ UNCHANGED <<form, dropped>>
    BY <1>3 DEF BeginEdit
  <2>2. form \in [Fields -> 0..edits + 1] /\ dropped \subseteq 1..edits + 1
    OBVIOUS
  <2> QED
    BY <2>1, <2>2
<1>4. ASSUME NEW f \in Fields, TypeField(f) PROVE FormInv'
  <2>1. UNCHANGED <<editing, edits, dropped>> /\ form' = [form EXCEPT ![f] = edits]
        /\ editing
    BY <1>4 DEF TypeField
  <2> QED
    BY <2>1
<1>5. CASE CancelEdit
  <2>1. /\ editing' = FALSE /\ form' = AsLoaded /\ edits' = edits
        /\ dropped' = dropped \cup {edits} /\ editing
    BY <1>5 DEF CancelEdit, FormAfterCancel
  <2>2. edits >= 1 /\ dropped' \subseteq 1..edits
    BY <2>1
  <2>3. \A f \in Fields : form'[f] \notin dropped'
    BY <1>1, <2>1, <2>2
  <2>4. form' \in [Fields -> 0..edits'] /\ edits' \in Nat /\ dropped' \subseteq 1..edits'
    BY <1>1, <2>1, <2>2
  <2> QED
    BY <2>1, <2>3, <2>4
<1>6. ASSUME NEW p \in posts, Back(p) PROVE FormInv'
  <2>1. /\ UNCHANGED <<edits, form, dropped>>
        /\ editing' = (editing /\ p.what # "save")
    BY <1>6 DEF Back
  <2> QED
    BY <2>1
<1>7. CASE \/ Save \/ GenerateQr \/ OpenBox \/ Give \/ Confirm \/ CancelBox
           \/ (\E to \in DOMAIN NextTransitions : ChooseTarget(to) \/ OthersMove(to))
           \/ (\E p \in posts : ServerTakes(p) \/ PostFails(p))
           \/ UNCHANGED detailVars
  BY <1>0, <1>7
     DEF Save, GenerateQr, OpenBox, Give, Confirm, CancelBox, ChooseTarget,
         OthersMove, ServerTakes, PostFails, detailVars
<1> QED
  BY <1>2, <1>3, <1>4, <1>5, <1>6, <1>7 DEF DetailNext

LEMMA NextBox ==
  AnswersInv /\ BoxInv /\ [DetailNext]_detailVars => BoxInv'
<1> SUFFICES ASSUME AnswersInv, BoxInv, [DetailNext]_detailVars PROVE BoxInv'
  OBVIOUS
<1> USE DEF BoxInv, GivenForTarget
<1>0. \A p \in posts' : InItsAnswer(p)'
  BY NextAnswers DEF AnswersInv, InItsAnswer, IsAsset, IsPost
<1>1. ASSUME UNCHANGED box, posts' \subseteq posts PROVE BoxInv'
  BY <1>0, <1>1 DEF IsBox
<1>2. ASSUME UNCHANGED posts, IsBox' PROVE BoxInv'
  BY <1>0, <1>2
<1>4. box' = Closed => IsBox'
  BY DEF Closed, IsBox
<1>5. CASE OpenBox \/ Give
  <2>1. IsBox'
    BY <1>5 DEF OpenBox, Give, IsBox
  <2> QED
    BY <1>2, <1>5, <2>1 DEF OpenBox, Give
<1>6. ASSUME NEW to, ChooseTarget(to) PROVE BoxInv'
  <2>1. IsBox'
    BY <1>6 DEF ChooseTarget, GivenAfter, IsBox
  <2> QED
    BY <1>2, <1>6, <2>1 DEF ChooseTarget
<1>7. CASE CancelBox
  BY <1>2, <1>4, <1>7 DEF CancelBox
<1>8. CASE Save \/ GenerateQr
  <2>0. PICK q : Posting(q) /\ q.what \in {"save", "qr"}
    BY <1>8, SavePosts, QrPosts
  <2>1. PICK p : posts' = posts \cup {p} /\ p.what \in {"save", "qr"}
    BY <2>0, PostingShaped
  <2>2. box' = box
    BY <1>8 DEF Save, GenerateQr
  <2> QED
    BY <1>0, <2>1, <2>2 DEF IsBox
<1>9. CASE Confirm
  <2>0. PICK q : /\ Posting(q) /\ q.what = "move"
                 /\ q.target = box.target /\ q.given = box.given
    BY <1>9, ConfirmPosts
  <2>1. PICK p : posts' = posts \cup {p} /\ p.target = box.target /\ p.given = box.given
    BY <2>0, PostingShaped
  <2>2. box' = box
    BY <1>9 DEF Confirm
  <2> QED
    BY <1>0, <2>1, <2>2 DEF IsBox
<1>10. ASSUME NEW p \in posts, ServerTakes(p) PROVE BoxInv'
  <2>1. IsPost(p) /\ InItsAnswer(p) /\ IsAsset(stored)
    BY DEF InItsAnswer, AnswersInv
  <2>2. PICK q : /\ posts' = (posts \ {p}) \cup {q}
                 /\ q.what = p.what /\ q.target = p.target /\ q.given = p.given
    BY <1>10, <2>1, TakenShaped
  <2>3. box' = box
    BY <1>10 DEF ServerTakes
  <2> QED
    BY <1>0, <2>2, <2>3 DEF IsBox
<1>11. ASSUME NEW p \in posts, Back(p) PROVE BoxInv'
  <2>1. posts' \subseteq posts /\ (box' = Closed \/ box' = box)
    BY <1>11 DEF Back
  <2> QED
    BY <1>0, <1>4, <2>1 DEF IsBox
<1>12. CASE \/ Load \/ BeginEdit \/ CancelEdit
            \/ (\E f \in Fields : TypeField(f))
            \/ (\E to \in DOMAIN NextTransitions : OthersMove(to))
            \/ (\E p \in posts : PostFails(p))
            \/ UNCHANGED detailVars
  BY <1>1, <1>12
     DEF Load, BeginEdit, CancelEdit, TypeField, OthersMove, PostFails, detailVars
<1> QED
  BY <1>5, <1>6, <1>7, <1>8, <1>9, <1>10, <1>11, <1>12 DEF DetailNext

(* What was cancelled is not saved by a later edit, and a lifecycle update *)
(* carries only what was given for the status it asks for.                 *)
THEOREM SendsWhatIsMeant ==
  ASSUME NEW statuses PROVE DetailSpec(statuses) => []SentAsMeant
<1>1. DetailInit(statuses) => AnswersInv /\ FormInv /\ BoxInv
  <2> SUFFICES ASSUME DetailInit(statuses) PROVE AnswersInv /\ FormInv /\ BoxInv
    OBVIOUS
  <2>1. IsAsset(stored)
    BY DEF DetailInit, IsAsset
  <2>2. IsAsset(shown)
    BY NoAssetShaped DEF DetailInit
  <2>3. AnswersInv
    BY <2>1, <2>2 DEF DetailInit, AnswersInv, ConfirmedIsShown
  <2>4. FormInv
    <3>1. AsLoaded \in [Fields -> 0..0]
      BY DEF AsLoaded
    <3>2. edits = 0 /\ form = AsLoaded /\ dropped = {} /\ editing = FALSE
      BY DEF DetailInit
    <3> QED
      BY <3>1, <3>2 DEF FormInv
  <2>5. IsBox
    BY DEF DetailInit, IsBox, Closed
  <2>6. BoxInv
    BY <2>5 DEF DetailInit, BoxInv, GivenForTarget
  <2> QED
    BY <2>3, <2>4, <2>6
<1>2. FormInv /\ BoxInv => SentAsMeant
  BY DEF FormInv, BoxInv, SentAsMeant, CancelledNotSent
<1> QED
  BY <1>1, <1>2, NextAnswers, NextForm, NextBox, PTL DEF DetailSpec

-----------------------------------------------------------------------------
(* The page and its requests: a status that is one, and one save and one   *)
(* lifecycle update at most, each while the page says so.                  *)
Known == DOMAIN NextTransitions

OfKind(what) == {p \in posts : p.what = what}

AtMostOne(what, flag) ==
  IF flag THEN \E p : OfKind(what) = {p} ELSE OfKind(what) = {}

PostsInv ==
  /\ stored.status \in Known /\ shown.status \in Known
  /\ \A p \in posts : p.answer.status \in Known
  /\ saving \in BOOLEAN /\ updating \in BOOLEAN
  /\ AtMostOne("save", saving) /\ AtMostOne("move", updating)

(* The statuses are closed under the transitions.                          *)
LEMMA KnownClosed ==
  /\ NoAsset.status \in Known
  /\ \A s \in Known : NextTransitions[s] \subseteq Known
<1> DEFINE statuses == {"registered", "available", "issued", "returned", "transferred",
                        "under_repair", "flagged_for_disposal", "disposed"}
<1>1. /\ DOMAIN AssetLifecycleTransitions = statuses
      /\ \A s \in statuses : AssetLifecycleTransitions[s] \subseteq statuses
  BY DEF AssetLifecycleTransitions
<1> HIDE DEF statuses
<1>2. /\ Known = {"none"} \cup statuses
      /\ \A s \in Known : NextTransitions[s] \subseteq statuses
  BY <1>1 DEF Known, NextTransitions
<1> QED
  BY <1>2 DEF NoAsset

(* A request that is sent, one that changes, and one that is back.         *)
LEMMA OneMore ==
  ASSUME NEW p, posts' = posts \cup {p}, NEW what, NEW flag \in BOOLEAN,
         AtMostOne(what, flag), p.what = what => ~flag
  PROVE  IF flag \/ p.what = what THEN \E x : OfKind(what)' = {x}
                                  ELSE OfKind(what)' = {}
<1>1. CASE p.what = what
  <2>1. OfKind(what) = {}
    BY <1>1 DEF AtMostOne
  <2>2. OfKind(what)' = {p}
    BY <1>1, <2>1 DEF OfKind
  <2> QED
    BY <1>1, <2>2
<1>2. CASE p.what # what
  <2>1. OfKind(what)' = OfKind(what)
    BY <1>2 DEF OfKind
  <2> QED
    BY <1>2, <2>1 DEF AtMostOne
<1> QED
  BY <1>1, <1>2

LEMMA OneChanged ==
  ASSUME NEW p \in posts, NEW q, posts' = (posts \ {p}) \cup {q}, q.what = p.what,
         NEW what, NEW flag \in BOOLEAN, AtMostOne(what, flag)
  PROVE  IF flag THEN \E x : OfKind(what)' = {x} ELSE OfKind(what)' = {}
<1>1. CASE p.what = what
  <2>1. flag /\ OfKind(what) = {p}
    BY <1>1 DEF AtMostOne, OfKind
  <2>2. OfKind(what)' = {q}
    BY <1>1, <2>1 DEF OfKind
  <2> QED
    BY <2>1, <2>2
<1>2. CASE p.what # what
  <2>1. OfKind(what)' = OfKind(what)
    BY <1>2 DEF OfKind
  <2> QED
    BY <2>1 DEF AtMostOne
<1> QED
  BY <1>1, <1>2

LEMMA OneLess ==
  ASSUME NEW p \in posts, posts' = posts \ {p}, NEW what, NEW flag \in BOOLEAN,
         AtMostOne(what, flag)
  PROVE  IF flag /\ p.what # what THEN \E x : OfKind(what)' = {x}
                                  ELSE OfKind(what)' = {}
<1>1. CASE p.what = what
  <2>1. flag /\ OfKind(what) = {p}
    BY <1>1 DEF AtMostOne, OfKind
  <2>2. OfKind(what)' = {}
    BY <1>1, <2>1 DEF OfKind
  <2> QED
    BY <1>1, <2>2
<1>2. CASE p.what # what
  <2>1. OfKind(what)' = OfKind(what)
    BY <1>2 DEF OfKind
  <2> QED
    BY <1>2, <2>1 DEF AtMostOne
<1> QED
  BY <1>1, <1>2

LEMMA NextPosts == AnswersInv /\ PostsInv /\ [DetailNext]_detailVars => PostsInv'
<1> SUFFICES ASSUME AnswersInv, PostsInv, [DetailNext]_detailVars PROVE PostsInv'
  OBVIOUS
<1>0. /\ stored.status \in Known /\ shown.status \in Known
      /\ \A p \in posts : p.answer.status \in Known
      /\ saving \in BOOLEAN /\ updating \in BOOLEAN
      /\ AtMostOne("save", saving) /\ AtMostOne("move", updating)
  BY DEF PostsInv
<1>1. ASSUME NEW f \in BOOLEAN, NEW g \in BOOLEAN, saving' = f, updating' = g,
             IF f THEN \E p : OfKind("save")' = {p} ELSE OfKind("save")' = {},
             IF g THEN \E p : OfKind("move")' = {p} ELSE OfKind("move")' = {},
             stored'.status \in Known, shown'.status \in Known,
             \A p \in posts' : p.answer.status \in Known
      PROVE  PostsInv'
  BY <1>1 DEF PostsInv, AtMostOne, Known
<1>2. ASSUME UNCHANGED <<posts, saving, updating>>,
             stored'.status \in Known, shown'.status \in Known
      PROVE  PostsInv'
  BY <1>0, <1>2 DEF PostsInv, AtMostOne, OfKind, Known
<1>3. CASE Load
  BY <1>0, <1>2, <1>3 DEF Load
<1>4. CASE Save \/ GenerateQr \/ Confirm
  <2>0. PICK q : /\ Posting(q) /\ q.what \in {"save", "qr", "move"}
                 /\ saving' = (saving \/ q.what = "save")
                 /\ updating' = (updating \/ q.what = "move")
                 /\ q.what = "save" => ~saving
                 /\ q.what = "move" => ~updating
    <3>1. CASE Save
      BY <1>0, <3>1, SavePosts DEF Save
    <3>2. CASE GenerateQr
      BY <1>0, <3>2, QrPosts DEF GenerateQr
    <3>3. CASE Confirm
      BY <1>0, <3>3, ConfirmPosts DEF Confirm, MayConfirm
    <3> QED
      BY <1>4, <3>1, <3>2, <3>3
  <2>1. PICK p : posts' = posts \cup {p} /\ p.what = q.what /\ p.answer = NoAsset
    BY <2>0, PostingShaped
  <2>2. \A x \in posts' : x.answer.status \in Known
    BY <1>0, <2>1, KnownClosed
  <2>3. IF saving' THEN \E x : OfKind("save")' = {x} ELSE OfKind("save")' = {}
    BY <1>0, <2>0, <2>1, OneMore
  <2>4. IF updating' THEN \E x : OfKind("move")' = {x} ELSE OfKind("move")' = {}
    BY <1>0, <2>0, <2>1, OneMore
  <2>5. /\ UNCHANGED <<stored, shown>>
        /\ saving' \in BOOLEAN /\ updating' \in BOOLEAN
    BY <1>0, <1>4, <2>0 DEF Save, GenerateQr, Confirm
  <2> QED
    BY <1>0, <1>1, <2>2, <2>3, <2>4, <2>5
<1>5. ASSUME NEW p \in posts, ServerTakes(p) PROVE PostsInv'
  <2>1. IsPost(p) /\ InItsAnswer(p) /\ IsAsset(stored)
    BY DEF AnswersInv, InItsAnswer
  <2>2. PICK q : /\ posts' = (posts \ {p}) \cup {q} /\ q.what = p.what
                 /\ q.answer \in {stored', NoAsset}
    BY <1>5, <2>1, TakenShaped
  <2>3. stored'.status \in Known
    BY <1>0, <1>5, <2>1, TakenShaped, KnownClosed
  <2>4. \A x \in posts' : x.answer.status \in Known
    BY <1>0, <2>2, <2>3, KnownClosed
  <2>5. UNCHANGED <<shown, saving, updating>>
    BY <1>5 DEF ServerTakes
  <2>6. /\ IF saving THEN \E x : OfKind("save")' = {x} ELSE OfKind("save")' = {}
        /\ IF updating THEN \E x : OfKind("move")' = {x} ELSE OfKind("move")' = {}
    BY <1>0, <2>2, OneChanged
  <2> QED
    BY <1>0, <1>1, <2>3, <2>4, <2>5, <2>6
<1>6. ASSUME NEW p \in posts, Back(p) \/ PostFails(p) PROVE PostsInv'
  <2>1. /\ posts' = posts \ {p} /\ stored' = stored
        /\ saving' = (saving /\ p.what # "save")
        /\ updating' = (updating /\ p.what # "move")
    BY <1>6 DEF Back, PostFails
  <2>2. shown'.status \in Known
    <3>1. CASE Back(p)
      <4>1. Tagged(p).status = shown.status
        BY DEF Tagged, AnswersInv, IsAsset
      <4> QED
        BY <1>0, <3>1, <4>1 DEF Back
    <3>2. CASE PostFails(p)
      BY <1>0, <3>2 DEF PostFails
    <3> QED
      BY <1>6, <3>1, <3>2
  <2>3. /\ IF saving' THEN \E x : OfKind("save")' = {x} ELSE OfKind("save")' = {}
        /\ IF updating' THEN \E x : OfKind("move")' = {x} ELSE OfKind("move")' = {}
    BY <1>0, <2>1, OneLess
  <2>4. \A x \in posts' : x.answer.status \in Known
    BY <1>0, <2>1
  <2> QED
    BY <1>0, <1>1, <2>1, <2>2, <2>3, <2>4
<1>7. ASSUME NEW to, OthersMove(to) PROVE PostsInv'
  <2>1. stored' = [stored EXCEPT !.status = to] /\ to \in Known
    BY <1>0, <1>7, KnownClosed DEF OthersMove
  <2>2. stored'.status \in Known
    BY <2>1 DEF AnswersInv, IsAsset
  <2> QED
    BY <1>0, <1>2, <1>7, <2>2 DEF OthersMove
<1>8. CASE \/ BeginEdit \/ CancelEdit \/ OpenBox \/ Give \/ CancelBox
           \/ (\E f \in Fields : TypeField(f))
           \/ (\E to \in DOMAIN NextTransitions : ChooseTarget(to))
           \/ UNCHANGED detailVars
  BY <1>0, <1>2, <1>8
     DEF BeginEdit, CancelEdit, OpenBox, Give, CancelBox, UpdatingAfterCancel, TypeField,
         ChooseTarget, detailVars
<1> QED
  BY <1>3, <1>4, <1>5, <1>6, <1>7, <1>8 DEF DetailNext

(* At most one save and one lifecycle update are on their way, each while  *)
(* its button is disabled, though both can be cancelled on the screen.     *)
THEOREM DetailTyped ==
  ASSUME NEW statuses \in SUBSET DOMAIN NextTransitions
  PROVE  DetailSpec(statuses) => []DetailTypeOK
<1>1. DetailInit(statuses) => AnswersInv /\ PostsInv /\ FormInv
  <2> SUFFICES ASSUME DetailInit(statuses) PROVE AnswersInv /\ PostsInv /\ FormInv
    OBVIOUS
  <2>1. AnswersInv
    BY NoAssetShaped DEF DetailInit, AnswersInv, ConfirmedIsShown, IsAsset
  <2>2. PostsInv
    BY KnownClosed DEF DetailInit, PostsInv, AtMostOne, OfKind, Known
  <2>3. FormInv
    <3>1. AsLoaded \in [Fields -> {0}] /\ \A f \in Fields : AsLoaded[f] \notin {}
      BY DEF AsLoaded
    <3>2. edits = 0 /\ dropped = {} /\ form = AsLoaded /\ editing = FALSE /\ 0..0 = {0}
      BY DEF DetailInit
    <3> QED
      BY <3>1, <3>2 DEF FormInv
  <2> QED
    BY <2>1, <2>2, <2>3
<1>2. AnswersInv /\ PostsInv /\ FormInv => DetailTypeOK
  <2> SUFFICES ASSUME AnswersInv, PostsInv, FormInv PROVE DetailTypeOK
    OBVIOUS
  <2>1. \A what, flag : AtMostOne(what, flag) =>
          Cardinality(OfKind(what)) = IF flag THEN 1 ELSE 0
    BY FS_Singleton, FS_EmptySet DEF AtMostOne
  <2>2. /\ Cardinality(OfKind("save")) = (IF saving THEN 1 ELSE 0)
        /\ Cardinality(OfKind("move")) = (IF updating THEN 1 ELSE 0)
    BY <2>1 DEF PostsInv
  <2> QED
    BY <2>2 DEF DetailTypeOK, OfKind, PostsInv, Known, AnswersInv, FormInv
<1> QED
  BY <1>1, <1>2, NextAnswers, NextPosts, NextForm, PTL DEF DetailSpec

(* AccountPanels.                                                          *)
-----------------------------------------------------------------------------
(* The shapes the arguments need of the rows, the panel and the requests.  *)
PanelState ==
  [alternate: {NoOne} \cup Colleagues, away: BOOLEAN, saving: BOOLEAN,
   loaded: BOOLEAN]

RoutingPatch ==
  [on: Supervisors, fields: SUBSET RoutingFields,
   alternate: {NoOne} \cup Colleagues, away: BOOLEAN,
   touched: SUBSET RoutingFields, renewed: BOOLEAN, mounted: BOOLEAN,
   at: {"sent", "done"}, answer: Routing]

PanelShapes ==
  /\ routing \in [Supervisors -> Routing]
  /\ listed \in [Supervisors -> Routing]
  /\ panel \in PanelState
  /\ drawer \in Accounts \cup {NoOne}
  /\ patches \subseteq RoutingPatch
  /\ touched \subseteq RoutingFields
  /\ renewed \in BOOLEAN

(* What the panel shows beside the row has been set by the administrator,  *)
(* as long as it is the row the panel was opened on.                       *)
DiffersBySetting ==
  drawer \in Supervisors /\ ~renewed =>
    \A f \in RoutingFields : panel[f] # listed[drawer][f] => f \in touched

RoutingInv == PanelShapes /\ DiffersBySetting /\ UntouchedNotSent

LEMMA InitRouting == PanelsInit => RoutingInv
<1> SUFFICES ASSUME PanelsInit PROVE RoutingInv
  OBVIOUS
<1> USE PanelsAssumption
<1>1. Unset \in Routing /\ Shut \in PanelState
  BY DEF Unset, Routing, Shut, PanelState
<1> QED
  BY <1>1 DEF PanelsInit, RoutingInv, PanelShapes, DiffersBySetting, UntouchedNotSent

(* Every step of the page, of the server and of the supervisor keeps the   *)
(* invariant.                                                              *)
LEMMA NextRouting == RoutingInv /\ [PanelsNext]_panelsVars => RoutingInv'
<1> SUFFICES ASSUME RoutingInv, [PanelsNext]_panelsVars PROVE RoutingInv'
  OBVIOUS
<1> USE PanelsAssumption
<1>0. /\ PanelShapes /\ DiffersBySetting /\ UntouchedNotSent
      /\ Shut \in PanelState
  BY DEF RoutingInv, Shut, PanelState
<1>1. ASSUME NEW u \in Accounts, OpenDrawer(u) PROVE RoutingInv'
  <2>1. ASSUME u \in Supervisors
        PROVE  /\ panel' \in PanelState
               /\ \A f \in RoutingFields : panel'[f] = listed[u][f]
    BY <1>0, <1>1, <2>1 DEF OpenDrawer, PanelShapes, PanelState, Routing, RoutingFields, Shut
  <2> QED
    BY <1>0, <1>1, <2>1
       DEF OpenDrawer, RoutingInv, PanelShapes, DiffersBySetting, UntouchedNotSent
<1>2. ASSUME NEW u \in Supervisors, OwnAvailability(u) PROVE RoutingInv'
  <2>1. [routing[u] EXCEPT !.away = ~@, !.changes = @ + 1] \in Routing
    BY <1>0, <1>2 DEF OwnAvailability, PanelShapes, Routing
  <2>2. routing' \in [Supervisors -> Routing]
    BY <1>0, <1>2, <2>1 DEF OwnAvailability, PanelShapes
  <2> QED
    BY <1>0, <1>2, <2>2
       DEF OwnAvailability, RoutingInv, PanelShapes, DiffersBySetting, UntouchedNotSent
<1>3. CASE CloseDrawer
  <2>1. \A s \in patches : [s EXCEPT !.mounted = FALSE] \in RoutingPatch
    BY ZenonT(60), <1>0 DEF PanelShapes, RoutingPatch
  <2>2. \A s \in patches' :
          \E t \in patches : /\ s = [t EXCEPT !.mounted = FALSE]
                             /\ s.fields = t.fields /\ s.touched = t.touched
                             /\ s.renewed = t.renewed
    BY <1>0, <1>3 DEF CloseDrawer, Forgotten, PanelShapes, RoutingPatch
  <2> QED
    BY <1>0, <1>3, <2>1, <2>2
       DEF CloseDrawer, RoutingInv, PanelShapes, DiffersBySetting, UntouchedNotSent
<1>4. CASE SaveRouting
  <2> DEFINE new == [on |-> drawer, fields |-> Changed, alternate |-> panel.alternate,
         away |-> panel.away, touched |-> touched, renewed |-> renewed,
         mounted |-> TRUE, at |-> "sent", answer |-> routing[drawer]]
  <2>1. Changed \subseteq RoutingFields
    BY DEF Changed
  <2>2. new \in RoutingPatch
    BY <1>0, <1>4, <2>1 DEF SaveRouting, PanelShapes, RoutingPatch, PanelState
  <2>3. ~renewed => Changed \subseteq touched
    BY <1>0, <1>4 DEF SaveRouting, DiffersBySetting, Changed
  <2>4. patches' = patches \cup {new}
    BY <1>4 DEF SaveRouting
  <2>7. panel' \in PanelState
    BY <1>0, <1>4 DEF SaveRouting, PanelShapes, PanelState
  <2>8. new.fields = Changed /\ new.touched = touched /\ new.renewed = renewed
    OBVIOUS
  <2>9. UNCHANGED <<routing, listed, drawer, touched, renewed>>
    BY <1>4 DEF SaveRouting
  <2> HIDE DEF new
  <2>5. PanelShapes' /\ UntouchedNotSent'
    BY <1>0, <2>2, <2>3, <2>4, <2>7, <2>8, <2>9 DEF PanelShapes, UntouchedNotSent
  <2>6. DiffersBySetting'
    BY <1>0, <1>4 DEF SaveRouting, DiffersBySetting, PanelShapes, PanelState, RoutingFields
  <2> QED
    BY <2>5, <2>6 DEF RoutingInv
<1>5. CASE ListAgain
  BY <1>0, <1>5
     DEF ListAgain, RoutingInv, PanelShapes, DiffersBySetting, UntouchedNotSent
<1>6. ASSUME NEW present \in SUBSET Colleagues, SupervisorsCome(present)
      PROVE  RoutingInv'
  <2>1. PanelShapes'
    BY <1>0, <1>6 DEF SupervisorsCome, PanelShapes, PanelState, RoutingFields
  <2>2. /\ panel'.away = panel.away
        /\ panel'.alternate = panel.alternate \/ "alternate" \in touched'
        /\ touched \subseteq touched'
    BY <1>0, <1>6 DEF SupervisorsCome, PanelShapes, PanelState
  <2> QED
    BY <1>0, <1>6, <2>1, <2>2
       DEF SupervisorsCome, RoutingInv, DiffersBySetting, UntouchedNotSent,
           RoutingFields
<1>7. ASSUME NEW field \in RoutingFields, NEW value, SetRouting(field, value),
             [panel EXCEPT ![field] = value] \in PanelState
      PROVE  RoutingInv'
  BY <1>0, <1>7
     DEF SetRouting, RoutingInv, PanelShapes, DiffersBySetting, UntouchedNotSent,
         RoutingFields, PanelState
<1>8. ASSUME NEW s \in patches, ServerRoutes(s) PROVE RoutingInv'
  <2> DEFINE old == routing[s.on]
             new == [alternate |-> IF "alternate" \in s.fields THEN s.alternate
                                   ELSE old.alternate,
                     away |-> IF "away" \in s.fields THEN s.away ELSE old.away,
                     changes |-> old.changes + 1]
             back == [s EXCEPT !.at = "done", !.answer = new]
  <2>1. s \in RoutingPatch /\ old \in Routing /\ old.changes < MaxUpdates
    BY <1>0, <1>8 DEF ServerRoutes, PanelShapes, RoutingPatch
  <2>2. new \in Routing
    BY <2>1 DEF RoutingPatch, Routing
  <2>3. back \in RoutingPatch /\ back.fields = s.fields /\ back.touched = s.touched
        /\ back.renewed = s.renewed
    BY <2>1, <2>2 DEF RoutingPatch
  <2>4. /\ routing' = [routing EXCEPT ![s.on] = new]
        /\ patches' = (patches \ {s}) \cup {back}
    BY <1>8 DEF ServerRoutes
  <2>5. UNCHANGED <<listed, drawer, panel, touched, renewed>>
    BY <1>8 DEF ServerRoutes
  <2> HIDE DEF new, back, old
  <2>6. PanelShapes'
    BY <1>0, <2>2, <2>3, <2>4, <2>5 DEF PanelShapes
  <2>7. DiffersBySetting'
    BY <1>0, <2>5 DEF DiffersBySetting
  <2>8. UntouchedNotSent'
    BY <1>0, <2>3, <2>4 DEF UntouchedNotSent
  <2> QED
    BY <2>6, <2>7, <2>8 DEF RoutingInv
<1>9. ASSUME NEW s \in patches, SaveBack(s) PROVE RoutingInv'
  <2>1. s.on \in Supervisors /\ s.answer \in Routing
    BY <1>0 DEF PanelShapes, RoutingPatch
  <2>2. /\ panel' \in PanelState
        /\ \A f \in RoutingFields : panel'[f] = panel[f]
    BY <1>0, <1>9 DEF SaveBack, PanelShapes, PanelState, RoutingFields
  <2>3. drawer \in Supervisors /\ ~renewed' => listed'[drawer] = listed[drawer]
    BY <1>0, <1>9, <2>1 DEF SaveBack, PanelShapes
  <2> QED
    BY <1>0, <1>9, <2>1, <2>2, <2>3
       DEF SaveBack, RoutingInv, PanelShapes, DiffersBySetting, UntouchedNotSent
<1>10. ASSUME NEW s \in patches, SaveFails(s) PROVE RoutingInv'
  <2>1. /\ panel' \in PanelState
        /\ \A f \in RoutingFields : panel'[f] = panel[f]
    BY <1>0, <1>10 DEF SaveFails, PanelShapes, PanelState, RoutingFields
  <2> QED
    BY <1>0, <1>10, <2>1
       DEF SaveFails, RoutingInv, PanelShapes, DiffersBySetting, UntouchedNotSent
<1>11. CASE \/ OpenReset \/ TypePassword \/ CancelReset \/ SubmitReset
            \/ (\E c \in resets : ResetBack(c) \/ ResetFails(c))
            \/ UNCHANGED panelsVars
  BY <1>0, <1>11
     DEF OpenReset, TypePassword, CancelReset, SubmitReset, ResetBack, ResetFails,
         panelsVars, RoutingInv, PanelShapes, DiffersBySetting, UntouchedNotSent
<1>12. ASSUME NEW u \in {NoOne} \cup Colleagues, SetRouting("alternate", u)
       PROVE  RoutingInv'
  BY <1>0, <1>7, <1>12 DEF RoutingFields, PanelShapes, PanelState
<1>13. ASSUME NEW b \in BOOLEAN, SetRouting("away", b) PROVE RoutingInv'
  BY <1>0, <1>7, <1>13 DEF RoutingFields, PanelShapes, PanelState
<1> QED
  BY <1>1, <1>2, <1>3, <1>4, <1>5, <1>6, <1>8, <1>9, <1>10, <1>11, <1>12, <1>13
     DEF PanelsNext

(* A save of the routing panel sends no field its administrator has not    *)
(* set, as long as the row under it is the one it was opened on.           *)
THEOREM UntouchedStaysHome == PanelsSpec => []UntouchedNotSent
<1>1. RoutingInv => UntouchedNotSent
  BY DEF RoutingInv
<1> QED
  BY <1>1, InitRouting, NextRouting, PTL DEF PanelsSpec

-----------------------------------------------------------------------------
(* The dialog has a text only for the account it is open for.              *)
Reset == [on: Accounts, text: Accounts, mounted: BOOLEAN]

PasswordInv ==
  /\ drawer \in Accounts \cup {NoOne}
  /\ target \in Accounts \cup {NoOne}
  /\ password \in {NoOne, target}
  /\ resets \subseteq Reset
  /\ PasswordForTarget

LEMMA ForgottenResets ==
  ASSUME NEW pending \in SUBSET Reset, \A c \in pending : c.text = c.on
  PROVE  /\ Forgotten(pending) \subseteq Reset
         /\ \A c \in Forgotten(pending) : c.text = c.on
BY DEF Forgotten, Reset

LEMMA NextPassword == PasswordInv /\ [PanelsNext]_panelsVars => PasswordInv'
<1> SUFFICES ASSUME PasswordInv, [PanelsNext]_panelsVars PROVE PasswordInv'
  OBVIOUS
<1> USE PanelsAssumption DEF PasswordInv, PasswordForTarget
<1>1. CASE OpenReset
  BY <1>1 DEF OpenReset, Empty
<1>2. CASE TypePassword
  BY <1>2 DEF TypePassword
<1>3. CASE CancelReset
  BY <1>3, ForgottenResets DEF CancelReset, Empty
<1>4. CASE SubmitReset
  <2> DEFINE new == [on |-> target, text |-> password, mounted |-> TRUE]
  <2>1. new \in Reset /\ new.text = new.on
    BY <1>4 DEF SubmitReset, Reset
  <2>2. resets' = resets \cup {new}
    BY <1>4 DEF SubmitReset
  <2> HIDE DEF new
  <2> QED
    BY <1>4, <2>1, <2>2 DEF SubmitReset
<1>5. ASSUME NEW c \in resets, ResetBack(c) PROVE PasswordInv'
  <2>1. resets \ {c} \subseteq Reset /\ \A d \in resets \ {c} : d.text = d.on
    OBVIOUS
  <2> QED
    BY <1>5, <2>1, ForgottenResets DEF ResetBack, Empty
<1>6. ASSUME NEW c \in resets, ResetFails(c) PROVE PasswordInv'
  BY <1>6 DEF ResetFails
<1>7. ASSUME NEW u \in Accounts, OpenDrawer(u) PROVE PasswordInv'
  BY <1>7 DEF OpenDrawer
<1>8. CASE CloseDrawer
  BY <1>8 DEF CloseDrawer
<1>9. CASE \/ SaveRouting \/ ListAgain \/ UNCHANGED panelsVars
           \/ (\E u \in Supervisors : OwnAvailability(u))
           \/ (\E present \in SUBSET Colleagues : SupervisorsCome(present))
           \/ (\E u \in {NoOne} \cup Colleagues : SetRouting("alternate", u))
           \/ (\E b \in BOOLEAN : SetRouting("away", b))
           \/ (\E s \in patches : ServerRoutes(s) \/ SaveBack(s) \/ SaveFails(s))
  BY <1>9
     DEF SaveRouting, ListAgain, OwnAvailability, SupervisorsCome, SetRouting,
         ServerRoutes, SaveBack, SaveFails, panelsVars
<1> QED
  BY <1>1, <1>2, <1>3, <1>4, <1>5, <1>6, <1>7, <1>8, <1>9 DEF PanelsNext

(* The password an account is given was typed for that account, whichever  *)
(* answers close the dialog meanwhile.                                     *)
THEOREM PasswordGoesHome == PanelsSpec => []PasswordForTarget
<1>1. PanelsInit => PasswordInv
  BY DEF PanelsInit, PasswordInv, PasswordForTarget
<1>2. PasswordInv => PasswordForTarget
  BY DEF PasswordInv
<1> QED
  BY <1>1, <1>2, NextPassword, PTL DEF PanelsSpec

-----------------------------------------------------------------------------
(* What a request brings back is not ahead of the row, and the page's rows *)
(* are not either; what is shut has nothing in it.                         *)
NotAhead ==
  \A s \in patches : s.answer.changes <= routing[s.on].changes

ShutIsEmpty ==
  /\ target \in {drawer, NoOne}
  /\ target = NoOne => password = NoOne /\ ~resetting
  /\ drawer = NoOne => panel = Shut /\ touched = {}
  /\ \A u \in Supervisors : listed[u].changes <= routing[u].changes

PanelsInv == RoutingInv /\ NotAhead /\ ShutIsEmpty

LEMMA StaysShut == \A b : [Shut EXCEPT !.saving = @ /\ b] = Shut
<1> TAKE b
<1>1. (Shut.saving /\ b) = FALSE
  BY DEF Shut
<1>2. [Shut EXCEPT !.saving = FALSE] = Shut
  <2> DEFINE Only == [alternate: {NoOne}, away: {FALSE}, saving: {FALSE}, loaded: {FALSE}]
  <2>1. Shut \in Only
    BY DEF Shut
  <2>2. [Shut EXCEPT !.saving = FALSE] \in Only
    BY <2>1
  <2>3. ASSUME NEW x \in Only PROVE x = Shut
    <3>1. x = [alternate |-> x.alternate, away |-> x.away, saving |-> x.saving,
               loaded |-> x.loaded]
      OBVIOUS
    <3>2. x.alternate = NoOne /\ x.away = FALSE /\ x.saving = FALSE /\ x.loaded = FALSE
      OBVIOUS
    <3> QED
      BY <3>1, <3>2, Zenon DEF Shut
  <2> HIDE DEF Only
  <2> QED
    BY <2>1, <2>2, <2>3
<1> QED
  BY <1>1, <1>2

LEMMA NextPanels == PanelsInv /\ [PanelsNext]_panelsVars => PanelsInv'
<1> SUFFICES ASSUME PanelsInv, [PanelsNext]_panelsVars PROVE NotAhead' /\ ShutIsEmpty'
  BY NextRouting DEF PanelsInv
<1> USE PanelsAssumption
<1>0. /\ PanelShapes /\ NotAhead /\ ShutIsEmpty
      /\ \A s \in patches : s \in RoutingPatch /\ s.on \in Supervisors
                            /\ s.answer.changes \in Nat
      /\ \A u \in Supervisors : routing[u].changes \in Nat /\ listed[u].changes \in Nat
  BY DEF PanelsInv, RoutingInv, PanelShapes, RoutingPatch, Routing
<1>1. ASSUME NEW u \in Accounts, OpenDrawer(u) PROVE NotAhead' /\ ShutIsEmpty'
  BY <1>0, <1>1 DEF OpenDrawer, NotAhead, ShutIsEmpty
<1>2. ASSUME NEW u \in Supervisors, OwnAvailability(u) PROVE NotAhead' /\ ShutIsEmpty'
  <2>1. /\ \A v \in Supervisors : /\ routing'[v].changes \in Nat
                                  /\ routing[v].changes <= routing'[v].changes
        /\ UNCHANGED <<listed, drawer, panel, patches, target, password, resetting, touched>>
    BY <1>0, <1>2 DEF OwnAvailability, PanelShapes, Routing
  <2> QED
    BY <1>0, <2>1 DEF NotAhead, ShutIsEmpty
<1>3. CASE CloseDrawer
  <2>1. \A s \in patches' : \E c \in patches : s.answer = c.answer /\ s.on = c.on
    BY <1>0, <1>3 DEF CloseDrawer, Forgotten, RoutingPatch
  <2> QED
    BY <1>0, <1>3, <2>1 DEF CloseDrawer, NotAhead, ShutIsEmpty
<1>4. CASE SaveRouting
  <2> DEFINE s == [on |-> drawer, fields |-> Changed, alternate |-> panel.alternate,
                   away |-> panel.away, touched |-> touched, renewed |-> renewed,
                   mounted |-> TRUE, at |-> "sent", answer |-> routing[drawer]]
  <2>1. patches' = patches \cup {s} /\ s.on = drawer /\ s.answer = routing[drawer]
    BY <1>4 DEF SaveRouting
  <2> HIDE DEF s
  <2>2. NotAhead'
    BY <1>0, <1>4, <2>1 DEF SaveRouting, NotAhead
  <2> QED
    BY <1>0, <1>4, <2>2 DEF SaveRouting, ShutIsEmpty
<1>5. CASE ListAgain
  BY <1>0, <1>5 DEF ListAgain, NotAhead, ShutIsEmpty
<1>6. ASSUME NEW present, SupervisorsCome(present) PROVE NotAhead' /\ ShutIsEmpty'
  BY <1>0, <1>6 DEF SupervisorsCome, NotAhead, ShutIsEmpty
<1>7. ASSUME NEW field, NEW value, SetRouting(field, value) PROVE NotAhead' /\ ShutIsEmpty'
  BY <1>0, <1>7 DEF SetRouting, NotAhead, ShutIsEmpty
<1>8. ASSUME NEW s \in patches, ServerRoutes(s) PROVE NotAhead' /\ ShutIsEmpty'
  <2> DEFINE old == routing[s.on]
             new == [alternate |-> IF "alternate" \in s.fields THEN s.alternate
                                   ELSE old.alternate,
                     away |-> IF "away" \in s.fields THEN s.away ELSE old.away,
                     changes |-> old.changes + 1]
             d == [s EXCEPT !.at = "done", !.answer = new]
  <2>1. /\ new.changes = routing[s.on].changes + 1
        /\ routing' = [routing EXCEPT ![s.on] = new]
        /\ patches' = (patches \ {s}) \cup {d}
    BY <1>8 DEF ServerRoutes
  <2> HIDE DEF new
  <2>2. /\ \A v \in Supervisors : /\ routing'[v].changes \in Nat
                                  /\ routing[v].changes <= routing'[v].changes
        /\ routing'[s.on] = new
    BY <1>0, <2>1 DEF PanelShapes
  <2>3. d.answer = new /\ d.on = s.on
    BY <1>0 DEF RoutingPatch
  <2> HIDE DEF d
  <2>4. NotAhead'
    BY <1>0, <2>1, <2>2, <2>3 DEF NotAhead
  <2> QED
    BY <1>0, <1>8, <2>2, <2>4 DEF ServerRoutes, ShutIsEmpty
<1>9. ASSUME NEW s \in patches, SaveBack(s) PROVE NotAhead' /\ ShutIsEmpty'
  <2>1. NotAhead'
    BY <1>0, <1>9 DEF SaveBack, NotAhead
  <2>2. \A u \in Supervisors : listed'[u].changes <= routing'[u].changes
    BY <1>0, <1>9 DEF SaveBack, NotAhead, PanelShapes, ShutIsEmpty
  <2>3. drawer' = NoOne => panel' = Shut
    BY <1>0, <1>9, StaysShut DEF SaveBack, ShutIsEmpty
  <2> QED
    BY <1>0, <1>9, <2>1, <2>2, <2>3 DEF SaveBack, ShutIsEmpty
<1>10. ASSUME NEW s \in patches, SaveFails(s) PROVE NotAhead' /\ ShutIsEmpty'
  <2>1. drawer' = NoOne => panel' = Shut
    BY <1>0, <1>10, StaysShut DEF SaveFails, ShutIsEmpty
  <2> QED
    BY <1>0, <1>10, <2>1 DEF SaveFails, NotAhead, ShutIsEmpty
<1>11. CASE OpenReset \/ TypePassword \/ CancelReset \/ SubmitReset
  BY <1>0, <1>11
     DEF OpenReset, TypePassword, CancelReset, SubmitReset, Empty, NotAhead, ShutIsEmpty
<1>12. ASSUME NEW c \in resets, ResetBack(c) \/ ResetFails(c)
       PROVE  NotAhead' /\ ShutIsEmpty'
  BY <1>0, <1>12 DEF ResetBack, ResetFails, Empty, NotAhead, ShutIsEmpty
<1>13. CASE UNCHANGED panelsVars
  BY <1>0, <1>13, Zenon DEF panelsVars, NotAhead, ShutIsEmpty
<1> QED
  BY <1>1, <1>2, <1>3, <1>4, <1>5, <1>6, <1>7, <1>8, <1>9, <1>10, <1>11, <1>12,
     <1>13 DEF PanelsNext

(* Nothing is typed where no dialog is open, a shut drawer has an empty    *)
(* panel, and the page's rows are never ahead of the server's, though      *)
(* answers come back after the panel that asked was shut.                  *)
THEOREM PanelsTyped == PanelsSpec => []PanelsTypeOK
<1>1. PanelsInit => PanelsInv
  <2> SUFFICES ASSUME PanelsInit PROVE NotAhead /\ ShutIsEmpty
    BY InitRouting DEF PanelsInv
  <2>1. \A u \in Supervisors : listed[u].changes = 0 /\ routing[u].changes = 0
    BY DEF PanelsInit, Unset
  <2> QED
    BY <2>1 DEF PanelsInit, NotAhead, ShutIsEmpty
<1>2. PanelsInv => PanelsTypeOK
  BY DEF PanelsInv, ShutIsEmpty, RoutingInv, PanelShapes, PanelsTypeOK
<1> QED
  BY <1>1, <1>2, NextPanels, PTL DEF PanelsSpec

-----------------------------------------------------------------------------
(* Workbench.  A text in the dialog is of the record in the drawer, and it *)
(* is gone when the dialog is.                                             *)
IsDecision(p) ==
  /\ p = [id |-> p.id, action |-> p.action, text |-> p.text, at |-> p.at]
  /\ p.at \in {"sent", "done", "refused"}

TextInv ==
  /\ post # NoRecord => IsDecision(post)
  /\ typed # NoRecord => /\ confirm # NoRecord /\ selected # NoRecord
                         /\ typed = selected.id
  /\ TextIsForRecord

(* Whatever the user and the server do, a text stays with its record.      *)
LEMMA NextText == TextInv /\ [BenchNext]_benchVars => TextInv'
<1> SUFFICES ASSUME TextInv, [BenchNext]_benchVars PROVE TextInv'
  OBVIOUS
<1>1. ASSUME UNCHANGED <<selected, confirm, typed, post>>
      PROVE  TextInv'
  BY <1>1 DEF TextInv, TextIsForRecord, IsDecision
<1>2. ASSUME NEW f \in fetches, ServerAnswers(f) \/ FetchBack(f) \/ FetchFails(f)
      PROVE  TextInv'
  BY <1>1, <1>2 DEF ServerAnswers, FetchBack, FetchFails, dialog
<1>3. CASE TurnPage(Previous) \/ TurnPage(Following)
  BY <1>1, <1>3 DEF TurnPage
<1>4. ASSUME NEW r \in Records, Open(r)
      PROVE  TextInv'
  BY <1>4 DEF Open, TextInv, TextIsForRecord, IsDecision
<1>5. ASSUME NEW r, NEW a, OthersDecide(r, a)
      PROVE  TextInv'
  BY <1>1, <1>5 DEF OthersDecide, dialog
<1>6. ASSUME NEW a, ChooseAction(a)
      PROVE  TextInv'
  BY <1>6 DEF ChooseAction, TextInv, TextIsForRecord, IsDecision
<1>7. CASE CloseRecord \/ Type
  BY <1>7 DEF CloseRecord, Type, TextInv, TextIsForRecord, IsDecision
<1>8. CASE CancelDialog \/ RunAction
  BY <1>8 DEF CancelDialog, TextAfterCancel, RunAction, TextInv, TextIsForRecord, IsDecision
<1>9. CASE Submit
  <2>1. post'.text = typed /\ post'.id = selected.id /\ IsDecision(post')
    BY <1>9 DEF Submit, IsDecision
  <2> QED
    BY <1>9, <2>1 DEF Submit, dialog, TextInv, TextIsForRecord, IsDecision
<1>10. CASE ServerDecides
  <2>1. /\ post # NoRecord /\ post' \in {[post EXCEPT !.at = "done"],
                                         [post EXCEPT !.at = "refused"]}
    BY <1>10 DEF ServerDecides
  <2>2. post = [id |-> post.id, action |-> post.action, text |-> post.text,
                at |-> post.at]
    BY <2>1 DEF TextInv, IsDecision
  <2>3. post'.text = post.text /\ post'.id = post.id /\ IsDecision(post')
    BY <2>1, <2>2 DEF IsDecision
  <2> QED
    BY <1>10, <2>1, <2>3 DEF ServerDecides, dialog, TextInv, TextIsForRecord, IsDecision
<1>11. CASE SubmitDone \/ SubmitFails
  BY <1>11 DEF SubmitDone, SubmitFails, dialog, TextInv, TextIsForRecord, IsDecision
<1>12. CASE UNCHANGED benchVars
  BY <1>1, <1>12 DEF benchVars
<1> QED
  BY <1>2, <1>3, <1>4, <1>5, <1>6, <1>7, <1>8, <1>9, <1>10, <1>11, <1>12
     DEF BenchNext

(* A decision carries the text that was typed for its record, whatever     *)
(* dialogs were cancelled, decisions failed and records opened before.     *)
THEOREM TextStaysHome ==
  ASSUME NEW table
  PROVE  BenchSpec(table) => []TextIsForRecord
<1>1. BenchInit(table) => TextInv
  BY DEF BenchInit, TextInv, TextIsForRecord, IsDecision
<1>2. TextInv => TextIsForRecord
  BY DEF TextInv
<1> QED
  BY <1>1, <1>2, NextText, PTL DEF BenchSpec

-----------------------------------------------------------------------------
(* A row, whatever its status, that is not from before the decision.       *)
IsBenchRow(row) == /\ row = [status |-> row.status, changes |-> row.changes]
              /\ row.changes \in Nat

UpToDate(row, r) == row # NoRecord => IsBenchRow(row) /\ row.changes >= decided[r]

IsFetch(f) ==
  /\ f = [at |-> f.at, rows |-> f.rows, last |-> f.last]
  /\ f.rows = [r \in Records |-> f.rows[r]]
  /\ f.at \in {"asked", "answered"} /\ f.last \in BOOLEAN

BenchShapes ==
  /\ served = [r \in Records |-> served[r]]
  /\ rows = [r \in Records |-> rows[r]]
  /\ decided = [r \in Records |-> decided[r]]
  /\ \A r \in Records :
       /\ IsBenchRow(served[r]) /\ decided[r] \in Nat
       /\ decided[r] <= served[r].changes
       /\ rows[r] # NoRecord => IsBenchRow(rows[r])
  /\ \A f \in fetches : IsFetch(f)
  /\ post # NoRecord => IsDecision(post) /\ post.id \in Records
  /\ selected # NoRecord => selected.id \in Records
  /\ submitting \in BOOLEAN

(* One fetch at a time, and none while a decision is on its way: the page  *)
(* waits for the first fetch before it opens a record, and for the fetch   *)
(* after a decision before it posts another.                               *)
OneFetch ==
  /\ \A f, g \in fetches : f = g
  /\ \A f \in fetches : /\ post = NoRecord
                        /\ f.last <=> ~loading
                        /\ f.last <=> submitting
  /\ loading => fetches # {} /\ selected = NoRecord /\ post = NoRecord
  /\ post # NoRecord => submitting

(* What has been answered is not from before a decision, and the list is   *)
(* not, unless the fetch after it is to come or has failed.                *)
FreshRows ==
  /\ \A f \in fetches : f.at = "answered" =>
       \A r \in Records : UpToDate(f.rows[r], r)
  /\ \/ behind
     \/ submitting /\ post.at = "done"
     \/ \E f \in fetches : f.last
     \/ \A r \in Records : UpToDate(rows[r], r)

BenchInv == BenchShapes /\ OneFetch /\ FreshRows

LEMMA InitBench ==
  ASSUME NEW table, BenchInit(table)
  PROVE  BenchInv
<1> DEFINE row == [status |-> table[IF page.slug \in AssetPages THEN "asset"
                                    ELSE page.slug],
                   changes |-> 0]
<1>1. /\ served = [r \in Records |-> row]
      /\ rows = [r \in Records |-> NoRecord] /\ decided = [r \in Records |-> 0]
      /\ loading = TRUE /\ selected = NoRecord /\ submitting = FALSE
      /\ post = NoRecord /\ fetches = {Asked} /\ behind = FALSE
  BY DEF BenchInit
<1>2. IsBenchRow(row) /\ row.changes = 0
  BY DEF IsBenchRow
<1>3. IsFetch(Asked) /\ Asked.last = FALSE /\ Asked.at = "asked"
  BY DEF IsFetch, Asked
<1> HIDE DEF row
<1>4. BenchShapes
  <2>1. \A r \in Records : served[r] = row /\ decided[r] = 0 /\ rows[r] = NoRecord
    BY <1>1
  <2>2. /\ served = [r \in Records |-> served[r]]
        /\ rows = [r \in Records |-> rows[r]]
        /\ decided = [r \in Records |-> decided[r]]
    BY <1>1, <2>1
  <2>3. \A r \in Records : /\ IsBenchRow(served[r]) /\ decided[r] \in Nat
                           /\ decided[r] <= served[r].changes
                           /\ rows[r] # NoRecord => IsBenchRow(rows[r])
    BY <1>2, <2>1
  <2>4. \A f \in fetches : IsFetch(f)
    BY <1>1, <1>3
  <2> QED
    BY <1>1, <2>2, <2>3, <2>4, Zenon DEF BenchShapes
<1>5. OneFetch
  BY <1>1, <1>3 DEF OneFetch
<1>6. FreshRows
  BY <1>1, <1>3 DEF FreshRows, UpToDate
<1> QED
  BY <1>4, <1>5, <1>6 DEF BenchInv

(* What touches neither the list nor the decision keeps all that.          *)
LEMMA BenchRests ==
  ASSUME BenchInv,
         UNCHANGED <<served, rows, loading, submitting, post, fetches, behind,
                     decided>>,
         selected' # NoRecord => ~loading /\ selected'.id \in Records
  PROVE  BenchInv'
<1>1. BenchShapes'
  BY DEF BenchInv, BenchShapes, IsDecision, IsFetch, IsBenchRow
<1>2. OneFetch'
  BY DEF BenchInv, OneFetch
<1>3. FreshRows'
  BY DEF BenchInv, FreshRows, UpToDate, IsBenchRow
<1> QED
  BY <1>1, <1>2, <1>3 DEF BenchInv

LEMMA FetchBench ==
  ASSUME BenchInv, NEW f \in fetches,
         ServerAnswers(f) \/ FetchBack(f) \/ FetchFails(f)
  PROVE  BenchInv'
<1>0. /\ BenchShapes /\ OneFetch /\ FreshRows /\ fetches = {f} /\ IsFetch(f)
      /\ post = NoRecord
  BY DEF BenchInv, OneFetch, BenchShapes
<1>1. CASE ServerAnswers(f)
  <2>0. PICK g : g = [f EXCEPT !.at = "answered", !.rows = AnswerRows]
    OBVIOUS
  <2>1. /\ fetches' = {g} /\ f.at = "asked"
        /\ UNCHANGED <<served, rows, loading, selected, submitting, post, behind,
                       decided>>
    BY <1>0, <1>1, <2>0 DEF ServerAnswers, dialog
  <2>2. IsFetch(g) /\ g.last = f.last /\ g.rows = AnswerRows
    <3>1. f = [at |-> f.at, rows |-> f.rows, last |-> f.last] /\ f.last \in BOOLEAN
      BY <1>0 DEF IsFetch
    <3>2. g = [at |-> "answered", rows |-> AnswerRows, last |-> f.last]
      BY <2>0, <3>1
    <3>3. AnswerRows = [r \in Records |-> AnswerRows[r]]
      BY DEF AnswerRows
    <3> QED
      BY <3>1, <3>2, <3>3 DEF IsFetch
  <2>3. \A r \in Records : UpToDate(AnswerRows[r], r)
    BY <1>0 DEF AnswerRows, UpToDate, BenchShapes, IsBenchRow
  <2>4. BenchShapes'
    BY <1>0, <2>1, <2>2 DEF BenchShapes, IsDecision, IsFetch, IsBenchRow
  <2>5. OneFetch'
    BY <1>0, <2>1, <2>2 DEF OneFetch
  <2>6. FreshRows'
    BY <1>0, <2>1, <2>2, <2>3 DEF FreshRows, UpToDate, IsBenchRow
  <2> QED
    BY <2>4, <2>5, <2>6 DEF BenchInv
<1>2. CASE FetchBack(f)
  <2>1. /\ fetches' = {} /\ rows' = f.rows /\ f.at = "answered" /\ behind' = FALSE
        /\ loading' = FALSE /\ submitting' = (submitting /\ ~f.last)
        /\ UNCHANGED <<served, selected, post, decided>>
    BY <1>0, <1>2 DEF FetchBack, dialog
  <2>2. submitting' = FALSE
    BY <1>0, <2>1 DEF OneFetch, BenchShapes
  <2>3. \A r \in Records : UpToDate(f.rows[r], r)
    BY <1>0, <2>1 DEF FreshRows
  <2>4. f.rows = [r \in Records |-> f.rows[r]]
    BY <1>0 DEF IsFetch
  <2>5. BenchShapes'
    BY <1>0, <2>1, <2>2, <2>3, <2>4 DEF BenchShapes, UpToDate, IsBenchRow
  <2>6. OneFetch'
    BY <1>0, <2>1, <2>2 DEF OneFetch
  <2>7. FreshRows'
    BY <1>0, <2>1, <2>3 DEF FreshRows, UpToDate
  <2> QED
    BY <2>5, <2>6, <2>7 DEF BenchInv
<1>3. CASE FetchFails(f)
  <2>1. /\ fetches' = {} /\ behind' = TRUE
        /\ loading' = FALSE /\ submitting' = (submitting /\ ~f.last)
        /\ UNCHANGED <<served, rows, selected, post, decided>>
    BY <1>0, <1>3 DEF FetchFails, dialog
  <2>2. submitting' = FALSE
    BY <1>0, <2>1 DEF OneFetch, BenchShapes
  <2> QED
    BY <1>0, <2>1, <2>2
       DEF BenchInv, BenchShapes, OneFetch, FreshRows, UpToDate, IsBenchRow
<1> QED
  BY <1>1, <1>2, <1>3

(* A row shown as the page's own action would leave it.                    *)
LEMMA MockBench ==
  ASSUME BenchInv, RunAction
  PROVE  BenchInv'
<1>0. BenchShapes /\ OneFetch /\ FreshRows /\ confirm # NoRecord /\ selected # NoRecord
  BY DEF BenchInv, RunAction
<1>1. CASE confirm \notin DOMAIN MockStatus
  <2>1. UNCHANGED <<served, rows, loading, submitting, post, fetches, behind,
                    decided, selected>>
    BY <1>1 DEF RunAction
  <2> QED
    BY <1>0, <2>1, BenchRests DEF OneFetch, BenchShapes
<1>2. CASE confirm \in DOMAIN MockStatus
  <2> DEFINE id == selected.id
             status == MockStatus[confirm]
  <2>1. /\ rows' = [rows EXCEPT ![id] =
                      IF @ = NoRecord THEN NoRecord ELSE [@ EXCEPT !.status = status]]
        /\ selected' = [selected EXCEPT !.status = status]
        /\ UNCHANGED <<served, loading, submitting, post, fetches, behind, decided>>
    BY <1>2 DEF RunAction
  <2>2. id \in Records
    BY <1>0 DEF BenchShapes
  <2> HIDE DEF id, status
  <2>3. PICK row : row = [rows[id] EXCEPT !.status = status]
    OBVIOUS
  <2>4. /\ rows' = [r \in Records |-> rows'[r]]
        /\ \A r \in Records \ {id} : rows'[r] = rows[r]
        /\ rows[id] = NoRecord => rows'[id] = NoRecord
        /\ rows[id] # NoRecord => rows'[id] = row
    BY <1>0, <2>1, <2>2, <2>3 DEF BenchShapes
  <2>5. rows[id] # NoRecord => IsBenchRow(row) /\ row.changes = rows[id].changes
    BY <1>0, <2>2, <2>3 DEF BenchShapes, IsBenchRow
  <2>6. \A r \in Records : rows'[r] # NoRecord =>
          rows[r] # NoRecord /\ IsBenchRow(rows'[r]) /\ rows'[r].changes = rows[r].changes
    BY <1>0, <2>4, <2>5 DEF BenchShapes
  <2>7. selected'.id = selected.id
    BY <2>1
  <2>8. BenchShapes'
    BY <1>0, <2>1, <2>2, <2>4, <2>6, <2>7 DEF BenchShapes, IsDecision, IsFetch, IsBenchRow, id
  <2>9. OneFetch'
    BY <1>0, <2>1 DEF OneFetch
  <2>10. FreshRows'
    BY <1>0, <2>1, <2>6 DEF FreshRows, UpToDate
  <2> QED
    BY <2>8, <2>9, <2>10 DEF BenchInv
<1> QED
  BY <1>1, <1>2

LEMMA SubmitBench ==
  ASSUME BenchInv, Submit
  PROVE  BenchInv'
<1>1. /\ BenchShapes /\ OneFetch /\ FreshRows
      /\ selected # NoRecord /\ submitting' = TRUE /\ submitting = FALSE
      /\ post' = [id |-> selected.id, action |-> confirm, text |-> typed, at |-> "sent"]
      /\ UNCHANGED <<served, rows, loading, selected, fetches, behind, decided>>
  BY DEF BenchInv, Submit, dialog, BenchShapes
<1>2. ~loading /\ fetches = {} /\ post = NoRecord
  BY <1>1 DEF OneFetch
<1>3. IsDecision(post') /\ post'.id = selected.id
  BY <1>1 DEF IsDecision
<1>4. BenchShapes'
  BY <1>1, <1>3 DEF BenchShapes, IsFetch, IsBenchRow
<1>5. OneFetch'
  BY <1>1, <1>2 DEF OneFetch
<1>6. FreshRows'
  BY <1>1, <1>2 DEF FreshRows, UpToDate
<1> QED
  BY <1>4, <1>5, <1>6 DEF BenchInv

(* The decision is the newest change of its record, and no list can be on  *)
(* its way that was asked before it.                                       *)
LEMMA DecideBench ==
  ASSUME BenchInv, ServerDecides
  PROVE  BenchInv'
<1> DEFINE r == post.id
           takes == Takes(post.action, served[r].status)
<1>0. /\ BenchShapes /\ OneFetch /\ FreshRows
      /\ post # NoRecord /\ IsDecision(post) /\ post.id \in Records
      /\ post.at = "sent" /\ fetches = {} /\ submitting
      /\ UNCHANGED <<rows, loading, selected, submitting, fetches, behind>>
  BY DEF BenchInv, ServerDecides, dialog, BenchShapes, OneFetch
<1>1. /\ post' = [post EXCEPT !.at = IF takes THEN "done" ELSE "refused"]
      /\ served' = IF takes
                   THEN [served EXCEPT ![r] = [status |-> Target[post.action],
                                               changes |-> @.changes + 1]]
                   ELSE served
      /\ decided' = IF takes THEN [decided EXCEPT ![r] = served'[r].changes]
                    ELSE decided
  BY DEF ServerDecides
<1> HIDE DEF takes, r
<1>2. /\ IsDecision(post') /\ post'.id = r
      /\ post'.at = IF takes THEN "done" ELSE "refused"
  BY <1>0, <1>1 DEF IsDecision, r
<1>3. OneFetch'
  BY <1>0 DEF OneFetch
<1>4. CASE ~takes
  <2>1. UNCHANGED <<served, decided>> /\ post'.at = "refused"
    BY <1>1, <1>2, <1>4
  <2>2. BenchShapes'
    BY <1>0, <1>2, <2>1 DEF BenchShapes, IsFetch, IsBenchRow, r
  <2>3. FreshRows'
    BY <1>0, <1>2, <2>1 DEF FreshRows, UpToDate
  <2> QED
    BY <1>3, <2>2, <2>3 DEF BenchInv
<1>5. CASE takes
  <2> DEFINE row == [status |-> Target[post.action], changes |-> served[r].changes + 1]
  <2>1. served' = [served EXCEPT ![r] = row] /\ r \in Records
    BY <1>0, <1>1, <1>5 DEF r
  <2>2. IsBenchRow(row) /\ row.changes = served[r].changes + 1
    BY <1>0, <2>1 DEF BenchShapes, IsBenchRow
  <2> HIDE DEF row
  <2>3. /\ served' = [x \in Records |-> served'[x]] /\ served'[r] = row
        /\ \A x \in Records \ {r} : served'[x] = served[x]
    BY <1>0, <2>1 DEF BenchShapes
  <2>4. /\ decided' = [x \in Records |-> decided'[x]] /\ decided'[r] = row.changes
        /\ \A x \in Records \ {r} : decided'[x] = decided[x]
    BY <1>0, <1>1, <1>5, <2>1, <2>3 DEF BenchShapes
  <2>5. \A x \in Records : IsBenchRow(served'[x]) /\ decided'[x] \in Nat
                           /\ decided'[x] <= served'[x].changes
    BY <1>0, <2>2, <2>3, <2>4 DEF BenchShapes, IsBenchRow
  <2>6. BenchShapes'
    BY <1>0, <1>2, <2>1, <2>3, <2>4, <2>5 DEF BenchShapes, IsFetch, IsBenchRow
  <2>7. FreshRows'
    BY <1>0, <1>2, <1>5 DEF FreshRows
  <2> QED
    BY <1>3, <2>6, <2>7 DEF BenchInv
<1> QED
  BY <1>4, <1>5

LEMMA SettleBench ==
  ASSUME BenchInv, SubmitDone \/ SubmitFails
  PROVE  BenchInv'
<1>0. /\ BenchShapes /\ OneFetch /\ FreshRows /\ post # NoRecord
      /\ fetches = {} /\ ~loading /\ submitting
  BY DEF BenchInv, SubmitDone, SubmitFails, OneFetch
<1>1. CASE SubmitDone
  <2>1. PICK g : g = Marked(Asked)
    OBVIOUS
  <2>2. /\ IsFetch(g) /\ g.last = TRUE /\ g.at = "asked"
    BY <2>1 DEF Marked, Asked, IsFetch
  <2>3. /\ post' = NoRecord /\ selected' = NoRecord /\ fetches' = {g}
        /\ submitting' = TRUE
        /\ UNCHANGED <<served, rows, loading, behind, decided>>
    BY <1>0, <1>1, <2>1, <2>2 DEF SubmitDone
  <2>4. BenchShapes'
    BY <1>0, <2>2, <2>3 DEF BenchShapes, IsBenchRow
  <2>5. OneFetch'
    BY <1>0, <2>2, <2>3 DEF OneFetch
  <2>6. FreshRows'
    BY <1>0, <2>2, <2>3 DEF FreshRows
  <2> QED
    BY <2>4, <2>5, <2>6 DEF BenchInv
<1>2. CASE SubmitFails
  <2>1. /\ post' = NoRecord /\ submitting' = FALSE
        /\ behind' = (behind \/ post.at = "done")
        /\ UNCHANGED <<served, rows, loading, selected, fetches, decided>>
    BY <1>2 DEF SubmitFails, dialog
  <2>2. BenchShapes'
    BY <1>0, <2>1 DEF BenchShapes, IsBenchRow, IsFetch
  <2>3. OneFetch'
    BY <1>0, <2>1 DEF OneFetch
  <2>4. FreshRows'
    BY <1>0, <2>1 DEF FreshRows, UpToDate
  <2> QED
    BY <2>2, <2>3, <2>4 DEF BenchInv
<1> QED
  BY <1>1, <1>2

LEMMA OthersBench ==
  ASSUME BenchInv, NEW r \in Records, NEW a, OthersDecide(r, a)
  PROVE  BenchInv'
<1> DEFINE row == [status |-> Target[a], changes |-> served[r].changes + 1]
<1>1. /\ BenchShapes /\ OneFetch /\ FreshRows
      /\ served' = [served EXCEPT ![r] = row]
      /\ UNCHANGED <<rows, loading, selected, submitting, post, fetches, behind,
                     decided>>
  BY DEF BenchInv, OthersDecide, dialog
<1>2. IsBenchRow(row) /\ row.changes = served[r].changes + 1
  BY <1>1 DEF BenchShapes, IsBenchRow
<1> HIDE DEF row
<1>3. /\ served' = [x \in Records |-> served'[x]] /\ served'[r] = row
      /\ \A x \in Records \ {r} : served'[x] = served[x]
  BY <1>1 DEF BenchShapes
<1>4. \A x \in Records : IsBenchRow(served'[x]) /\ decided[x] <= served'[x].changes
  BY <1>1, <1>2, <1>3 DEF BenchShapes, IsBenchRow
<1>5. BenchShapes'
  BY <1>1, <1>3, <1>4 DEF BenchShapes, IsFetch, IsDecision, IsBenchRow
<1>6. OneFetch'
  BY <1>1 DEF OneFetch
<1>7. FreshRows'
  BY <1>1 DEF FreshRows, UpToDate
<1> QED
  BY <1>5, <1>6, <1>7 DEF BenchInv

(* Every step of the page, of the server and of the others keeps it.       *)
LEMMA NextBench == BenchInv /\ [BenchNext]_benchVars => BenchInv'
<1> SUFFICES ASSUME BenchInv, [BenchNext]_benchVars PROVE BenchInv'
  OBVIOUS
<1>0. selected # NoRecord => ~loading /\ selected.id \in Records
  BY DEF BenchInv, OneFetch, BenchShapes
<1>1. CASE \E f \in fetches : ServerAnswers(f) \/ FetchBack(f) \/ FetchFails(f)
  BY <1>1, FetchBench
<1>2. CASE TurnPage(Previous) \/ TurnPage(Following)
  BY <1>0, <1>2, BenchRests DEF TurnPage
<1>3. ASSUME NEW r \in Records, Open(r)
      PROVE  BenchInv'
  <2>1. selected'.id = r /\ ~loading
    BY <1>3 DEF Open, Record
  <2> QED
    BY <1>3, <2>1, BenchRests DEF Open
<1>4. ASSUME NEW r \in Records, NEW a, OthersDecide(r, a)
      PROVE  BenchInv'
  BY <1>4, OthersBench
<1>5. ASSUME NEW a, ChooseAction(a)
      PROVE  BenchInv'
  BY <1>0, <1>5, BenchRests DEF ChooseAction
<1>6. CASE CloseRecord \/ Type \/ CancelDialog
  BY <1>0, <1>6, BenchRests DEF CloseRecord, Type, CancelDialog
<1>7. CASE RunAction
  BY <1>7, MockBench
<1>8. CASE Submit
  BY <1>8, SubmitBench
<1>9. CASE ServerDecides
  BY <1>9, DecideBench
<1>10. CASE SubmitDone \/ SubmitFails
  BY <1>10, SettleBench
<1>11. CASE UNCHANGED benchVars
  BY <1>0, <1>11, BenchRests DEF benchVars
<1> QED
  BY <1>1, <1>2, <1>3, <1>4, <1>5, <1>6, <1>7, <1>8, <1>9, <1>10, <1>11
     DEF BenchNext

(* Once the page is at rest, the list does not show a record as it was     *)
(* before the user decided it, unless the page has said that it could not  *)
(* refresh: the fetch after a decision is awaited, and it is the only one. *)
THEOREM ListKeepsDecisions ==
  ASSUME NEW table
  PROVE  BenchSpec(table) => []ListReflectsDecision
<1>1. BenchInit(table) => BenchInv
  BY InitBench
<1>2. BenchInv => ListReflectsDecision
  <2> SUFFICES ASSUME BenchInv, ~submitting, ~behind, NEW r \in Visible
               PROVE  rows[r].changes >= decided[r]
    BY DEF ListReflectsDecision
  <2> QED
    BY DEF BenchInv, OneFetch, FreshRows, UpToDate, Visible
<1> QED
  BY <1>1, <1>2, NextBench, PTL DEF BenchSpec

-----------------------------------------------------------------------------
(* The list has at most as many pages as records.                          *)
LEMMA PagesBounded ==
  ASSUME Records # {}
  PROVE  /\ Cardinality(Records) \in Nat \ {0}
         /\ TotalPages \in 1..Cardinality(Records)
<1>1. Cardinality(Records) \in Nat \ {0}
  BY WorkbenchAssumption, FS_CardinalityType, FS_EmptySet
<1>2. /\ Cardinality(Visible) \in Nat
      /\ Cardinality(Visible) <= Cardinality(Records)
  BY WorkbenchAssumption, FS_Subset, FS_CardinalityType DEF Visible
<1>3. PICK c \in Nat : c = Cardinality(Visible)
  BY <1>2
<1>4. PICK n : n = (c + PageSize - 1) \div PageSize
  OBVIOUS
<1>5. n \in Int /\ n <= c
  BY <1>4, WorkbenchAssumption
<1>6. TotalPages = IF n > 1 THEN n ELSE 1
  BY <1>3, <1>4 DEF TotalPages
<1> QED
  BY <1>1, <1>2, <1>3, <1>5, <1>6

(* Where the user is, and what the page says of itself.                    *)
PageState ==
  /\ page \in LivePages
  /\ pageNo \in 1..Cardinality(Records)
  /\ loading \in BOOLEAN /\ behind \in BOOLEAN
  /\ confirm # NoRecord => selected # NoRecord

LEMMA NextPageState ==
  ASSUME Records # {},
         \A r \in Records : \A s : [id |-> r, status |-> s] # NoRecord,
         PageState, [BenchNext]_benchVars
  PROVE  PageState'
<1>1. ASSUME UNCHANGED <<page, pageNo, confirm, selected>>,
             loading' \in BOOLEAN, behind' \in BOOLEAN
      PROVE  PageState'
  BY <1>1 DEF PageState
<1>2. ASSUME NEW f, ServerAnswers(f) \/ FetchBack(f) \/ FetchFails(f)
      PROVE  PageState'
  BY <1>1, <1>2 DEF ServerAnswers, FetchBack, FetchFails, dialog, PageState
<1>3. CASE TurnPage(Previous) \/ TurnPage(Following)
  <2>1. /\ Cardinality(Records) \in Nat \ {0}
        /\ TotalPages \in 1..Cardinality(Records)
    BY PagesBounded
  <2>2. /\ Previous \in 1..Cardinality(Records)
        /\ Following \in 1..Cardinality(Records)
    BY <2>1 DEF Previous, Following, PageState
  <2>3. /\ pageNo' \in {Previous, Following} /\ confirm = NoRecord
        /\ UNCHANGED <<page, loading, behind, confirm, selected>>
    BY <1>3 DEF TurnPage
  <2> QED
    BY <2>2, <2>3 DEF PageState
<1>4. ASSUME NEW r \in Records, Open(r)
      PROVE  PageState'
  <2>1. selected' # NoRecord
    BY <1>4 DEF Open, Record
  <2> QED
    BY <1>4, <2>1 DEF Open, PageState
<1>5. ASSUME NEW r, NEW a, OthersDecide(r, a)
      PROVE  PageState'
  BY <1>1, <1>5 DEF OthersDecide, dialog, PageState
<1>6. ASSUME NEW a, ChooseAction(a)
      PROVE  PageState'
  BY <1>6 DEF ChooseAction, PageState
<1>7. CASE CloseRecord \/ Type \/ CancelDialog
  BY <1>7 DEF CloseRecord, Type, CancelDialog, PageState
<1>8. CASE RunAction \/ SubmitDone
  BY <1>8 DEF RunAction, SubmitDone, PageState
<1>9. CASE Submit \/ ServerDecides \/ SubmitFails
  <2>1. /\ UNCHANGED <<page, pageNo, confirm, selected, loading>>
        /\ behind' \in {behind, behind \/ post.at = "done"}
    BY <1>9 DEF Submit, ServerDecides, SubmitFails, dialog
  <2> QED
    BY <1>1, <2>1 DEF PageState
<1>10. CASE UNCHANGED benchVars
  BY <1>1, <1>10 DEF benchVars, PageState
<1> QED
  BY <1>2, <1>3, <1>4, <1>5, <1>6, <1>7, <1>8, <1>9, <1>10 DEF BenchNext

(* The page keeps its place in the list, whatever rows come and go; it     *)
(* shows no dialog without its record, and no decision is on its way       *)
(* unless the page says so.                                                *)
THEOREM WorkbenchTyped ==
  ASSUME NEW table, Records # {},
         \A r \in Records : \A s : [id |-> r, status |-> s] # NoRecord
  PROVE  BenchSpec(table) => []WorkbenchTypeOK
<1>1. BenchInit(table) => PageState /\ BenchInv /\ TextInv
  <2>1. BenchInit(table) => PageState
    <3> SUFFICES ASSUME BenchInit(table) PROVE PageState
      OBVIOUS
    <3>1. /\ page \in LivePages /\ pageNo = 1 /\ loading = TRUE /\ behind = FALSE
          /\ confirm = NoRecord
      BY DEF BenchInit
    <3>2. 1 \in 1..Cardinality(Records)
      BY PagesBounded
    <3> QED
      BY <3>1, <3>2 DEF PageState
  <2> QED
    BY <2>1, InitBench DEF BenchInit, TextInv, TextIsForRecord
<1>2. PageState /\ BenchInv /\ TextInv /\ [BenchNext]_benchVars
        => (PageState /\ BenchInv /\ TextInv)'
  BY NextPageState, NextBench, NextText
<1>3. PageState /\ BenchInv /\ TextInv => WorkbenchTypeOK
  BY DEF PageState, BenchInv, BenchShapes, OneFetch, TextInv, WorkbenchTypeOK
<1> QED
  BY <1>1, <1>2, <1>3, PTL DEF BenchSpec


-----------------------------------------------------------------------------
(* The shapes of the page, of its requests and of its user's changes.      *)
OwnChange ==
  [at: {"none", "sent", "done", "told"},
   how: {"registered", "refetched", "patched"}, criteria: Criteria]

Ask ==
  [n: Nat, at: {"sent", "answered"}, criteria: Criteria, page: 1..MaxPages,
   has: SUBSET (1..MaxOwn), pages: 1..MaxPages]

DirectoryShapes ==
  /\ kind \in PageKinds /\ criteria \in Criteria
  /\ listPage \in 1..MaxPages /\ pages \in 1..MaxPages
  /\ list \in [criteria: Criteria, page: 1..MaxPages, has: SUBSET (1..MaxOwn)]
  /\ failed \in BOOLEAN /\ crossed \in BOOLEAN
  /\ own \in [1..MaxOwn -> OwnChange]
  /\ size \in [Criteria -> 1..MaxPages]
  /\ events \in Nat /\ newest \in Nat /\ newest <= events
  /\ asked \subseteq Ask

(* Only the registry has pages, and only the accounts are asked for again. *)
OnePage ==
  kind # "registry" => listPage = 1

Refetches == \A x \in 1..MaxOwn : own[x].how = "refetched" => kind # "registry"

(* Requests are numbered as they are made, and know no change to come.     *)
Numbered ==
  /\ \A f \in asked : f.n <= events /\ f.has \subseteq Done
  /\ \A f, g \in asked : f.n = g.n => f = g
  /\ list.has \subseteq Done

ListInv == DirectoryShapes /\ OnePage /\ Refetches /\ Numbered

-----------------------------------------------------------------------------
(* A request that an answer or a correction has overtaken.                 *)
Doomed == \E f \in asked : f.n < newest

(* A request that is the last event, and asks for what the inputs show.    *)
IsLatest(f) ==
  /\ f.n = events /\ f.criteria = criteria /\ f.page = listPage
  /\ f.at = "answered" => Told \subseteq f.has

Current ==
  /\ list.criteria = criteria /\ list.page = listPage
  /\ Told \subseteq list.has

(* The rows are current, or will be when the youngest request is answered, *)
(* unless something was or must be overtaken.                              *)
OnItsWay ==
  \/ crossed \/ Doomed
  \/ asked = {} /\ (failed \/ Current)
  \/ \E f \in asked : IsLatest(f)

LEMMA InitPage == DirectoryInit => ListInv /\ OnItsWay
<1> SUFFICES ASSUME DirectoryInit PROVE ListInv /\ OnItsWay
  OBVIOUS
<1> USE DirectoryAssumption
<1> DEFINE first == [n |-> 1, at |-> "sent", criteria |-> NoCriteria, page |-> 1,
                     has |-> {}, pages |-> 1]
<1>1. first \in Ask /\ NoChange \in OwnChange
  BY DEF Ask, OwnChange, NoChange
<1>2. asked = {first} /\ events = 1 /\ newest = 0
  BY DEF DirectoryInit
<1>3. first.n = 1 /\ first.has = {} /\ first.criteria = NoCriteria
      /\ first.page = 1 /\ first.at = "sent"
  OBVIOUS
<1> HIDE DEF first
<1>4. DirectoryShapes
  <2>1. list \in [criteria: Criteria, page: 1..MaxPages, has: SUBSET (1..MaxOwn)]
    BY DEF DirectoryInit
  <2>2. /\ own \in [1..MaxOwn -> OwnChange]
        /\ size \in [Criteria -> 1..MaxPages]
    BY <1>1 DEF DirectoryInit
  <2>3. /\ kind \in PageKinds /\ criteria \in Criteria
        /\ listPage \in 1..MaxPages /\ pages \in 1..MaxPages
    BY DEF DirectoryInit
  <2>6. failed \in BOOLEAN /\ crossed \in BOOLEAN
    BY DEF DirectoryInit
  <2>4. asked \subseteq Ask
    BY <1>1, <1>2
  <2>5. events \in Nat /\ newest \in Nat /\ newest <= events
    BY <1>2
  <2> QED
    BY <2>1, <2>2, <2>3, <2>4, <2>5, <2>6 DEF DirectoryShapes
<1>5. OnePage /\ Refetches /\ Numbered
  <2>1. OnePage /\ Refetches
    BY DEF DirectoryInit, OnePage, Refetches, NoChange
  <2>2. Numbered
    BY <1>2, <1>3 DEF DirectoryInit, Numbered
  <2> QED
    BY <2>1, <2>2
<1>6. IsLatest(first)
  BY <1>2, <1>3 DEF DirectoryInit, IsLatest
<1> QED
  BY <1>2, <1>4, <1>5, <1>6 DEF ListInv, OnItsWay

(* A request that is made now is the latest, and shapely.                  *)
LEMMA AskingLatest ==
  ASSUME ListInv, NEW c \in Criteria, NEW p \in 1..MaxPages, Asking(c, p)
  PROVE  /\ events' \in Nat /\ events' = events + 1
         /\ asked' \subseteq Ask
         /\ \A f \in asked' : f.n <= events' /\ f.has \subseteq Done
         /\ \A f, g \in asked' : f.n = g.n => f = g
         /\ \E f \in asked' : /\ f.n = events' /\ f.at = "sent"
                              /\ f.criteria = c /\ f.page = p
<1> DEFINE new == [n |-> events + 1, at |-> "sent", criteria |-> c, page |-> p,
                   has |-> {}, pages |-> 1]
<1> USE DirectoryAssumption
<1>1. events \in Nat /\ asked \subseteq Ask
  BY DEF ListInv, DirectoryShapes
<1>2. new \in Ask
  BY <1>1 DEF Ask
<1>3. events' = events + 1 /\ asked' = asked \cup {new}
  BY DEF Asking
<1>4. new.n = events + 1 /\ new.has = {} /\ new.at = "sent"
      /\ new.criteria = c /\ new.page = p
  OBVIOUS
<1>5. \A f \in asked : f.n \in Nat /\ f.n <= events /\ f.has \subseteq Done
  BY <1>1 DEF Ask, ListInv, Numbered
<1>6. \A f, g \in asked : f.n = g.n => f = g
  BY DEF ListInv, Numbered
<1> HIDE DEF new
<1> QED
  BY <1>1, <1>2, <1>3, <1>4, <1>5, <1>6

-----------------------------------------------------------------------------
(* What a change in its course leaves of the others.                       *)
LEMMA OwnMoves ==
  ASSUME ListInv, NEW x \in 1..MaxOwn, NEW c \in OwnChange,
         own' = [own EXCEPT ![x] = c]
  PROVE  /\ own' \in [1..MaxOwn -> OwnChange]
         /\ \A y \in 1..MaxOwn : own'[y] = IF y = x THEN c ELSE own[y]
         /\ own[x].at \in {"none", "sent"} \/ c.at \in {"done", "told"} =>
              Done \subseteq Done'
         /\ c.at # "told" /\ own[x].at # "told" => Told' = Told
         /\ Told' \subseteq Told \cup {x}
         /\ Told \subseteq Done /\ Told' \subseteq Done'
<1>1. own \in [1..MaxOwn -> OwnChange]
  BY DEF ListInv, DirectoryShapes
<1>2. /\ own' \in [1..MaxOwn -> OwnChange]
      /\ \A y \in 1..MaxOwn : own'[y] = IF y = x THEN c ELSE own[y]
  BY <1>1
<1>3. DOMAIN own = 1..MaxOwn /\ DOMAIN own' = 1..MaxOwn
  BY <1>1, <1>2
<1>4. /\ own[x].at \in {"none", "sent"} \/ c.at \in {"done", "told"} =>
           Done \subseteq Done'
      /\ c.at # "told" /\ own[x].at # "told" => Told' = Told
      /\ Told' \subseteq Told \cup {x}
  BY <1>2, <1>3 DEF Done, Told
<1>5. Told \subseteq Done /\ Told' \subseteq Done'
  BY <1>2, <1>3 DEF Done, Told
<1> QED
  BY <1>2, <1>4, <1>5

(* The page stays on pages that are there.                                 *)
LEMMA ButtonsLead ==
  ASSUME ListInv, NEW p \in Buttons
  PROVE  p \in 1..MaxPages
BY DirectoryAssumption DEF ListInv, DirectoryShapes, Buttons, NextPage, Lesser

LEMMA EditKeeps ==
  ASSUME ListInv, NEW c \in Criteria, EditCriteria(c)
  PROVE  ListInv' /\ OnItsWay'
<1> USE DirectoryAssumption
<1>1. 1 \in 1..MaxPages
  OBVIOUS
<1>2. Asking(c, 1)
  BY DEF EditCriteria, Wanted
<1>3. /\ events' \in Nat /\ events' = events + 1
      /\ asked' \subseteq Ask
      /\ \A f \in asked' : f.n <= events' /\ f.has \subseteq Done
      /\ \A f, g \in asked' : f.n = g.n => f = g
      /\ \E f \in asked' : /\ f.n = events' /\ f.at = "sent"
                           /\ f.criteria = c /\ f.page = 1
  BY <1>1, <1>2, AskingLatest
<1>4. /\ criteria' = c /\ listPage' = 1
      /\ UNCHANGED <<kind, pages, list, failed, newest, own, size, crossed>>
      /\ Done' = Done
  BY DEF EditCriteria, Done
<1>5. DirectoryShapes'
  BY <1>1, <1>3, <1>4 DEF ListInv, DirectoryShapes
<1>6. OnePage' /\ Refetches' /\ Numbered'
  BY <1>3, <1>4 DEF ListInv, OnePage, Refetches, Numbered
<1>7. \E f \in asked' : IsLatest(f)'
  BY <1>3, <1>4 DEF IsLatest
<1> QED
  BY <1>5, <1>6, <1>7 DEF ListInv, OnItsWay

LEMMA TurnKeeps ==
  ASSUME ListInv, OnItsWay, NEW p, Turn(p)
  PROVE  ListInv' /\ OnItsWay'
<1> USE DirectoryAssumption
<1>1. p \in 1..MaxPages /\ criteria \in Criteria /\ kind = "registry"
  BY ButtonsLead DEF Turn, ListInv, DirectoryShapes
<1>2. /\ listPage' = p
      /\ UNCHANGED <<kind, criteria, pages, list, failed, newest, own, size, crossed>>
      /\ Done' = Done /\ Told' = Told
  BY DEF Turn, Done, Told
<1>3. CASE p = listPage
  <2>1. UNCHANGED <<asked, events, listPage>>
    BY <1>2, <1>3 DEF Turn
  <2>2. ListInv'
    BY <1>2, <2>1 DEF ListInv, DirectoryShapes, OnePage, Refetches, Numbered
  <2>3. OnItsWay'
    BY <1>2, <2>1 DEF OnItsWay, Doomed, Current, IsLatest
  <2> QED
    BY <2>2, <2>3
<1>4. CASE p # listPage
  <2>1. Asking(criteria, p)
    BY <1>4 DEF Turn
  <2>2. /\ events' \in Nat /\ events' = events + 1
        /\ asked' \subseteq Ask
        /\ \A f \in asked' : f.n <= events' /\ f.has \subseteq Done
        /\ \A f, g \in asked' : f.n = g.n => f = g
        /\ \E f \in asked' : /\ f.n = events' /\ f.at = "sent"
                             /\ f.criteria = criteria /\ f.page = p
    BY <1>1, <2>1, AskingLatest
  <2>3. DirectoryShapes'
    BY <1>1, <1>2, <2>2 DEF ListInv, DirectoryShapes
  <2>4. OnePage' /\ Refetches' /\ Numbered'
    BY <1>1, <1>2, <2>2 DEF ListInv, OnePage, Refetches, Numbered
  <2>5. \E f \in asked' : IsLatest(f)'
    BY <1>2, <2>2 DEF IsLatest
  <2> QED
    BY <2>3, <2>4, <2>5 DEF ListInv, OnItsWay
<1> QED
  BY <1>3, <1>4

(* The server's answer knows all that was done.                            *)
LEMMA ListsKeeps ==
  ASSUME ListInv, OnItsWay, NEW f \in asked, ServerLists(f)
  PROVE  ListInv' /\ OnItsWay'
<1> DEFINE back == [f EXCEPT !.at = "answered", !.has = Done,
                             !.pages = size[f.criteria]]
<1>1. DirectoryShapes /\ OnePage /\ Refetches /\ Numbered /\ f \in Ask
  BY DEF ListInv, DirectoryShapes
<1>2. Done \subseteq 1..MaxOwn /\ Told \subseteq Done /\ size[f.criteria] \in 1..MaxPages
  BY <1>1 DEF DirectoryShapes, Ask, Done, Told
<1>3. /\ back \in Ask /\ back.n = f.n /\ back.criteria = f.criteria
      /\ back.page = f.page /\ back.has = Done
  BY <1>1, <1>2 DEF Ask
<1>4. asked' = (asked \ {f}) \cup {back}
  BY DEF ServerLists
<1>5. /\ UNCHANGED <<kind, criteria, listPage, pages, list, failed, events, newest,
                     own, size, crossed>>
      /\ Done' = Done /\ Told' = Told
  BY DEF ServerLists, inputs, Done, Told
<1> HIDE DEF back
<1>6. DirectoryShapes'
  BY <1>1, <1>3, <1>4, <1>5 DEF DirectoryShapes
<1>7. OnePage' /\ Refetches' /\ Numbered'
  BY <1>1, <1>3, <1>4, <1>5 DEF OnePage, Refetches, Numbered
<1>8. Doomed => Doomed'
  BY <1>3, <1>4, <1>5 DEF Doomed
<1>9. ASSUME NEW g \in asked, IsLatest(g) PROVE \E h \in asked' : IsLatest(h)'
  <2>1. CASE g = f
    BY <1>2, <1>3, <1>4, <1>5, <1>9, <2>1 DEF IsLatest
  <2>2. CASE g # f
    BY <1>4, <1>5, <1>9, <2>2 DEF IsLatest
  <2> QED
    BY <2>1, <2>2
<1>10. asked # {}
  OBVIOUS
<1> QED
  BY <1>5, <1>6, <1>7, <1>8, <1>9, <1>10 DEF ListInv, OnItsWay

(* An answer, or a failure, of the latest request leaves nobody on the way *)
(* or overtakes those who are; of an earlier one, leaves the latest.       *)
LEMMA ArrivalKeeps ==
  ASSUME ListInv, OnItsWay, NEW f \in asked, Arrived(f), asked' = asked \ {f},
         UNCHANGED <<kind, criteria, listPage, events, own, size>>
  PROVE  /\ newest' \in Nat /\ newest' <= events' /\ crossed' \in BOOLEAN
         /\ Refetches' /\ OnePage'
         /\ asked' \subseteq Ask
         /\ \A g \in asked' : g.n <= events' /\ g.has \subseteq Done'
         /\ \A g, h \in asked' : g.n = h.n => g = h
         /\ \/ crossed' \/ Doomed' \/ \E g \in asked' : IsLatest(g)'
            \/ asked' = {} /\ IsLatest(f)
<1>1. DirectoryShapes /\ OnePage /\ Refetches /\ Numbered /\ f \in Ask
  BY DEF ListInv, DirectoryShapes
<1>2. f.n \in Nat /\ newest \in Nat /\ events \in Nat /\ f.n <= events
      /\ newest <= events
  BY <1>1 DEF Ask, DirectoryShapes, Numbered
<1>3. Done' = Done /\ Told' = Told
  BY DEF Done, Told
<1>4. newest' \in Nat /\ newest' <= events' /\ newest <= newest'
      /\ f.n <= newest'
  BY <1>2 DEF Arrived
<1>5. crossed' \in BOOLEAN
  BY <1>1 DEF Arrived, DirectoryShapes
<1>6. /\ Refetches' /\ OnePage'
      /\ asked' \subseteq Ask
      /\ \A g \in asked' : g.n <= events' /\ g.has \subseteq Done'
      /\ \A g, h \in asked' : g.n = h.n => g = h
  BY <1>1, <1>3 DEF Refetches, OnePage, Numbered, DirectoryShapes
<1>7. CASE crossed
  BY <1>7, <1>5, <1>6, <1>4 DEF Arrived
<1>8. CASE Doomed
  <2>1. PICK g \in asked : g.n < newest
    BY <1>8 DEF Doomed
  <2>2. CASE g = f
    BY <2>1, <2>2, <1>4, <1>5, <1>6 DEF Arrived
  <2>3. CASE g # f
    <3>1. g.n \in Nat
      BY <1>1 DEF DirectoryShapes, Ask
    <3>2. g \in asked' /\ g.n < newest'
      BY <2>1, <2>3, <3>1, <1>2, <1>4
    <3> QED
      BY <3>2, <1>4, <1>5, <1>6 DEF Doomed
  <2> QED
    BY <2>2, <2>3
<1>9. ASSUME NEW g \in asked, IsLatest(g), g # f
      PROVE  \E h \in asked' : IsLatest(h)'
  BY <1>3, <1>9 DEF IsLatest
<1>10. ASSUME IsLatest(f), asked' # {} PROVE Doomed'
  <2>1. PICK g \in asked' : TRUE
    BY <1>10
  <2>2. g.n \in Nat /\ g.n <= events /\ g.n # f.n /\ f.n = events
    BY <1>1, <1>10 DEF DirectoryShapes, Ask, Numbered, IsLatest
  <2> QED
    BY <1>2, <1>4, <2>1, <2>2 DEF Doomed
<1> QED
  BY <1>4, <1>5, <1>6, <1>7, <1>8, <1>9, <1>10 DEF OnItsWay

LEMMA ComesKeeps ==
  ASSUME ListInv, OnItsWay, NEW f \in asked, ListComes(f)
  PROVE  ListInv' /\ OnItsWay'
<1>1. DirectoryShapes /\ Numbered /\ f \in Ask
  BY DEF ListInv, DirectoryShapes
<1>2. /\ Arrived(f) /\ asked' = asked \ {f}
      /\ UNCHANGED <<kind, criteria, listPage, events, own, size>>
      /\ list' = [criteria |-> f.criteria, page |-> f.page, has |-> f.has]
      /\ pages' = IF kind = "registry" THEN f.pages ELSE 1
      /\ Done' = Done /\ Told' = Told
  BY DEF ListComes, inputs, Done, Told
<1>3. /\ newest' \in Nat /\ newest' <= events' /\ crossed' \in BOOLEAN
      /\ Refetches' /\ OnePage'
      /\ asked' \subseteq Ask
      /\ \A g \in asked' : g.n <= events' /\ g.has \subseteq Done'
      /\ \A g, h \in asked' : g.n = h.n => g = h
      /\ \/ crossed' \/ Doomed' \/ \E g \in asked' : IsLatest(g)'
         \/ asked' = {} /\ IsLatest(f)
  BY <1>2, ArrivalKeeps
<1>4. pages' \in 1..MaxPages
  BY <1>1, <1>2, DirectoryAssumption DEF Ask
<1>5. /\ list' \in [criteria: Criteria, page: 1..MaxPages, has: SUBSET (1..MaxOwn)]
      /\ list'.criteria = f.criteria /\ list'.page = f.page /\ list'.has = f.has
  BY <1>1, <1>2 DEF Ask
<1>6. failed' \in BOOLEAN
  BY DEF ListComes
<1>7. DirectoryShapes'
  BY <1>1, <1>2, <1>3, <1>4, <1>5, <1>6 DEF DirectoryShapes
<1>8. Numbered'
  BY <1>1, <1>2, <1>3, <1>5 DEF Numbered
<1>9. IsLatest(f) => Current'
  <2>1. f.at = "answered"
    BY DEF ListComes
  <2> QED
    BY <2>1, <1>2, <1>5 DEF IsLatest, Current
<1> QED
  BY <1>3, <1>7, <1>8, <1>9 DEF ListInv, OnItsWay

LEMMA FailsKeeps ==
  ASSUME ListInv, OnItsWay, NEW f \in asked, ListFails(f)
  PROVE  ListInv' /\ OnItsWay'
<1>1. DirectoryShapes /\ Numbered
  BY DEF ListInv
<1>2. /\ Arrived(f) /\ asked' = asked \ {f} /\ failed' = TRUE
      /\ UNCHANGED <<kind, criteria, listPage, pages, list, events, own, size>>
      /\ Done' = Done
  BY DEF ListFails, inputs, Done
<1>3. /\ newest' \in Nat /\ newest' <= events' /\ crossed' \in BOOLEAN
      /\ Refetches' /\ OnePage'
      /\ asked' \subseteq Ask
      /\ \A g \in asked' : g.n <= events' /\ g.has \subseteq Done'
      /\ \A g, h \in asked' : g.n = h.n => g = h
      /\ \/ crossed' \/ Doomed' \/ \E g \in asked' : IsLatest(g)'
         \/ asked' = {} /\ IsLatest(f)
  BY <1>2, ArrivalKeeps
<1>4. DirectoryShapes' /\ Numbered'
  BY <1>1, <1>2, <1>3 DEF DirectoryShapes, Numbered
<1> QED
  BY <1>2, <1>3, <1>4 DEF ListInv, OnItsWay

(* A change on its way touches no request and no row.                      *)
LEMMA QuietKeeps ==
  ASSUME ListInv, OnItsWay, NEW x \in 1..MaxOwn, NEW c \in OwnChange,
         own' = [own EXCEPT ![x] = c],
         own[x].at \in {"none", "sent"}, c.at # "told",
         c.how = "refetched" => kind # "registry",
         UNCHANGED <<kind, inputs, pages, list, waiting, failed, asking, size, crossed>>
  PROVE  ListInv' /\ OnItsWay'
<1>1. DirectoryShapes /\ OnePage /\ Refetches /\ Numbered
  BY DEF ListInv
<1>2. /\ own' \in [1..MaxOwn -> OwnChange]
      /\ \A y \in 1..MaxOwn : own'[y] = IF y = x THEN c ELSE own[y]
      /\ Done \subseteq Done' /\ Told' = Told
  BY OwnMoves
<1>3. UNCHANGED <<kind, criteria, listPage, pages, list, failed, asked, events,
                  newest, size, crossed>>
  BY DEF inputs, asking
<1>4. DirectoryShapes'
  BY <1>1, <1>2, <1>3 DEF DirectoryShapes
<1>5. OnePage' /\ Refetches' /\ Numbered'
  BY <1>1, <1>2, <1>3 DEF OnePage, Refetches, Numbered
<1>6. OnItsWay'
  BY <1>2, <1>3 DEF OnItsWay, Doomed, Current, IsLatest
<1> QED
  BY <1>4, <1>5, <1>6 DEF ListInv

(* The handler of a change asks again, or corrects the row it shows.       *)
LEMMA BackKeeps ==
  ASSUME ListInv, OnItsWay, NEW x \in 1..MaxOwn, ChangeBack(x)
  PROVE  ListInv' /\ OnItsWay'
<1> USE DirectoryAssumption
<1> DEFINE c == [own[x] EXCEPT !.at = "told"]
<1>1. DirectoryShapes /\ OnePage /\ Refetches /\ Numbered /\ own[x] \in OwnChange
  BY DEF ListInv, DirectoryShapes
<1>2. c \in OwnChange /\ c.at = "told" /\ c.how = own[x].how
  BY <1>1 DEF OwnChange
<1>3. own' = [own EXCEPT ![x] = c]
  BY <1>1 DEF ChangeBack, DirectoryShapes
<1> HIDE DEF c
<1>4. /\ own' \in [1..MaxOwn -> OwnChange]
      /\ \A y \in 1..MaxOwn : own'[y] = IF y = x THEN c ELSE own[y]
      /\ Done \subseteq Done' /\ Told' \subseteq Told \cup {x}
      /\ Told' \subseteq Done'
  BY <1>2, <1>3, OwnMoves
<1>5. UNCHANGED <<kind, criteria, pages, failed, size>>
  BY DEF ChangeBack
<1>6. Refetches' /\ x \in Done'
  <2>1. DOMAIN own' = 1..MaxOwn
    BY <1>4
  <2> QED
    BY <1>1, <1>2, <1>4, <1>5, <2>1 DEF Refetches, Done
<1>7. 1 \in 1..MaxPages /\ criteria \in Criteria /\ own[x].criteria \in Criteria
  BY <1>1 DEF DirectoryShapes, OwnChange
<1>8. CASE /\ own[x].how = "registered"
           /\ listPage' = 1 /\ Asking(criteria, 1)
           /\ UNCHANGED <<list, newest, crossed>>
  <2>1. /\ events' \in Nat /\ events' = events + 1
        /\ asked' \subseteq Ask
        /\ \A f \in asked' : f.n <= events' /\ f.has \subseteq Done
        /\ \A f, g \in asked' : f.n = g.n => f = g
        /\ \E f \in asked' : /\ f.n = events' /\ f.at = "sent"
                             /\ f.criteria = criteria /\ f.page = 1
    BY <1>7, <1>8, AskingLatest
  <2>2. DirectoryShapes'
    BY <1>1, <1>4, <1>5, <1>7, <1>8, <2>1 DEF DirectoryShapes
  <2>3. OnePage' /\ Numbered'
    BY <1>1, <1>4, <1>5, <1>8, <2>1 DEF OnePage, Numbered
  <2>4. \E f \in asked' : IsLatest(f)'
    BY <1>5, <1>8, <2>1 DEF IsLatest
  <2> QED
    BY <1>6, <2>2, <2>3, <2>4 DEF ListInv, OnItsWay
<1>9. CASE /\ own[x].how = "refetched"
           /\ Asking(own[x].criteria, 1)
           /\ crossed' = (crossed \/ own[x].criteria # criteria)
           /\ UNCHANGED <<list, listPage, newest>>
  <2>1. /\ events' \in Nat /\ events' = events + 1
        /\ asked' \subseteq Ask
        /\ \A f \in asked' : f.n <= events' /\ f.has \subseteq Done
        /\ \A f, g \in asked' : f.n = g.n => f = g
        /\ \E f \in asked' : /\ f.n = events' /\ f.at = "sent"
                             /\ f.criteria = own[x].criteria /\ f.page = 1
    BY <1>7, <1>9, AskingLatest
  <2>2. listPage = 1
    BY <1>1, <1>9 DEF OnePage, Refetches
  <2>3. DirectoryShapes'
    <3>1. crossed' \in BOOLEAN
      BY <1>1, <1>9 DEF DirectoryShapes
    <3> QED
      BY <1>1, <1>4, <1>5, <1>9, <2>1, <3>1 DEF DirectoryShapes
  <2>4. OnePage' /\ Numbered'
    BY <1>1, <1>4, <1>5, <1>9, <2>1 DEF OnePage, Numbered
  <2>5. crossed' \/ \E f \in asked' : IsLatest(f)'
    BY <1>5, <1>9, <2>1, <2>2 DEF IsLatest
  <2> QED
    BY <1>6, <2>3, <2>4, <2>5 DEF ListInv, OnItsWay
<1>10. CASE /\ list' = [list EXCEPT !.has = @ \cup {x}]
            /\ events' = events + 1 /\ newest' = events + 1
            /\ UNCHANGED <<listPage, asked, crossed>>
  <2>1. /\ list' \in [criteria: Criteria, page: 1..MaxPages, has: SUBSET (1..MaxOwn)]
        /\ list'.criteria = list.criteria /\ list'.page = list.page
        /\ list'.has = list.has \cup {x}
    BY <1>1, <1>10 DEF DirectoryShapes
  <2>2. DirectoryShapes'
    BY SMTT(30), <1>1, <1>4, <1>5, <1>10, <2>1 DEF DirectoryShapes
  <2>3. \A f \in asked : f.n \in Nat /\ f.n <= events
    BY <1>1 DEF DirectoryShapes, Ask, Numbered
  <2>4. OnePage' /\ Numbered'
    <3>1. events \in Nat
      BY <1>1 DEF DirectoryShapes
    <3>2. \A f \in asked' : f.n <= events' /\ f.has \subseteq Done'
      BY <1>1, <1>4, <1>10, <2>3, <3>1 DEF Numbered
    <3> QED
      BY <1>1, <1>4, <1>5, <1>6, <1>10, <2>1, <3>2 DEF OnePage, Numbered
  <2>5. asked # {} => Doomed'
    <3>1. events \in Nat
      BY <1>1 DEF DirectoryShapes
    <3> QED
      BY <1>10, <2>3, <3>1 DEF Doomed
  <2>6. asked = {} => crossed' \/ (asked' = {} /\ (failed' \/ Current'))
    BY <1>4, <1>5, <1>10, <2>1 DEF OnItsWay, Doomed, Current
  <2> QED
    BY <1>6, <2>2, <2>4, <2>5, <2>6 DEF ListInv, OnItsWay
<1> QED
  BY <1>8, <1>9, <1>10 DEF ChangeBack

LEMMA NextDirectory ==
  ListInv /\ OnItsWay /\ [DirectoryNext]_directoryVars => ListInv' /\ OnItsWay'
<1> SUFFICES ASSUME ListInv, OnItsWay, [DirectoryNext]_directoryVars
             PROVE  ListInv' /\ OnItsWay'
  OBVIOUS
<1>1. own \in [1..MaxOwn -> OwnChange] /\ DOMAIN own = 1..MaxOwn
  BY DEF ListInv, DirectoryShapes
<1>2. ASSUME NEW c \in Criteria, NEW n \in 1..MaxPages, Resize(c, n)
      PROVE  ListInv' /\ OnItsWay'
  <2>1. /\ UNCHANGED <<kind, criteria, listPage, pages, list, failed, asked, events,
                       newest, own, crossed>>
        /\ Done' = Done /\ Told' = Told
    BY <1>2 DEF Resize, inputs, asking, Done, Told
  <2>2. size' \in [Criteria -> 1..MaxPages]
    BY <1>2 DEF Resize, ListInv, DirectoryShapes
  <2> QED
    BY <2>1, <2>2
       DEF ListInv, DirectoryShapes, OnePage, Refetches, Numbered, OnItsWay, Doomed,
           Current, IsLatest
<1>3. ASSUME NEW x \in 1..MaxOwn,
             NEW how \in {"registered", "refetched", "patched"}, Change(x, how)
      PROVE  ListInv' /\ OnItsWay'
  <2> DEFINE c == [at |-> "sent", how |-> how, criteria |-> criteria]
  <2>1. c \in OwnChange /\ c.at # "told" /\ c.how = how
    BY DEF OwnChange, ListInv, DirectoryShapes
  <2>2. own' = [own EXCEPT ![x] = c] /\ own[x].at \in {"none", "sent"}
    BY <1>3 DEF Change
  <2>3. how = "refetched" => kind # "registry"
    BY <1>3 DEF Change, ChangeKinds
  <2>4. UNCHANGED <<kind, inputs, pages, list, waiting, failed, asking, size, crossed>>
    BY <1>3 DEF Change
  <2> HIDE DEF c
  <2> QED
    BY <2>1, <2>2, <2>3, <2>4, QuietKeeps
<1>4. ASSUME NEW x \in 1..MaxOwn, ServerChanges(x)
      PROVE  ListInv' /\ OnItsWay'
  <2> DEFINE c == [own[x] EXCEPT !.at = "done"]
  <2>1. c \in OwnChange /\ c.at # "told" /\ c.how = own[x].how
    BY <1>1 DEF OwnChange
  <2>2. own' = [own EXCEPT ![x] = c] /\ own[x].at \in {"none", "sent"}
    BY <1>1, <1>4 DEF ServerChanges
  <2>3. own[x].how = "refetched" => kind # "registry"
    BY DEF ListInv, Refetches
  <2>4. UNCHANGED <<kind, inputs, pages, list, waiting, failed, asking, size, crossed>>
    BY <1>4 DEF ServerChanges
  <2> HIDE DEF c
  <2> QED
    BY <2>1, <2>2, <2>3, <2>4, QuietKeeps
<1>5. ASSUME NEW x \in 1..MaxOwn, ChangeFails(x)
      PROVE  ListInv' /\ OnItsWay'
  <2>1. NoChange \in OwnChange /\ NoChange.at # "told" /\ NoChange.how # "refetched"
    BY DirectoryAssumption DEF NoChange, OwnChange
  <2>2. own' = [own EXCEPT ![x] = NoChange] /\ own[x].at \in {"none", "sent"}
    BY <1>5 DEF ChangeFails
  <2>4. UNCHANGED <<kind, inputs, pages, list, waiting, failed, asking, size, crossed>>
    BY <1>5 DEF ChangeFails
  <2> QED
    BY <2>1, <2>2, <2>4, QuietKeeps
<1>6. CASE UNCHANGED directoryVars
  <2>1. /\ UNCHANGED <<kind, criteria, listPage, pages, list, failed, asked, events,
                       newest, own, size, crossed>>
        /\ Done' = Done /\ Told' = Told
    BY <1>6 DEF directoryVars, inputs, asking, Done, Told
  <2> QED
    BY <2>1
       DEF ListInv, DirectoryShapes, OnePage, Refetches, Numbered, OnItsWay, Doomed,
           Current, IsLatest
<1> QED
  BY <1>1, <1>2, <1>3, <1>4, <1>5, <1>6, EditKeeps, TurnKeeps, ListsKeeps,
     ComesKeeps, FailsKeeps, BackKeeps
     DEF DirectoryNext

(* The page and its requests keep their types, and it stays on pages that  *)
(* a result has had.                                                       *)
THEOREM DirectoryTyped == DirectorySpec => []DirectoryTypeOK
<1>1. ListInv => DirectoryTypeOK
  BY DEF ListInv, DirectoryShapes, Numbered, DirectoryTypeOK
<1> QED
  BY <1>1, InitPage, NextDirectory, PTL DEF DirectorySpec

(* At rest the rows answer to what the inputs show and have every change   *)
(* that was confirmed, in whatever order the answers came: unless loading  *)
(* failed, or an answer was overtaken.                                     *)
THEOREM ListStaysCurrent == DirectorySpec => []ListIsCurrent
<1>1. OnItsWay => ListIsCurrent
  BY DEF OnItsWay, Doomed, Current, ListIsCurrent
<1> QED
  BY <1>1, InitPage, NextDirectory, PTL DEF DirectorySpec

-----------------------------------------------------------------------------
LEMMA NextWaits ==
  WaitsForAnswer /\ [DirectoryNext]_directoryVars => WaitsForAnswer'
<1> SUFFICES ASSUME WaitsForAnswer, [DirectoryNext]_directoryVars
             PROVE  WaitsForAnswer'
  OBVIOUS
<1> USE DEF WaitsForAnswer
<1>1. ASSUME NEW c, NEW p, Asking(c, p) PROVE asked' # {}
  BY <1>1 DEF Asking
<1>2. ASSUME NEW c \in Criteria, EditCriteria(c) PROVE WaitsForAnswer'
  BY <1>1, <1>2 DEF EditCriteria
<1>3. ASSUME NEW p, Turn(p) PROVE WaitsForAnswer'
  BY <1>1, <1>3 DEF Turn
<1>4. ASSUME NEW f \in asked, ServerLists(f) \/ ListComes(f) \/ ListFails(f)
      PROVE  WaitsForAnswer'
  BY <1>4 DEF ServerLists, ListComes, ListFails, AfterFailure
<1>5. ASSUME NEW x, ChangeBack(x) PROVE WaitsForAnswer'
  BY <1>1, <1>5 DEF ChangeBack
<1>6. CASE \/ (\E c \in Criteria, n \in 1..MaxPages : Resize(c, n))
           \/ (\E x \in DOMAIN own :
                 \/ \E how \in {"registered", "refetched", "patched"} : Change(x, how)
                 \/ ServerChanges(x) \/ ChangeFails(x))
           \/ UNCHANGED directoryVars
  BY <1>6 DEF Resize, Change, ServerChanges, ChangeFails, directoryVars, asking
<1> QED
  BY <1>2, <1>3, <1>4, <1>5, <1>6 DEF DirectoryNext

(* The page waits only while an answer is to come.                         *)
THEOREM NeverWaitsInVain == DirectorySpec => []WaitsForAnswer
<1>1. DirectoryInit => WaitsForAnswer
  BY DEF DirectoryInit, WaitsForAnswer
<1> QED
  BY <1>1, NextWaits, PTL DEF DirectorySpec
=============================================================================
