------------------------------ MODULE Directory ------------------------------
(***************************************************************************)
(* The pages that list what the server has: AssetRegistryList ("registry") *)
(* with its registration form, UsersPage ("users") and AuditLogPage        *)
(* ("audit").  Each keystroke and each choice of a filter or of a page     *)
(* asks the server again, no request is ever cancelled, and the answers    *)
(* come back in any order.                                                 *)
(*                                                                         *)
(* Search words, filters and dates together are the `criteria'.  What the  *)
(* user changes on the page is a numbered change; an answer carries the    *)
(* changes the server had made when it answered.                           *)
(***************************************************************************)
EXTENDS Naturals

CONSTANTS
  Criteria, NoCriteria,
  MaxPages,     \* pages of the longest list
  MaxEvents,    \* bound on requests and local updates
  MaxOwn        \* bound on the user's own changes

ASSUME DirectoryAssumption ==
  /\ NoCriteria \in Criteria
  /\ MaxPages \in Nat \ {0} /\ MaxEvents \in Nat /\ MaxOwn \in Nat

VARIABLES
  kind,      \* which of the three pages, fixed
  criteria,  \* what the inputs show
  listPage,  \* `page' of the registry
  pages,     \* totalPages, as last answered
  list,      \* [criteria, page, has] the rows are the answer to
  waiting,   \* loading
  failed,    \* the last request failed
  asked,     \* list requests on their way
  events,    \* requests and local updates so far
  newest,    \* ... up to which the rows are
  own,       \* [1..MaxOwn -> a change made on this page]
  size,      \* server: [Criteria -> pages of the result]
  reclicked, \* history: the button of the page shown was clicked
  crossed    \* history: an answer was overtaken, or asked for old criteria

asking == <<asked, events, newest>>
inputs == <<criteria, listPage>>
directoryVars ==
  <<kind, inputs, pages, list, waiting, failed, asking, own, size, reclicked,
    crossed>>

PageKinds == {"registry", "users", "audit"}

(* After its success the page asks for the list from the start, asks again *)
(* for what it showed, or corrects the row it has.                         *)
ChangeKinds ==
  [registry |-> {"registered"},
   users |-> {"refetched", "patched"},
   audit |-> {}]

NoChange == [at |-> "none", how |-> "patched", criteria |-> NoCriteria]

Done == {x \in DOMAIN own : own[x].at \in {"done", "told"}}
Told == {x \in DOMAIN own : own[x].at = "told"}

-----------------------------------------------------------------------------
Asking(c, p) ==
  /\ events < MaxEvents
  /\ events' = events + 1
  /\ asked' = asked \cup {[n |-> events + 1, at |-> "sent", criteria |-> c,
                            page |-> p, has |-> {}, pages |-> 1]}

(* The page asks for what its inputs show after this event.                *)
WantedStale(c) == criteria   \* mutant: ... before this event

Wanted(c) == c

(* A search word, a filter, a date.                                        *)
EditCriteria(c) ==
  /\ c # criteria
  /\ criteria' = c /\ listPage' = 1
  /\ Asking(Wanted(c), 1)
  /\ waiting' = TRUE /\ reclicked' = FALSE
  /\ UNCHANGED <<kind, pages, list, failed, newest, own, size, crossed>>

Lesser(m, n) == IF m < n THEN m ELSE n

NextPage == Lesser(pages, listPage + 1)

(* The buttons below the list: Previous, Next, and the visible pages.      *)
Buttons ==
  (IF listPage = 1 THEN {} ELSE {listPage - 1})
  \cup (IF listPage = pages THEN {} ELSE {NextPage})
  \cup {p \in 1..pages : p \in {1, pages, listPage - 1, listPage, listPage + 1}}

(* The effect that asks again runs when the page has changed.              *)
Turn(p) ==
  /\ kind = "registry" /\ p \in Buttons
  /\ listPage' = p
  /\ waiting' = TRUE
  /\ reclicked' = (p = listPage)
  /\ IF p = listPage
     THEN UNCHANGED <<asked, events>>
     ELSE Asking(criteria, p)
  /\ UNCHANGED <<kind, criteria, pages, list, failed, newest, own, size, crossed>>

-----------------------------------------------------------------------------
(* GET /v1/assets, /v1/users, /v1/audit.                                   *)
ServerLists(f) ==
  /\ f \in asked /\ f.at = "sent"
  /\ asked' = (asked \ {f})
                \cup {[f EXCEPT !.at = "answered", !.has = Done,
                                !.pages = size[f.criteria]]}
  /\ UNCHANGED <<kind, inputs, pages, list, waiting, failed, events, newest,
                 own, size, reclicked, crossed>>

Arrived(f) ==
  /\ crossed' = (crossed \/ f.n < newest)
  /\ newest' = IF f.n < newest THEN newest ELSE f.n

ListComes(f) ==
  /\ f \in asked /\ f.at = "answered"
  /\ asked' = asked \ {f}
  /\ list' = [criteria |-> f.criteria, page |-> f.page, has |-> f.has]
  /\ pages' = IF kind = "registry" THEN f.pages ELSE 1
  /\ waiting' = FALSE /\ failed' = FALSE
  /\ Arrived(f)
  /\ UNCHANGED <<kind, inputs, events, own, size, reclicked>>

AfterFailureWaits == waiting   \* mutant: without the finally

AfterFailure == FALSE

ListFails(f) ==
  /\ f \in asked
  /\ asked' = asked \ {f}
  /\ Arrived(f)
  /\ waiting' = AfterFailure /\ failed' = TRUE
  /\ UNCHANGED <<kind, inputs, pages, list, events, own, size, reclicked>>

-----------------------------------------------------------------------------
(* The registration form; Reactivate and Unlock; Deactivate, the account   *)
(* form and the approval routing.                                          *)
Change(x, how) ==
  /\ how \in ChangeKinds[kind] /\ own[x].at = "none"
  /\ own' = [own EXCEPT ![x] = [at |-> "sent", how |-> how, criteria |-> criteria]]
  /\ UNCHANGED <<kind, inputs, pages, list, waiting, failed, asking, size,
                 reclicked, crossed>>

ServerChanges(x) ==
  /\ own[x].at = "sent"
  /\ own' = [own EXCEPT ![x].at = "done"]
  /\ UNCHANGED <<kind, inputs, pages, list, waiting, failed, asking, size,
                 reclicked, crossed>>

(* The handler resumes with the search it was called with.                 *)
ChangeBack(x) ==
  /\ own[x].at = "done"
  /\ own' = [own EXCEPT ![x].at = "told"]
  /\ \/ /\ own[x].how = "registered"
        /\ listPage' = 1 /\ waiting' = TRUE /\ reclicked' = FALSE
        /\ Asking(criteria, 1)
        /\ UNCHANGED <<list, newest, crossed>>
     \/ /\ own[x].how = "refetched"
        /\ Asking(own[x].criteria, 1)
        /\ crossed' = (crossed \/ own[x].criteria # criteria)
        /\ UNCHANGED <<list, listPage, waiting, newest, reclicked>>
     \/ /\ own[x].how = "patched" /\ events < MaxEvents
        /\ list' = [list EXCEPT !.has = @ \cup {x}]
        /\ events' = events + 1 /\ newest' = events + 1
        /\ UNCHANGED <<listPage, waiting, asked, reclicked, crossed>>
  /\ UNCHANGED <<kind, criteria, pages, failed, size>>

ChangeFails(x) ==
  /\ own[x].at = "sent"
  /\ own' = [own EXCEPT ![x] = NoChange]
  /\ UNCHANGED <<kind, inputs, pages, list, waiting, failed, asking, size,
                 reclicked, crossed>>

(* What other users register, retire or do makes a result longer, shorter. *)
Resize(c, n) ==
  /\ kind = "registry" /\ n # size[c]
  /\ size' = [size EXCEPT ![c] = n]
  /\ UNCHANGED <<kind, inputs, pages, list, waiting, failed, asking, own,
                 reclicked, crossed>>

DirectoryInit ==
  /\ kind \in PageKinds
  /\ criteria = NoCriteria /\ listPage = 1 /\ pages = 1
  /\ list = [criteria |-> NoCriteria, page |-> 1, has |-> {}]
  /\ waiting = TRUE /\ failed = FALSE
  /\ asked = {[n |-> 1, at |-> "sent", criteria |-> NoCriteria, page |-> 1,
               has |-> {}, pages |-> 1]}
  /\ events = 1 /\ newest = 0
  /\ own = [x \in 1..MaxOwn |-> NoChange]
  /\ size = [c \in Criteria |-> MaxPages]
  /\ reclicked = FALSE /\ crossed = FALSE

DirectoryNext ==
  \/ \E c \in Criteria : EditCriteria(c) \/ \E n \in 1..MaxPages : Resize(c, n)
  \/ \E p \in 1..MaxPages + 1 : Turn(p)
  \/ \E f \in asked : ServerLists(f) \/ ListComes(f) \/ ListFails(f)
  \/ \E x \in DOMAIN own :
       \/ \E how \in {"registered", "refetched", "patched"} : Change(x, how)
       \/ ServerChanges(x) \/ ChangeBack(x) \/ ChangeFails(x)

DirectorySpec == DirectoryInit /\ [][DirectoryNext]_directoryVars

-----------------------------------------------------------------------------
(* The page keeps its types: however the result shrinks behind it, its     *)
(* buttons lead to no page that no result ever had.                        *)
DirectoryTypeOK ==
  /\ criteria \in Criteria
  /\ listPage \in 1..MaxPages /\ pages \in 1..MaxPages
  /\ list.criteria \in Criteria /\ list.has \subseteq Done
  /\ newest <= events

(***************************************************************************)
(* At rest, the rows are the answer to what the inputs show, with every    *)
(* change the page has confirmed to its user, over any typing, paging and  *)
(* changing: unless the page has said that loading failed, an answer was   *)
(* overtaken by a younger one, or a change came back to another search.    *)
(***************************************************************************)
ListIsCurrent ==
  asked = {} /\ ~failed /\ ~crossed =>
    /\ list.criteria = criteria
    /\ list.page = listPage
    /\ Told \subseteq list.has

(***************************************************************************)
(* The page shows its skeleton only while an answer is to come, whatever   *)
(* fails; only a click on the button of the page that is shown leaves it   *)
(* waiting for nothing.                                                    *)
(***************************************************************************)
WaitsForAnswer == waiting => asked # {} \/ reclicked
=============================================================================
