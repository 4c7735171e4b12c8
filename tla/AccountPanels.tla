---------------------------- MODULE AccountPanels ----------------------------
(***************************************************************************)
(* The panels that UsersPage opens on one account: ApprovalRoutingPanel,   *)
(* which sets a supervisor's alternate and absence, and                    *)
(* PasswordResetDialog.  Both keep React state of their own while the row  *)
(* they were opened on changes under them, and both let the administrator  *)
(* go on to another account before the server has answered.                *)
(*                                                                         *)
(* The date of an absence goes with it; a new password is represented by   *)
(* the account it was typed for.                                           *)
(***************************************************************************)
EXTENDS Naturals, FiniteSets

CONSTANTS
  Accounts,
  Supervisors,  \* the accounts that have a routing panel
  Colleagues,   \* supervisors who may stand in for them
  NoOne,
  MaxUpdates,   \* bound on the changes of an account
  MaxPending    \* bound on the requests of each panel on their way

ASSUME PanelsAssumption ==
  /\ NoOne \notin Accounts \cup Colleagues
  /\ Supervisors \subseteq Accounts
  /\ MaxUpdates \in Nat /\ MaxPending \in Nat

VARIABLES
  routing,   \* [Supervisors -> alternate and absence, at the server]
  listed,    \* [Supervisors -> ... in the rows of the page]
  drawer,    \* the account in the drawer, or NoOne
  panel,     \* state of the routing panel
  patches,   \* PATCH requests of the panel on their way
  target,    \* the account in the password dialog, or NoOne
  password,  \* the account its text was typed for, or NoOne
  resetting, \* submitting
  resets,    \* password requests on their way
  touched,   \* history: the fields the administrator has set in the panel
  renewed    \* history: the row has changed since the panel was opened

panelsVars ==
  <<routing, listed, drawer, panel, patches, target, password, resetting, resets,
    touched, renewed>>

RoutingFields == {"alternate", "away"}

Routing ==
  [alternate: {NoOne} \cup Colleagues, away: BOOLEAN, changes: 0..MaxUpdates]

Unset == [alternate |-> NoOne, away |-> FALSE, changes |-> 0]

Shut == [alternate |-> NoOne, away |-> FALSE, saving |-> FALSE, loaded |-> FALSE]

-----------------------------------------------------------------------------
(* The drawer mounts the panel from the row, keyed by the account.         *)
OpenDrawer(u) ==
  /\ drawer = NoOne /\ target = NoOne
  /\ drawer' = u
  /\ panel' = IF u \in Supervisors
              THEN [Shut EXCEPT !.alternate = listed[u].alternate,
                                !.away = listed[u].away]
              ELSE Shut
  /\ touched' = {} /\ renewed' = FALSE
  /\ UNCHANGED <<routing, listed, patches, target, password, resetting, resets>>

Forgotten(pending) == {[c EXCEPT !.mounted = FALSE] : c \in pending}

CloseDrawer ==
  /\ drawer # NoOne /\ target = NoOne
  /\ drawer' = NoOne /\ panel' = Shut
  /\ patches' = Forgotten(patches)
  /\ touched' = {} /\ renewed' = FALSE
  /\ UNCHANGED <<routing, listed, target, password, resetting, resets>>

(* The list of supervisors comes; an alternate who is not in it is dropped.*)
SupervisorsCome(present) ==
  /\ drawer \in Supervisors /\ ~panel.loaded
  /\ panel' = [panel EXCEPT !.loaded = TRUE,
                 !.alternate = IF @ \in present THEN @ ELSE NoOne]
  /\ touched' = touched \cup
       (IF panel.alternate \in present \cup {NoOne} THEN {} ELSE {"alternate"})
  /\ UNCHANGED <<routing, listed, drawer, patches, target, password, resetting,
                 resets, renewed>>

SetRouting(field, value) ==
  /\ drawer \in Supervisors /\ target = NoOne
  /\ panel[field] # value
  /\ panel' = [panel EXCEPT ![field] = value]
  /\ touched' = touched \cup {field}
  /\ UNCHANGED <<routing, listed, drawer, patches, target, password, resetting,
                 resets, renewed>>

(* save() sends the fields that differ from the row it is rendered with.   *)
ChangedAll == RoutingFields   \* mutant: the whole panel

Changed == {f \in RoutingFields : panel[f] # listed[drawer][f]}

SaveRouting ==
  /\ drawer \in Supervisors /\ target = NoOne /\ ~panel.saving
  /\ Changed # {} /\ Cardinality(patches) < MaxPending
  /\ panel' = [panel EXCEPT !.saving = TRUE]
  /\ patches' = patches \cup
       {[on |-> drawer, fields |-> Changed, alternate |-> panel.alternate,
         away |-> panel.away, touched |-> touched, renewed |-> renewed,
         mounted |-> TRUE, at |-> "sent", answer |-> routing[drawer]]}
  /\ UNCHANGED <<routing, listed, drawer, target, password, resetting, resets,
                 touched, renewed>>

(* PATCH /v1/users/:id, and its answer, the account as it is then.         *)
ServerRoutes(s) ==
  LET old == routing[s.on]
      new == [alternate |-> IF "alternate" \in s.fields THEN s.alternate ELSE old.alternate,
              away |-> IF "away" \in s.fields THEN s.away ELSE old.away,
              changes |-> old.changes + 1]
  IN
  /\ s.at = "sent" /\ old.changes < MaxUpdates
  /\ routing' = [routing EXCEPT ![s.on] = new]
  /\ patches' = (patches \ {s}) \cup {[s EXCEPT !.at = "done", !.answer = new]}
  /\ UNCHANGED <<listed, drawer, panel, target, password, resetting, resets,
                 touched, renewed>>

(* A panel that is closed by then has no state; the row is updated still.  *)
SaveBack(s) ==
  /\ s.at = "done"
  /\ patches' = patches \ {s}
  /\ listed' = [listed EXCEPT ![s.on] = s.answer]
  /\ renewed' = (renewed \/ (drawer = s.on /\ listed[s.on] # s.answer))
  /\ panel' = [panel EXCEPT !.saving = @ /\ ~s.mounted]
  /\ UNCHANGED <<routing, drawer, target, password, resetting, resets, touched>>

SaveFails(s) ==
  /\ s.at = "sent"
  /\ patches' = patches \ {s}
  /\ panel' = [panel EXCEPT !.saving = @ /\ ~s.mounted]
  /\ UNCHANGED <<routing, listed, drawer, target, password, resetting, resets,
                 touched, renewed>>

(* The supervisor's own switch.                                            *)
OwnAvailability(u) ==
  /\ routing[u].changes < MaxUpdates
  /\ routing' = [routing EXCEPT ![u].away = ~@, ![u].changes = @ + 1]
  /\ UNCHANGED <<listed, drawer, panel, patches, target, password, resetting,
                 resets, touched, renewed>>

(* A search, an unlocking or a reactivation fetches the rows again.        *)
ListAgain ==
  /\ listed' = routing
  /\ renewed' = (renewed \/ (drawer \in Supervisors /\ listed[drawer] # routing[drawer]))
  /\ UNCHANGED <<routing, drawer, panel, patches, target, password, resetting,
                 resets, touched>>

-----------------------------------------------------------------------------
(* The password dialog is keyed by its account: a new one starts empty.    *)
EmptyKept == password   \* mutant: without the key

Empty == NoOne

OpenReset ==
  /\ drawer # NoOne /\ target = NoOne
  /\ target' = drawer /\ password' = Empty /\ resetting' = FALSE
  /\ UNCHANGED <<routing, listed, drawer, panel, patches, resets, touched, renewed>>

TypePassword ==
  /\ target # NoOne
  /\ password' = target
  /\ UNCHANGED <<routing, listed, drawer, panel, patches, target, resetting,
                 resets, touched, renewed>>

CancelReset ==
  /\ target # NoOne
  /\ target' = NoOne /\ password' = Empty /\ resetting' = FALSE
  /\ resets' = Forgotten(resets)
  /\ UNCHANGED <<routing, listed, drawer, panel, patches, touched, renewed>>

SubmitReset ==
  /\ target # NoOne /\ password # NoOne /\ ~resetting
  /\ Cardinality(resets) < MaxPending
  /\ resetting' = TRUE
  /\ resets' = resets \cup {[on |-> target, text |-> password, mounted |-> TRUE]}
  /\ UNCHANGED <<routing, listed, drawer, panel, patches, target, password,
                 touched, renewed>>

(* onDone() and onClose() are the page's: they close whatever is open.     *)
ResetBack(c) ==
  /\ c \in resets
  /\ resets' = Forgotten(resets \ {c})
  /\ target' = NoOne /\ password' = Empty /\ resetting' = FALSE
  /\ UNCHANGED <<routing, listed, drawer, panel, patches, touched, renewed>>

ResetFails(c) ==
  /\ c \in resets
  /\ resets' = resets \ {c}
  /\ resetting' = (resetting /\ ~c.mounted)
  /\ UNCHANGED <<routing, listed, drawer, panel, patches, target, password,
                 touched, renewed>>

PanelsInit ==
  /\ routing = [u \in Supervisors |-> Unset]
  /\ listed = routing
  /\ drawer = NoOne /\ panel = Shut /\ patches = {}
  /\ target = NoOne /\ password = NoOne /\ resetting = FALSE /\ resets = {}
  /\ touched = {} /\ renewed = FALSE

PanelsNext ==
  \/ \E u \in Accounts : OpenDrawer(u)
  \/ \E u \in Supervisors : OwnAvailability(u)
  \/ CloseDrawer \/ SaveRouting \/ ListAgain
  \/ \E present \in SUBSET Colleagues : SupervisorsCome(present)
  \/ \E u \in {NoOne} \cup Colleagues : SetRouting("alternate", u)
  \/ \E b \in BOOLEAN : SetRouting("away", b)
  \/ \E s \in patches : ServerRoutes(s) \/ SaveBack(s) \/ SaveFails(s)
  \/ OpenReset \/ TypePassword \/ CancelReset \/ SubmitReset
  \/ \E c \in resets : ResetBack(c) \/ ResetFails(c)

PanelsSpec == PanelsInit /\ [][PanelsNext]_panelsVars

-----------------------------------------------------------------------------
(* The panels keep their types; nothing is typed where no dialog is open.  *)
PanelsTypeOK ==
  /\ routing \in [Supervisors -> Routing] /\ listed \in [Supervisors -> Routing]
  /\ drawer \in Accounts \cup {NoOne} /\ target \in {drawer, NoOne}
  /\ target = NoOne => password = NoOne /\ ~resetting
  /\ drawer = NoOne => panel = Shut /\ touched = {}
  /\ \A u \in Supervisors : listed[u].changes <= routing[u].changes

(***************************************************************************)
(* A save sends no field that the administrator has not set, so that it    *)
(* cannot undo what the supervisor did meanwhile: as long as the row under *)
(* the panel is the one it was opened on.                                  *)
(***************************************************************************)
UntouchedNotSent == \A s \in patches : ~s.renewed => s.fields \subseteq s.touched

(* The panel's comment, "Sending the whole snapshot would let a stale      *)
(* `unavailable: false` silently un-mark a supervisor who marked           *)
(* themselves away after this drawer had loaded", taken at its word.       *)
AbsenceKept ==
  \A s \in patches : "away" \in s.fields /\ ~s.away => "away" \in s.touched

(***************************************************************************)
(* The password an account is given is the one typed for that account,     *)
(* though answers close and empty the dialog of another one meanwhile.     *)
(***************************************************************************)
PasswordForTarget == \A c \in resets : c.text = c.on
=============================================================================
