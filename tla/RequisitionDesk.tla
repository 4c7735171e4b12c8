--------------------------- MODULE RequisitionDesk ---------------------------
(***************************************************************************)
(* The requests of Requisitions and the hourly sweeps of SlaWatch on the   *)
(* same tables.                                                            *)
(***************************************************************************)
EXTENDS Requisitions, SlaWatch

CONSTANT Healthy   \* requisitions whose alerts do not fail for ever

ASSUME DeskAssumption == Healthy \subseteq Reqs

deskVars == <<vars, watchVars>>

DeskInit == Init /\ WatchInit

DeskNext ==
  \/ Next /\ UNCHANGED watchVars
  \/ WatchNext /\ UNCHANGED <<locks, duty, handlers, history>>

DeskSpec == DeskInit /\ [][DeskNext]_deskVars

(* A step of the watchers, in the composed system. *)
Watch(A) == A /\ UNCHANGED <<locks, duty, handlers, history>>

(***************************************************************************)
(* The cron fires every hour and its continuations run (WF).  A notice or  *)
(* an UPDATE that fails is tried again by the next sweep, and for the      *)
(* healthy requisitions it does not fail every time (SF).  The others may  *)
(* fail in every sweep.                                                    *)
(***************************************************************************)
FairDeskSpec ==
  /\ DeskSpec
  /\ \A s \in Sweeps :
       /\ WF_deskVars(Watch(Advance(s)))
       /\ \A r \in Reqs :
            WF_deskVars(Watch(Serve(s, r) \/ Lose(s, r)))
       /\ \A r \in Healthy :
            /\ SF_deskVars(Watch(NotifyBreach(s, r)))
            /\ SF_deskVars(Watch(ResolveAlternate(s, r)))
            /\ SF_deskVars(Watch(StampBreach(s, r)))

-----------------------------------------------------------------------------
(***************************************************************************)
(* A hand-off is one hop: a requisition is with the supervisor resolved at *)
(* submission unless it is stamped as routed, and then it is with that     *)
(* supervisor's own alternate.  Requests save stale copies of the two      *)
(* columns, and sweeps overlap.                                            *)
(***************************************************************************)
OneHop ==
  \A r \in Submitted :
    req[r].supervisor =
      IF req[r].routed THEN AlternateOf[primary[r]] ELSE primary[r]

(***************************************************************************)
(* Only the people a requisition was routed to decide it: the section's    *)
(* supervisor, that supervisor's alternate, or an administrator.           *)
(***************************************************************************)
DecidedByNominee ==
  \A a \in approvals :
    \/ a.approver \in {primary[a.req], AlternateOf[primary[a.req]]}
    \/ Role[a.approver] = "system_admin"

(***************************************************************************)
(* The stamp that keeps a breached requisition out of later sweeps is only *)
(* there when its notices went out: a crash, a failed fan-out or a stale   *)
(* save may repeat the alert and never lose it.                            *)
(***************************************************************************)
StampMeansNotified ==
  \A r \in Reqs : /\ req[r].breached => breachSent[r] > 0
                  /\ req[r].nudged => nudgeSent[r] > 0

(***************************************************************************)
(* One sweep at a time alerts once: no requisition gets a second breach    *)
(* notice, nudge or hand-off notice, though requests save copies that      *)
(* predate its stamps.                                                     *)
(***************************************************************************)
AlertedOnce ==
  \A r \in Reqs : breachSent[r] < Many /\ nudgeSent[r] < Many
                  /\ handOffs[r] < Many

(***************************************************************************)
(* Unless an await throws, a requisition that was routed to an alternate   *)
(* has had that alternate told, or somebody is about to tell them: the     *)
(* sweep whose UPDATE handed it over, or the request that submitted it.    *)
(* The UPDATE takes the requisition out of the query, so no later sweep    *)
(* would.                                                                  *)
(***************************************************************************)
AlternateTold ==
  ~Faults =>
    \A r \in Reqs :
      req[r].routed =>
        \/ handOffs[r] > 0
        \/ \E s \in Sweeps : task[s][r] = "routed"
        \/ \E q \in Requests :
             /\ Target(q) = r /\ job[q].kind = "create"
             /\ \/ pc[q] \in {"inserted", "saved"}
                \/ [request |-> q, req |-> r, action |-> "reassign"] \in audit

(***************************************************************************)
(* A breached requisition is stamped or decided in the end, though alerts  *)
(* fail and are tried again, and though the alerts of another requisition  *)
(* fail in every sweep.                                                    *)
(***************************************************************************)
BreachHandled ==
  \A r \in Healthy : Breached(r) ~> ~Breached(r)
=============================================================================
