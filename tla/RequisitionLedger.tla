-------------------------- MODULE RequisitionLedger --------------------------
(***************************************************************************)
(* What is left of the workflow when requests on the same requisition      *)
(* overlap, fail and save stale copies, and sweeps hand requisitions over  *)
(* in between.  The order of the steps is no longer the service's status   *)
(* diagram; but whoever decides was nominated, a requisition is only where *)
(* a verdict on record puts it and never undecided again, it is with the   *)
(* section's supervisor or with their alternate, and stock only leaves for *)
(* a requisition that was approved.                                        *)
(***************************************************************************)
EXTENDS Naturals

CONSTANTS Reqs, Users, Assets, None, AlternateOf, Administrators

VARIABLES
  status,    \* [Reqs -> status]
  verdicts,  \* the decisions on record: requisition, who, and which
  holder,    \* [Reqs -> Users \cup {None}]: whose queue each one is in
  first,     \* [Reqs -> Users \cup {None}]: the section's supervisor
  quantity   \* [Assets -> Nat]

vars == <<status, verdicts, holder, first, quantity>>

(* The supervisors a requisition may be with: one hop at most.             *)
Route(u) == {u, AlternateOf[u]} \ {None}

Verdict(r, u, d) == [req |-> r, by |-> u, action |-> d]

On(r, d) == \E v \in verdicts : v.req = r /\ v.action = d

(* The verdict a status stands for.                                        *)
Backed(r, to) ==
  \/ to \in {"pending_fulfillment", "on_hold", "fulfilled"} /\ On(r, "approved")
  \/ to = "rejected" /\ On(r, "rejected")

Submit(r) ==
  /\ status[r] = "absent"
  /\ \E u \in Users :
       /\ first' = [first EXCEPT ![r] = u]
       /\ \E h \in Route(u) : holder' = [holder EXCEPT ![r] = h]
  /\ status' = [status EXCEPT ![r] = "pending_supervisor"]
  /\ UNCHANGED <<verdicts, quantity>>

(* Somebody who was nominated decides; two may, and disagree.              *)
Record(r) ==
  /\ status[r] # "absent"
  /\ \E u \in Route(first[r]) \cup Administrators, d \in {"approved", "rejected"} :
       verdicts' = verdicts \cup {Verdict(r, u, d)}
  /\ UNCHANGED <<status, holder, first, quantity>>

(* An operation ends: the requisition goes where a verdict allows, a stale *)
(* copy may take it back to the other queue, and a fulfilment takes stock. *)
Settle(r) ==
  /\ status[r] # "absent"
  /\ \E to \in {"pending_fulfillment", "on_hold", "fulfilled", "rejected"} :
       Backed(r, to) /\ status' = [status EXCEPT ![r] = to]
  /\ \E h \in Route(first[r]) : holder' = [holder EXCEPT ![r] = h]
  /\ \/ UNCHANGED quantity
     \/ /\ On(r, "approved")
        /\ quantity' \in [Assets -> Nat]
        /\ \A s \in Assets : quantity'[s] <= quantity[s]
  /\ UNCHANGED <<verdicts, first>>

(* A sweep hands the requisition to the alternate of its supervisor.       *)
HandOver(r) ==
  /\ status[r] # "absent"
  /\ AlternateOf[first[r]] # None
  /\ holder' = [holder EXCEPT ![r] = AlternateOf[first[r]]]
  /\ UNCHANGED <<status, verdicts, first, quantity>>

Next == \E r \in Reqs : Submit(r) \/ Record(r) \/ Settle(r) \/ HandOver(r)

(* Requisitions submitted or approved before the start may be there.       *)
Init ==
  /\ \A r \in Reqs :
       /\ status[r] \in {"absent", "pending_supervisor", "pending_fulfillment"}
       /\ IF status[r] = "absent" THEN first[r] = None ELSE first[r] \in Users
       /\ holder[r] = first[r]
  /\ verdicts = {Verdict(r, first[r], "approved") :
                   r \in {x \in Reqs : status[x] = "pending_fulfillment"}}

Spec == Init /\ [][Next]_vars
=============================================================================
