------------------------- MODULE RequisitionWorkflow -------------------------
(***************************************************************************)
(* What RequisitionsService promises of one requisition after another:     *)
(* each operation happens at once, follows the status diagram of the       *)
(* service, and a fulfilment takes from each supply exactly the quantities *)
(* of the supply lines it links to it, or does not happen.                 *)
(***************************************************************************)
EXTENDS Integers, FiniteSets

CONSTANTS Reqs, Items, Assets, None, Owner, Quantity, ItemClass

VARIABLES
  status,     \* [Reqs -> status]
  decision,   \* [Reqs -> {None, "approved", "rejected"}]
  linked,     \* [Items -> Assets \cup {None}]: what fulfilled each line
  quantity    \* [Assets -> Nat]

vars == <<status, decision, linked, quantity>>

Move(r, from, to) ==
  /\ status[r] \in from
  /\ status' = [status EXCEPT ![r] = to]

Decide(r, to, d) ==
  /\ Move(r, {"pending_supervisor"}, to)
  /\ decision' = [decision EXCEPT ![r] = d]
  /\ UNCHANGED <<linked, quantity>>

Submit(r) ==
  /\ Move(r, {"absent"}, "pending_supervisor")
  /\ UNCHANGED <<decision, linked, quantity>>

Approve(r) == Decide(r, "pending_fulfillment", "approved")

Reject(r) == Decide(r, "rejected", "rejected")

Hold(r) ==
  /\ Move(r, {"pending_fulfillment"}, "on_hold")
  /\ UNCHANGED <<decision, linked, quantity>>

(* The lines whose stock a choice of assets takes from s, and their units. *)
Lines(choice, s) ==
  {i \in DOMAIN choice : ItemClass[i] = "IES" /\ choice[i] = s}

Units(lines) == UNION {{i} \X (1..Quantity[i]) : i \in lines}

DrawnFrom(choice, s) == Cardinality(Units(Lines(choice, s)))

Fulfill(r) ==
  /\ decision[r] = "approved"
  /\ Move(r, {"pending_fulfillment", "on_hold"}, "fulfilled")
  /\ \E lines \in SUBSET {i \in Items : Owner[i] = r} :
       \E choice \in [lines -> Assets] :
         /\ linked' = [i \in Items |->
                         IF i \in lines THEN choice[i] ELSE linked[i]]
         /\ \A s \in Assets : DrawnFrom(choice, s) <= quantity[s]
         /\ quantity' = [s \in Assets |->
                           quantity[s] - DrawnFrom(choice, s)]
  /\ UNCHANGED decision

Next ==
  \E r \in Reqs :
    Submit(r) \/ Approve(r) \/ Reject(r) \/ Hold(r) \/ Fulfill(r)

(* Any mix of requisitions may be present at the start.                    *)
Init ==
  /\ \A r \in Reqs :
       <<status[r], decision[r]>> \in
         {<<"absent", None>>, <<"pending_supervisor", None>>,
          <<"pending_fulfillment", "approved">>}
  /\ linked = [i \in Items |-> None]

Spec == Init /\ [][Next]_vars
=============================================================================
