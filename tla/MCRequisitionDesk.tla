-------------------------- MODULE MCRequisitionDesk --------------------------
(***************************************************************************)
(* Small instances of RequisitionDesk: the values of MCRequisitions, with  *)
(* sweeps.                                                                 *)
(***************************************************************************)
EXTENDS RequisitionDesk, TLC

CONSTANTS r1, r2, i1, i2, s1, sup, alt, admin, desk, tech

MCOwner == [i \in Items |-> IF i = i1 THEN r1 ELSE r2]
MCQuantity == [i \in Items |-> 1]
MCItemClass == [i \in Items |-> "IES"]
MCItemType == [i \in Items |-> "Supplies"]
MCRole ==
  [u \in Users |->
     CASE u \in {sup, alt} -> "supervisor"
       [] u = admin -> "system_admin"
       [] u = desk -> "property_custodian"
       [] u = tech -> "it_personnel"]
MCAlternateOf ==
  [u \in Users |-> CASE u = sup /\ alt \in Users -> alt
                     [] u = alt -> sup
                     [] OTHER -> None]
(* alt nominates nobody. *)
OneWay == [u \in Users |-> IF u = sup /\ alt \in Users THEN alt ELSE None]
MCThreshold == [s \in Assets |-> 1]
MCStock == [s \in Assets |-> 2]

SeedAbsent == [r \in Reqs |-> "absent"]
SeedPending == [r \in Reqs |-> "pending_supervisor"]

MCDtos == {<<[item |-> i, asset |-> s1]>> : i \in Items}

Symmetry == Permutations(Requests) \cup Permutations(Sweeps)
(* Without lines, the requisitions are alike as well. *)
FullSymmetry == Symmetry \cup Permutations(Reqs)
=============================================================================
