--------------------------- MODULE MCRequisitions ---------------------------
(***************************************************************************)
(* Small instances of Requisitions.  r1 has two supply lines, r2 one line. *)
(* sup nominates alt as alternate, and alt nominates sup; admin is a       *)
(* System Administrator; desk is the Property Custodian, whose scope has   *)
(* the supplies, and tech the IT Personnel, whose scope has not.           *)
(***************************************************************************)
EXTENDS Requisitions, TLC

CONSTANTS r1, r2, r3, i1, i2, i3, s1, s2, sup, alt, admin, desk, tech

MCOwner == [i \in Items |-> IF i = i3 THEN r2 ELSE r1]
MCQuantity == [i \in Items |-> IF i = i2 THEN 2 ELSE 1]
MCItemClass == [i \in Items |-> "IES"]
MCItemType == [i \in Items |-> "Supplies"]
MCRole ==
  [u \in Users |->
     CASE u \in {sup, alt} -> "supervisor"
       [] u = admin -> "system_admin"
       [] u = desk -> "property_custodian"
       [] u = tech -> "it_personnel"]
MCAlternateOf ==
  [u \in Users |-> CASE u = sup /\ alt \in Users -> alt
                     [] u = alt -> sup
                     [] OTHER -> None]
MCThreshold == [s \in Assets |-> 1]
MCStock == [s \in Assets |-> IF s = s1 THEN 2 ELSE 3]
Scarce == [s \in Assets |-> 1]

AllSeeded(status) == [r \in Reqs |-> status]
SeedAbsent == AllSeeded("absent")
SeedPending == AllSeeded("pending_supervisor")
SeedApproved == AllSeeded("pending_fulfillment")
SeedMixed ==
  [r \in Reqs |-> CASE r = r1 -> "pending_fulfillment"
                    [] r = r2 -> "pending_supervisor"
                    [] r = r3 -> "absent"]

Line(i, s) == [item |-> i, asset |-> s]
(* fulfilledItems arrays: two lines in both orders, two lines on the same  *)
(* supply, and one line, on the other requisition for r1.                  *)
MCDtos ==
  {<<Line(i1, s1), Line(i2, s2)>>, <<Line(i2, s2), Line(i1, s1)>>,
   <<Line(i1, s2), Line(i2, s2)>>, <<Line(i3, s1)>>}
(* Three lines that want the same supply: more than there is of it.        *)
SharedSupply == {<<Line(i1, s2), Line(i2, s2)>>, <<Line(i3, s2)>>}
OneLine == {<<Line(i3, s1)>>, <<Line(i3, s2)>>}

RequestSymmetry == Permutations(Requests)
=============================================================================
