-------------------------- MODULE AimrsVocabulary --------------------------
(***************************************************************************)
(* The enumerations the services share, and the two role tables that       *)
(* decide who may act on a requisition: the @Roles lists of the            *)
(* controller and the asset-type scope of a role.                          *)
(***************************************************************************)

RequisitionStatus ==
  {"draft", "pending_supervisor", "pending_fulfillment", "on_hold",
   "fulfilled", "rejected", "cancelled"}

UserRole ==
  {"employee", "supervisor", "it_personnel", "system_admin", "management",
   "property_custodian", "property_officer"}

AssetType == {"ICT", "Fixed", "Supplies"}

AssetClass == {"PPE", "SEP", "IES"}

(* The statuses from which fulfill() proceeds. *)
Fulfillable == {"pending_fulfillment", "on_hold"}

(***************************************************************************)
(* The asset types a role's work is restricted to.  The code returns       *)
(* undefined for an unrestricted role; here it is every type.              *)
(***************************************************************************)
AssetTypeScope(role) ==
  IF role = "it_personnel" THEN {"ICT"}
  ELSE IF role \in {"property_custodian", "property_officer"}
       THEN {"Fixed", "Supplies"}
       ELSE AssetType

(* The @Roles list of each requisition route that changes state. *)
MayCall(kind, role) ==
  \/ kind = "create" /\ role \in {"employee", "supervisor", "it_personnel"}
  \/ kind \in {"approve", "reject"} /\ role \in {"supervisor", "system_admin"}
  \/ kind \in {"hold", "fulfill"}
     /\ role \in {"it_personnel", "property_custodian"}

(* The lifecycle of an asset, as the pages of the front end offer it.       *)
AssetLifecycleTransitions ==
  [registered |-> {"available"},
   available |-> {"issued", "transferred", "under_repair",
                  "flagged_for_disposal"},
   issued |-> {"returned", "under_repair", "flagged_for_disposal"},
   returned |-> {"available", "under_repair"},
   transferred |-> {"available"},
   under_repair |-> {"available", "flagged_for_disposal"},
   flagged_for_disposal |-> {"disposed"},
   disposed |-> {}]
=============================================================================
