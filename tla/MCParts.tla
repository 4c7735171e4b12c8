------------------------------- MODULE MCParts -------------------------------
(***************************************************************************)
(* The parts that meet the others only through the API, for TLC: the asset *)
(* registry, the screens that keep state of their own, the system settings *)
(* and the government forms.  Each module has the other users of its       *)
(* tables in it; a behaviour opens one part and leaves the others as they  *)
(* start.                                                                  *)
(***************************************************************************)
EXTENDS MCAssetRegistry, Workbench, Directory, AssetDetail, AccountPanels,
        SystemSettings, GovernmentForms

CONSTANTS sla, reorder

VARIABLE opened

partsVars ==
  <<opened, sceneVars, benchVars, directoryVars, detailVars, panelsVars,
    settingsVars, formsVars>>

MCKeyOrder == <<sla, reorder>>

MCClassOf == [a \in Holdings |-> "SEP"]

(* What the lists of WorkflowPage start from.                              *)
MCTable ==
  [asset |-> "available", approvals |-> "pending_supervisor",
   requisitions |-> "pending_supervisor", audit |-> "pending_supervisor",
   fulfillment |-> "pending_fulfillment"]

(* The forms start from an asset that is issued and a pending requisition. *)
MCRecords ==
  LET asset(p) == [status |-> "issued", custodian |-> p, condition |-> "as_bought",
                   officeOrSection |-> "as_bought", accountableOfficer |-> "as_bought"]
      slip(p)  == [requester |-> p, supervisor |-> Clerk,
                   fulfilled |-> FALSE, supplied |-> FALSE]
  IN {[r \in Holdings \cup Slips |-> IF r \in Holdings THEN asset(p) ELSE slip(p)] :
        p \in People}

MCInit ==
  /\ opened \in {"registry", "workbench", "directory", "detail", "panels",
                 "settings", "forms"}
  /\ SceneInit
  /\ opened # "registry" => scene = "paper"
  /\ BenchInit(MCTable)
  /\ opened # "workbench" => page = CHOOSE p \in LivePages : TRUE
  /\ DirectoryInit
  /\ opened # "directory" => kind = "audit"
  /\ DetailInit({"available"})
  /\ PanelsInit
  /\ SettingsInit
  /\ FormsInit(MCRecords)

MCNext ==
  /\ UNCHANGED opened
  /\ IF opened = "registry"  THEN SceneNext     ELSE UNCHANGED sceneVars
  /\ IF opened = "workbench" THEN BenchNext     ELSE UNCHANGED benchVars
  /\ IF opened = "directory" THEN DirectoryNext ELSE UNCHANGED directoryVars
  /\ IF opened = "detail"    THEN DetailNext    ELSE UNCHANGED detailVars
  /\ IF opened = "panels"    THEN PanelsNext    ELSE UNCHANGED panelsVars
  /\ IF opened = "settings"  THEN SettingsNext  ELSE UNCHANGED settingsVars
  /\ IF opened = "forms"     THEN FormsNext     ELSE UNCHANGED formsVars

MCSpec == MCInit /\ [][MCNext]_partsVars

(* The parts keep their types, and each what its type invariant says of    *)
(* its requests in flight: at most one save of a page, a page that waits   *)
(* exactly while there is something to wait for.                           *)
PartsTypeOK ==
  /\ RegistryTypeOK /\ WorkbenchTypeOK /\ DirectoryTypeOK /\ DetailTypeOK
  /\ PanelsTypeOK /\ SettingsTypeOK /\ FormsTypeOK
=============================================================================
