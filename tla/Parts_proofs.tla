----------------------------- MODULE Parts_proofs -----------------------------
(***************************************************************************)
(* The parts side by side, as the runs open them.  A behaviour of the      *)
(* whole is a behaviour of each part, which moves or stutters with every   *)
(* step; what each part is proved to keep, the whole keeps.                *)
(***************************************************************************)
EXTENDS MCParts, AssetRegistry_proofs, Pages_proofs, SystemSettings_proofs,
        GovernmentForms_proofs

(* The assets of the scenes are assets, a quantity above zero fits the     *)
(* bound, and NULL is no quantity.                                         *)
ScenesFit ==
  /\ {laptop, paper} \subseteq Assets
  /\ MaxQuantity > 0
  /\ None \notin 0..MaxQuantity

(* A request of a scene is a request of the registry.                      *)
LEMMA SceneRequests ==
  ASSUME ScenesFit, scene \in {"laptop", "paper"}, NEW q \in Calls, SceneRequest(q)
  PROVE  \E a \in Assets : Request(q, a)
<1>1. MaxQuantity \in Nat /\ laptop \in Assets /\ paper \in Assets
  BY RegistryAssumption DEF ScenesFit
<1>2. /\ {"ICT", "Supplies"} \subseteq AssetType
      /\ {"PPE", "IES"} \subseteq AssetClass
  BY DEF AssetType, AssetClass
<1>3. ASSUME NEW a \in Assets, NEW type \in AssetType, NEW class \in AssetClass,
             NEW n \in {None, Blank}, NEW amount \in {1, MaxQuantity},
             Create(q, a, type, class, n, amount, None)
      PROVE  Request(q, a)
  <2> DEFINE p == [quantity |-> amount, reorder |-> None, number |-> n]
  <2>1. amount \in 0..MaxQuantity
    BY <1>1 DEF ScenesFit
  <2>2. p \in Patch /\ p.quantity # None
    BY <2>1 DEF Patch, ScenesFit
  <2>3. p.quantity = amount /\ p.reorder = None /\ p.number = n
    OBVIOUS
  <2>4. Create(q, a, type, class, p.number, p.quantity, p.reorder)
    BY <1>3, <2>3
  <2> QED
    BY <2>2, <2>4, Zenon DEF Request
<1>4. CASE Create(q, laptop, "ICT", "PPE", None, 1, None)
  BY <1>1, <1>2, <1>3, <1>4
<1>5. CASE Create(q, paper, "Supplies", "IES", None, MaxQuantity, None)
  BY <1>1, <1>2, <1>3, <1>5
<1>6. CASE Create(q, laptop, "ICT", "PPE", Blank, 1, None)
  BY <1>1, <1>2, <1>3, <1>6
<1>7. CASE LifecycleRequest(q, laptop)
  BY <1>1, <1>7, Zenon DEF Request
<1>8. CASE StockRequest(q, paper)
  BY <1>1, <1>8, Zenon DEF Request
<1> QED
  BY <1>4, <1>5, <1>6, <1>7, <1>8, Zenon DEF SceneRequest

(* The scenes narrow what is asked of the registry, and nothing else.      *)
LEMMA SceneStep ==
  ASSUME ScenesFit, scene \in {"laptop", "paper"}, SceneNext
  PROVE  RegistryNext
<1>1. ASSUME NEW q \in Calls, SceneRequest(q) PROVE RegistryNext
  BY <1>1, SceneRequests, Zenon DEF RegistryNext
<1> QED
  BY <1>1, Zenon DEF SceneNext, RegistryNext

(* Every step of the whole is a step of each part, or leaves it alone.     *)
LEMMA PartStep ==
  ASSUME ScenesFit, scene \in {"laptop", "paper"}, [MCNext]_partsVars
  PROVE  /\ scene' = scene
         /\ [RegistryNext]_registryVars
         /\ [BenchNext]_benchVars
         /\ [DirectoryNext]_directoryVars
         /\ [DetailNext]_detailVars
         /\ [PanelsNext]_panelsVars
         /\ [SettingsNext]_settingsVars
         /\ [FormsNext]_formsVars
<1>1. CASE MCNext
  <2>1. UNCHANGED sceneVars => scene' = scene /\ UNCHANGED registryVars
    BY Zenon DEF sceneVars
  <2>2. SceneNext => scene' = scene /\ RegistryNext
    BY SceneStep, Zenon DEF SceneNext
  <2> QED
    BY <1>1, <2>1, <2>2, Zenon DEF MCNext
<1>2. CASE UNCHANGED partsVars
  BY <1>2, Zenon DEF partsVars, sceneVars
<1> QED
  BY <1>1, <1>2

(* The whole starts where each part starts.                                *)
LEMMA PartInit ==
  ASSUME MCInit
  PROVE  /\ scene \in {"laptop", "paper"}
         /\ RegistryInit /\ BenchInit(MCTable) /\ DirectoryInit
         /\ DetailInit({"available"}) /\ PanelsInit /\ SettingsInit
         /\ FormsInit(MCRecords)
BY Zenon DEF MCInit, SceneInit

(* The type invariants of the parts, with what they say of the requests in *)
(* flight, hold of the parts side by side: the assets of the scenes are    *)
(* assets, there is a record to work on, and no record is mistaken for     *)
(* none.                                                                   *)
THEOREM PartsTyped ==
  ASSUME ScenesFit, Records # {},
         \A r \in Records : \A s : [id |-> r, status |-> s] # NoRecord
  PROVE  MCSpec => []PartsTypeOK
<1>1. MCInit => /\ scene \in {"laptop", "paper"}
                /\ RegistryInit /\ BenchInit(MCTable) /\ DirectoryInit
                /\ DetailInit({"available"}) /\ PanelsInit /\ SettingsInit
                /\ FormsInit(MCRecords)
  BY PartInit
<1>2. scene \in {"laptop", "paper"} /\ [MCNext]_partsVars
        => /\ (scene \in {"laptop", "paper"})'
           /\ [RegistryNext]_registryVars /\ [BenchNext]_benchVars
           /\ [DirectoryNext]_directoryVars /\ [DetailNext]_detailVars
           /\ [PanelsNext]_panelsVars /\ [SettingsNext]_settingsVars
           /\ [FormsNext]_formsVars
  <2> SUFFICES ASSUME scene \in {"laptop", "paper"}, [MCNext]_partsVars
               PROVE  /\ (scene \in {"laptop", "paper"})'
                      /\ [RegistryNext]_registryVars /\ [BenchNext]_benchVars
                      /\ [DirectoryNext]_directoryVars /\ [DetailNext]_detailVars
                      /\ [PanelsNext]_panelsVars /\ [SettingsNext]_settingsVars
                      /\ [FormsNext]_formsVars
    OBVIOUS
  <2> QED
    BY PartStep, Zenon
<1>3. RegistrySpec => []RegistryTypeOK
  BY RegistryTypes
<1>4. BenchSpec(MCTable) => []WorkbenchTypeOK
  BY WorkbenchTyped
<1>5. DirectorySpec => []DirectoryTypeOK
  BY DirectoryTyped
<1>6. DetailSpec({"available"}) => []DetailTypeOK
  <2>1. {"available"} \in SUBSET DOMAIN NextTransitions
    BY DEF NextTransitions, AssetLifecycleTransitions
  <2> QED
    BY <2>1, DetailTyped
<1>7. PanelsSpec => []PanelsTypeOK
  BY PanelsTyped
<1>8. SettingsSpec => []SettingsTypeOK
  BY RefusedNeverServed
<1>9. FormsSpec(MCRecords) => []FormsTypeOK
  BY PageWaitsForOrders
<1>10. PartsTypeOK <=> /\ RegistryTypeOK /\ WorkbenchTypeOK /\ DirectoryTypeOK
                       /\ DetailTypeOK /\ PanelsTypeOK /\ SettingsTypeOK
                       /\ FormsTypeOK
  BY DEF PartsTypeOK
<1> QED
  BY <1>1, <1>2, <1>3, <1>4, <1>5, <1>6, <1>7, <1>8, <1>9, <1>10, PTL
     DEF MCSpec, RegistrySpec, BenchSpec, DirectorySpec, DetailSpec, PanelsSpec,
         SettingsSpec, FormsSpec
=============================================================================
