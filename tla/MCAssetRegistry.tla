--------------------------- MODULE MCAssetRegistry ---------------------------
(***************************************************************************)
(* AssetRegistry with the requests of one situation: `scene' says which    *)
(* asset they are about.  Beside the paper, a laptop is registered with an *)
(* empty property number, which the paper may be given too.                *)
(***************************************************************************)
EXTENDS AssetRegistry, TLC

CONSTANTS laptop, spare, paper, kim

VARIABLE scene

sceneVars == <<registryVars, scene>>

Lent ==
  [NoRow EXCEPT !.status = "issued", !.type = "ICT", !.class = "PPE",
     !.quantity = 1, !.custodian = kim, !.due = 1]

Stock ==
  [NoRow EXCEPT !.status = "available", !.type = "Supplies", !.class = "IES",
     !.quantity = MaxQuantity]

SceneInit ==
  /\ RegistryInit
  /\ scene \in {"laptop", "paper"}

SceneRequest(q) ==
  \/ /\ scene = "laptop"
     /\ \/ Create(q, laptop, "ICT", "PPE", None, 1, None)
        \/ LifecycleRequest(q, laptop)
  \/ /\ scene = "paper"
     /\ \/ Create(q, paper, "Supplies", "IES", None, MaxQuantity, None)
        \/ Create(q, laptop, "ICT", "PPE", Blank, 1, None)
        \/ StockRequest(q, paper)
  \/ scene = "draws" /\ Draw(q, paper, 1)

SceneNext ==
  /\ UNCHANGED scene
  /\ \/ \E q \in Calls : SceneRequest(q) \/ Proceed(q) \/ CallFails(q)
     \/ \E s \in Sweeps : Watch(s)
     \/ DayPasses
     \/ Restart

(* The daily job while fulfilments draw on a line, two loans are overdue,  *)
(* and the notices about one of them always fail.                          *)
DailyInit ==
  /\ Started(laptop :> Lent @@ spare :> Lent @@ paper :> Stock)
  /\ today = LastDay
  /\ scene = "draws"

DailySpec == DailyInit /\ [][SceneNext]_sceneVars /\ DailyFairness
=============================================================================
