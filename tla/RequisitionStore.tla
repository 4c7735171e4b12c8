-------------------------- MODULE RequisitionStore --------------------------
(***************************************************************************)
(* The database tables behind requisitions, the row locks PostgreSQL keeps *)
(* on them during a transaction, and what TypeORM's save() writes.         *)
(*                                                                         *)
(* A table is a function from its keys to its rows; a requisition that has *)
(* not been submitted has the row NoRow.  A timestamp column that the code *)
(* only tests for null is a boolean.                                       *)
(***************************************************************************)
EXTENDS Integers, FiniteSets, Sequences, AimrsVocabulary

CONSTANTS
  Reqs,         \* requisition ids
  Items,        \* requisition line ids
  Assets,       \* asset ids
  Supplies,     \* the assets of class IES
  Users,        \* user ids
  Requests,     \* HTTP requests, each handled at most once
  None,         \* SQL NULL
  Owner,        \* [Items -> Reqs]: the requisition a line is submitted on
  Quantity,     \* [Items -> Nat]: the quantity of a line
  ItemClass,    \* [Items -> AssetClass]
  ItemType,     \* [Items -> AssetType]
  Role,         \* [Users -> UserRole]
  AlternateOf,  \* [Users -> Users \cup {None}]: users.alternate_approver_id
  Threshold,    \* [Assets -> Nat]: reorder level, else the system default
  Faults        \* may an await throw, or the server restart?

ASSUME StoreAssumption ==
  /\ None \notin Users \cup Assets \cup Requests
  /\ IsFiniteSet(Reqs)
  /\ Supplies \subseteq Assets
  /\ Owner \in [Items -> Reqs]
  /\ Quantity \in [Items -> Nat \ {0}]
  /\ ItemClass \in [Items -> AssetClass]
  /\ ItemType \in [Items -> AssetType]
  /\ Role \in [Users -> UserRole]
  /\ AlternateOf \in [Users -> Users \cup {None}]
  /\ Threshold \in [Assets -> Nat]
  /\ Faults \in BOOLEAN

VARIABLES
  req,        \* table requisitions
  itemRows,   \* the lines that have a row in table requisition_items
  link,       \* their column fulfilled_asset_id
  approvals,  \* table requisition_approvals
  asset,      \* table assets, as far as stock is concerned
  audit,      \* table audit_logs, as far as requisitions are concerned
  itemLock,   \* row locks of requisition_items held by open transactions
  keyShare,   \* FOR KEY SHARE locks on assets: [Assets -> SUBSET Requests]
  rowLock,    \* FOR UPDATE locks on assets
  duty        \* users: "present", "away" (unavailable) or "inactive"

tables == <<req, itemRows, link, approvals, asset, audit>>
locks == <<itemLock, keyShare, rowLock>>

-----------------------------------------------------------------------------
(* Rows.                                                                   *)

Columns ==
  {"status", "number", "supervisor", "decision", "fulfiller",
   "breached", "nudged", "routed"}

Row ==
  [status: RequisitionStatus \cup {"absent"},
   number: Nat,                                \* NNNN of REQ-YYYY-NNNN
   supervisor: Users \cup {None},
   decision: {None, "approved", "rejected"},
   fulfiller: Users \cup {None},               \* it_personnel_id
   breached: BOOLEAN,                          \* sla_breach_notified_at
   nudged: BOOLEAN,                            \* pending_nudge_notified_at
   routed: BOOLEAN]                            \* alternate_routed_at

NoRow ==
  [status |-> "absent", number |-> 0, supervisor |-> None, decision |-> None,
   fulfiller |-> None, breached |-> FALSE, nudged |-> FALSE, routed |-> FALSE]

Submitted == {r \in Reqs : req[r].status # "absent"}

ItemsOf(r) == {i \in Items : Owner[i] = r}

Approval ==
  [request: Requests \cup {None}, req: Reqs, approver: Users \cup {None},
   action: {"approved", "rejected"}]

AssetRow == [quantity: Nat, alerted: BOOLEAN]

(* A loaded entity: the requisition with its eagerly loaded lines. *)
Copy == [row: Row, items: SUBSET Items, link: [Items -> Assets \cup {None}]]

NoCopy == [row |-> NoRow, items |-> {}, link |-> [i \in Items |-> None]]

Loaded(r) ==
  [row |-> req[r], items |-> itemRows \cap ItemsOf(r), link |-> link]

-----------------------------------------------------------------------------
(***************************************************************************)
(* save(entity) loads the row again (base), compares it with the entity    *)
(* (mine), and issues an UPDATE of the columns that differ, with no        *)
(* condition on their present value.  A column the entity holds a stale    *)
(* value of is therefore written back to that value; a column another      *)
(* writer changes between the load and the UPDATE is kept if it did not    *)
(* differ at the load.                                                     *)
(***************************************************************************)
SavedRow(row, base, mine) ==
  [c \in Columns |-> IF mine[c] # base[c] THEN mine[c] ELSE row[c]]

(* The lines the cascade writes, and the link column after it. *)
CascadedItems(base, mine) == {i \in mine.items : mine.link[i] # base.link[i]}

SavedLinkStale(base, mine) == link    \* mutant: the copy kept the old link

SavedLink(base, mine) ==
  [i \in Items |->
     IF i \in CascadedItems(base, mine) THEN mine.link[i] ELSE link[i]]

(* A user to whom a requisition can be handed off. *)
Usable(u) == Role[u] = "supervisor" /\ duty[u] = "present"

(* The alternate of u, when there is a usable one. *)
UsableAlternate(u) ==
  {a \in {AlternateOf[u]} \ {None} : Usable(a)}
=============================================================================
