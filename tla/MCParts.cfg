SPECIFICATION MCSpec
CONSTANTS
  \* AssetRegistry
  laptop = laptop
  spare = spare
  paper = paper
  kim = kim
  Assets = {laptop, paper}
  Staff = {kim}
  Numbers = {}
  Calls = {c1}
  Sweeps = {sw}
  Broken = {}
  None = None
  Blank = Blank
  DefaultReorder = 0
  MaxQuantity = 1
  MaxLoans = 2
  LastDay = 2
  Faults = TRUE
  \* Workbench
  Records = {r1, r2}
  Own = {r2}
  NoRecord = NoRecord
  Contested = {r1}
  PageSize = 1
  MaxChanges = 2
  \* Directory
  Criteria = {all, ict}
  NoCriteria = all
  MaxPages = 2
  MaxEvents = 3
  MaxOwn = 1
  \* AssetDetail
  Fields = {quantity}
  Foreign = {"issued", "under_repair"}
  MaxEdits = 2
  MaxPosts = 2
  \* AccountPanels
  Accounts = {ana, ben}
  Supervisors = {ana}
  Colleagues = {cora}
  NoOne = NoOne
  MaxUpdates = 2
  MaxPending = 1
  \* SystemSettings
  Admins = {ann, bob}
  sla = sla
  reorder = reorder
  KeyOrder <- MCKeyOrder
  Values = {zero, ten}
  Default = ten
  Emptied = Emptied
  Zero = zero
  ZeroKeys = {reorder}
  NoValue = NoValue
  Typed = {ten, Emptied}
  MaxSaves = 2
  \* GovernmentForms
  Holdings = {mouse}
  ClassOf <- MCClassOf
  People = {eve}
  Nobody = Nobody
  Unknown = Unknown
  Slips = {slip}
  Clerk = Clerk
  Amended = {"officeOrSection"}
  Texts = {moved}
  NoForm = NoForm
  Offered = {"RECEIPT_RETURNED_SEP", "RIS", "ANNEX_A4", "RSMI", "PTR"}
  Returnees = {Nobody, Unknown, eve}
  Reached = {"returned"}
  MaxMoves = 2
  MaxOrders = 1
INVARIANTS
  
  
  ReportedForThisLoan
  HistoryUpToDate
  TextIsForRecord
  ListReflectsDecision
  ListIsCurrent
  WaitsForAnswer
  SentAsMeant
  ConfirmedIsShown
  
  PasswordForTarget
  ServedAsStored
  SavedIsStored
  FormOfOneMoment
PROPERTIES
  LifecycleFollowed
CHECK_DEADLOCK FALSE
