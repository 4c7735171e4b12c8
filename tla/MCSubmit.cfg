SPECIFICATION DeskSpec
CONSTANTS
  r1 = r1  r2 = r2  i1 = i1  i2 = i2  s1 = s1
  sup = sup  alt = alt  admin = admin  desk = desk  tech = tech
  None = None
  Reqs = {r1, r2}
  Items = {}
  Assets = {s1}
  Supplies = {s1}
  Users = {sup, alt}
  Requests = {q1, q2}
  Absentees = {sup}
  Sweeps = {cron}
  Healthy = {}
  Owner <- MCOwner
  Quantity <- MCQuantity
  ItemClass <- MCItemClass
  ItemType <- MCItemType
  Role <- MCRole
  AlternateOf <- MCAlternateOf
  Threshold <- MCThreshold
  Stock <- MCStock
  Kinds = {"create", "approve"}
  Dtos <- MCDtos
  Seed <- SeedAbsent
  Overlap = TRUE
  Faults = FALSE
INVARIANTS NumbersDense  
PROPERTY KeepsLedger
SYMMETRY FullSymmetry
