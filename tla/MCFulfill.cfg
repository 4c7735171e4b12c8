SPECIFICATION FairSpec
CONSTANTS
  r1 = r1  r2 = r2  r3 = r3  i1 = i1  i2 = i2  i3 = i3  s1 = s1  s2 = s2
  sup = sup  alt = alt  admin = admin  desk = desk  tech = tech
  None = None
  Reqs = {r1, r2}
  Items = {i1, i2, i3}
  Assets = {s1, s2}
  Supplies = {s1, s2}
  Users = {sup, desk}
  Requests = {q1, q2}
  Absentees = {}
  Owner <- MCOwner
  Quantity <- MCQuantity
  ItemClass <- MCItemClass
  ItemType <- MCItemType
  Role <- MCRole
  AlternateOf <- MCAlternateOf
  Threshold <- MCThreshold
  Stock <- MCStock
  Kinds = {"fulfill"}
  Dtos <- MCDtos
  Seed <- SeedApproved
  Overlap = TRUE
  Faults = FALSE
INVARIANTS StockAccounted LowStockNoticed
PROPERTY EveryRequestEnds
