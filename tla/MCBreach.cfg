SPECIFICATION FairDeskSpec
CONSTANTS
  r1 = r1  r2 = r2  i1 = i1  i2 = i2  s1 = s1
  sup = sup  alt = alt  admin = admin  desk = desk  tech = tech
  None = None
  Reqs = {r1, r2}
  Items = {}
  Assets = {s1}
  Supplies = {s1}
  Users = {sup}
  Requests = {}
  Absentees = {}
  Sweeps = {cron}
  Healthy = {r2}
  Owner <- MCOwner
  Quantity <- MCQuantity
  ItemClass <- MCItemClass
  ItemType <- MCItemType
  Role <- MCRole
  AlternateOf <- MCAlternateOf
  Threshold <- MCThreshold
  Stock <- MCStock
  Kinds = {"approve"}
  Dtos <- MCDtos
  Seed <- SeedPending
  Overlap = TRUE
  Faults = TRUE
PROPERTY BreachHandled
