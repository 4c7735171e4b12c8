SPECIFICATION Spec
CONSTANTS
  r1 = r1  r2 = r2  r3 = r3  i1 = i1  i2 = i2  i3 = i3  s1 = s1  s2 = s2
  sup = sup  alt = alt  admin = admin  desk = desk  tech = tech
  None = None
  Reqs = {r2}
  Items = {i3}
  Assets = {s1, s2}
  Supplies = {s1, s2}
  Users = {sup, desk}
  Requests = {q1, q2, q3, q4}
  Absentees = {sup}
  Owner <- MCOwner
  Quantity <- MCQuantity
  ItemClass <- MCItemClass
  ItemType <- MCItemType
  Role <- MCRole
  AlternateOf <- MCAlternateOf
  Threshold <- MCThreshold
  Stock <- Scarce
  Kinds = {"create", "approve", "reject", "hold", "fulfill"}
  Dtos <- OneLine
  Seed <- SeedAbsent
  Overlap = TRUE
  Faults = TRUE
INVARIANTS TypeOK AuditTellsTruth ChangesLogged
PROPERTY KeepsLedger
SYMMETRY RequestSymmetry
