SPECIFICATION DailySpec
CONSTANTS
  laptop = laptop
  spare = spare
  paper = paper
  kim = kim
  Assets = {laptop, spare, paper}
  Staff = {kim}
  Numbers = {}
  Calls = {c1}
  Sweeps = {sw}
  Broken = {laptop}
  None = None
  Blank = Blank
  DefaultReorder = 0
  MaxQuantity = 1
  MaxLoans = 2
  LastDay = 2
  Faults = TRUE
PROPERTIES
  LowStockReported
  OverdueReported
CHECK_DEADLOCK FALSE
