SPECIFICATION MCSpec
CONSTANTS
  ana = ana  deputy = deputy  t1 = t1  t2 = t2  x1 = x1  x2 = x2  x3 = x3
  b1 = b1  b2 = b2  d1 = d1
  None = None
  Users = {ana, deputy}
  Tabs = {t1, t2}
  Browsers = {b1, b2}
  Requests = {x1, x2, x3}
  Desks = {d1}
  Calls = {t1, t2, x1, x2, x3, d1}
  Sender <- MCSender
  MaxAttempts = 2
  MaxVersion = 2
  MaxFailed = 2
  MaxTokens = 2
INVARIANTS AccountTypeOK AttemptsCounted NobodyLeftWaiting  CookieMatches
CHECK_DEADLOCK FALSE
