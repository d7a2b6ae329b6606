SPECIFICATION Spec
CONSTANTS
  a1 = a1
  a2 = a2
  s1 = s1
  t1 = t1
  t2 = t2
  t3 = t3
  acc1 = acc1
  None = None
  Attempts = {a1, a2}
  Sessions = {s1}
  Tokens = {t1, t2}
  Accounts = {acc1}
  Requests <- RefreshRequests
  Absolute = 3
  Idle = 2
  MaxTime = 3
  Faults = {}
PROPERTIES ReuseRevokes
CHECK_DEADLOCK FALSE
