SPECIFICATION FairSpec
CONSTANTS
  e1 = e1
  e2 = e2
  r1 = r1
  r2 = r2
  r3 = r3
  None = None
  Emits = {e1, e2}
  Sessions = {r1, r2, r3}
INVARIANTS OneConnection ShutdownIsFinal
PROPERTIES PublishesAreCurrent EverythingEnds
CHECK_DEADLOCK FALSE
