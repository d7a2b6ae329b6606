SPECIFICATION Spec
CONSTANTS
  c1 = c1
  None = None
  Checks = {c1}
  Critical = {c1}
  FailThreshold = 2
  RecoverThreshold = 2
  Hour = 5
  Stable = 3
  FlapCount = 4
  Retention = 2
  MaxTime = 8
INVARIANTS OpenIncidentStored
CHECK_DEADLOCK FALSE
