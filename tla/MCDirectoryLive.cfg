SPECIFICATION FairSpec
CONSTANTS
  a1 = a1
  a2 = a2
  h1 = h1
  h2 = h2
  p1 = p1
  p2 = p2
  s1 = s1
  s2 = s2
  id1 = id1
  id2 = id2
  acc1 = acc1
  acc2 = acc2
  None = None
  Handles = {h1}
  Attempts = {a1, a2}
  Commands <- RaceCommands
  Identities = {id1}
  Accounts = {acc1, acc2}
  Sessions = {s1}
  Consents <- RaceCommands
  Providers = {p1}
  ProviderOf <- RaceProviderOf
  Intents <- RaceIntents
  IssuedAt <- RaceIssuedAt
  Window = 1
  MaxConcurrent = 2
  MaxLinks = 2
  MaxCommands = 5
  MaxPending = 3
  MaxRows = 30
  MaxTime = 1
  Faults = {}
  Overlap = TRUE
PROPERTIES HoldsEnd
CHECK_DEADLOCK FALSE
