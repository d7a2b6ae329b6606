SPECIFICATION Spec
CONSTANTS
  a1 = a1
  a2 = a2
  h1 = h1
  h2 = h2
  p1 = p1
  p2 = p2
  s1 = s1
  s2 = s2
  id1 = id1
  id2 = id2
  acc1 = acc1
  acc2 = acc2
  None = None
  Handles = {h1}
  Attempts = {a1, a2}
  Commands <- CoreCommands
  Identities = {id1, id2}
  Accounts = {acc1}
  Sessions = {s1, s2}
  Consents <- CoreCommands
  Providers = {p1, p2}
  ProviderOf <- CoreProviderOf
  Intents <- CoreIntents
  IssuedAt <- CoreIssuedAt
  Window = 2
  MaxConcurrent = 2
  MaxLinks = 2
  MaxCommands = 5
  MaxPending = 3
  MaxRows = 30
  MaxTime = 0
  Faults = {"provider"}
  Overlap = FALSE
INVARIANTS NeverStranded WithinLimits CommittedIsFunded
PROPERTIES StaleSessionStaysStale EffectsAreCurrent
SYMMETRY RaceSymmetry
CHECK_DEADLOCK FALSE
