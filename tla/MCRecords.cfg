SPECIFICATION RecordsSpec
CONSTANTS
  Callers = {c1, c2}
  c1 = c1
  c2 = c2
  Guids = {1, 2}
  Kinds = {"note", "collection"}
  Collection = "collection"
  Reserved = "task"
  Edges <- OmniEdges
  Identities = {"x"}
  v1 = v1
  v2 = v2
  Values = {v1, v2}
  RevMax = 2
  Policies = {"tombstone", "hard"}
  NoRow = NoRow
  Obj = Obj
  Missing = Missing
  Null = Null
  Refused = Refused
  NoSeed = NoSeed
  date = date
  bad = bad
  RelationKinds = {"a", "b"}
  Note = "note"
  Source = 1
  Target = 2
  SurfaceSetups <- AllSetups
  Candidates <- Definitions
  Docs <- Payloads
  Columns = {"label"}
  Jsons = {"priority"}
  Path <- StorePath
  Nullable <- StoreNullable
  Inputs <- StoreInputs
  Canon <- StoreCanon
  Seeds <- StoreSeeds
  Lists <- StoreLists
  StoreRevMax = 2
  StoreSetups <- TwoCallers
  Names = {"p", "q", "t", "e"}
  TaskRefs = {"r", "s"}
  Syncs = {"y"}
  Workloads <- AllWorkloads
CHECK_DEADLOCK FALSE
INVARIANTS AcceptedIsSafe RowsReadBack OneWinner PoliciesHold
PROPERTIES ExtensionsOwned SwapsLand AckedAsFiled StaysInSurface
SYMMETRY Symmetry
