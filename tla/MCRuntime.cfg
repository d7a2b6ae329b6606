SPECIFICATION MCSpec
CONSTANTS
  Checks = {"a", "b", "c"}
  Enabled = {"a", "b"}
  Concurrency = 1
  Interval = 1
  Jitter = 1
  Runs = {1, 2, 3}
  MaxTime = 2
  None = None
  l1 = l1
  l2 = l2
  k1 = k1
  k2 = k2
  All = All
  Definitions <- ProbeDefinitions
  ProbeStatuses = {200, 202, 401, 404, 503}
  Tools = {"read", "write"}
  Modes = {0, 1}
  Ages <- ProbeAges
  Apps = {"server", "tool"}
  Standalone = {"tool"}
  Unchecked = {"tool"}
  AppEvents = {"e"}
  Main = "name"
  Names = {"name", "alias"}
  Loads = {l1, l2}
  Options <- LoaderOptions
  RowIds = {1, 2}
  SearchKeys = {"k", "m"}
  Colours = {"red", "blue"}
  AnyColour = "any"
  WritesMax = 1
  Setups <- CallSetups
  Statuses = {200, 503}
  Ops = {1, 2}
  EventsMax = 1
  Slots = {1, 2, 3}
  ThrownErrors <- Faults
  StatusMethods = {404, 500}
  Codes = {406, 429}
  OptionSets <- ErrorOptions
  StepsMax = 4
  DbCount = 2
  Migrations = {1, 2}
  Selections <- Selected
  DbConfs <- Confs
  CommandsMax = 3
  Installers = {"a", "b"}
  Writers = {"w"}
  JournalTables = {"t", "u"}
  Skipped = {"u"}
  JournalKeys = {1}
  JournalValues = {10}
  LogMax = 2
  InstallsMax = 3
  GraphCases <- RequestedCases
  KeptRows = {2}
CHECK_DEADLOCK FALSE
INVARIANTS SlotsMatchRuns JournalReplays LoadsAnswer  CallsSettle ErrorsAnswer GraphAnswers ProbesAnswer DatabasesKept
PROPERTIES CloseIsClean AbortStopsDispatch
SYMMETRY Symmetry
