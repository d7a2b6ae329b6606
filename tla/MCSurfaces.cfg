SPECIFICATION Spec
CONSTANTS
  Callers = {c1, c2}
  c1 = c1
  c2 = c2
  Guids = {1, 2}
  Reserved = "task"
  Note = "note"
  Kinds = {"a", "b"}
  Source = 1
  Target = 2
  RevMax = 2
  Setups <- ReadSetups
  None = None
CHECK_DEADLOCK FALSE
INVARIANTS AnswersAreCommitted
SYMMETRY Symmetry
