SPECIFICATION Spec
CONSTANTS
  Procs = {p1, p2}
  Calls = {c1, c2}
  None = None
  Kinds <- ReadAndClear
  Options <- DefaultOnly
  HasBreaker = FALSE
  MaxFailures = 0
INVARIANT ClearRemovesAll
CHECK_DEADLOCK FALSE
