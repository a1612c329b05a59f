SPECIFICATION Spec
CONSTANTS
  Procs = {p1}
  Calls = {c1, c2, c3}
  None = None
  Waiting = Waiting
  Kinds <- AllKinds
  MaxTime = 2
  MaxMishaps = 0
SYMMETRY Symmetry
INVARIANT CreatedBeforeIsStale
CHECK_DEADLOCK FALSE
