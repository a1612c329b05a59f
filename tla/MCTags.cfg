SPECIFICATION Spec
CONSTANTS
  Procs = {p1, p2}
  Calls = {c1, c2, c3}
  None = None
  Waiting = Waiting
  Kinds <- AllKinds
  MaxTime = 2
  MaxMishaps = 1
SYMMETRY Symmetry
INVARIANTS TypeOK InvalidatedUnlessMisled OnlyInvalidatedExpired
CHECK_DEADLOCK FALSE
