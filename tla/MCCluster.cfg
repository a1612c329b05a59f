SPECIFICATION Spec
CONSTANTS
  Procs = {p1, p2}
  Calls = {c1, c2, c3}
  None = None
  Kinds <- AllKinds
  Options <- SomeOptions
  HasBreaker = TRUE
  MaxFailures = 1
SYMMETRY Symmetry
INVARIANTS TypeOK CoherentUnlessDisturbed
CHECK_DEADLOCK FALSE
