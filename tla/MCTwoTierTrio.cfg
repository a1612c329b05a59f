CONSTANTS
  Requests = {r1, r2, r3}
  None = None
  Options <- FewOptions
  Outcomes <- FewOutcomes
  MaxNow = 0
  MaxEvictions = 1
  MaxFaults = 0
SPECIFICATION Spec
INVARIANTS
  OneFactoryServesAll
  L1NotBehindL2
SYMMETRY Symmetry
CHECK_DEADLOCK FALSE
