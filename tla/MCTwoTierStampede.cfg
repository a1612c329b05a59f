CONSTANTS
  Requests = {r1, r2, r3}
  None = None
  Options <- PlainOptions
  Outcomes <- FewOutcomes
  MaxNow = 0
  MaxEvictions = 0
  MaxFaults = 0
SPECIFICATION Spec
INVARIANT OneFactoryAtATime
CHECK_DEADLOCK FALSE
