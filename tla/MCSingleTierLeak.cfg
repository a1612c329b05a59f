CONSTANTS
  Requests = {r1, r2}
  None = None
  Options <- PlainOptions
  Outcomes <- FewOutcomes
  MaxNow = 0
  MaxEvictions = 0
  MaxFaults = 1
SPECIFICATION FairSpec
PROPERTY WaitersProceed
CHECK_DEADLOCK FALSE
