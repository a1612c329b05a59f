CONSTANTS
  Requests = {r1, r2}
  None = None
  Options <- AllOptions
  Outcomes <- AllOutcomes
  MaxNow = 1
  MaxEvictions = 1
  MaxFaults = 1
SPECIFICATION FairSpec
INVARIANTS
  TypeOK
  LockGivenBack
  OneFactoryServesAll
PROPERTIES
  L2MovesForward
  AnsweredUnlessLeaked
CHECK_DEADLOCK FALSE
