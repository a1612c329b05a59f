CONSTANTS
  Requests = {r1, r2}
  None = None
  Options <- AllOptions
  Outcomes <- AllOutcomes
  MaxNow = 1
  MaxEvictions = 0
  MaxFaults = 1
SPECIFICATION FairSpec
INVARIANTS
  TypeOK
  LockGivenBack
  OnlyUndefinedUnhandled
PROPERTIES
  EveryCallAnswered
  EveryLockFreed
CHECK_DEADLOCK FALSE
