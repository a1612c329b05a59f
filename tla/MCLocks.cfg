CONSTANTS
  Requests = {r1, r2, r3, r4}
  None = None
SPECIFICATION LocksFairSpec
INVARIANTS
  LocksTypeOK
  QueuesConsistent
  HoldersConsistent
  NoLostWakeup
  MapNamesCreatorsMutex
  SingleFlight
PROPERTIES
  ImplementsExclusion
  WaitersServed
CHECK_DEADLOCK FALSE
