SPECIFICATION Spec
CONSTANTS
  Procs = {P1, P2}
  Calls = {c1, c2, c3}
  None = None
  StoreNames = {"one", "two"}
  Default = "one"
  BasePrefix <- MCBasePrefix
  StorePrefix <- MCStorePrefix
  DriverPrefix <- MCDriverPrefix
  Targets <- MCTargets
  Backends = {"redis", "table"}
  MaxItems = 1
  Utf8 <- MCUtf8
  Lower <- MCLower
  BusIdLength = 1
SYMMETRY Symmetry
INVARIANTS TypeOK DeadLeftL2 DeadAnnounced DecodeInvertsEncode
PROPERTY OnlyOwnRemoved
CHECK_DEADLOCK FALSE
