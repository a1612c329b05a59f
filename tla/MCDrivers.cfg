SPECIFICATION Spec
CONSTANTS
  Calls = {c1, c2, c3, c4}
  None = None
  First = First
  Torn = Torn
  Media = {"file", "redis", "dynamo", "knex", "kysely"}
  MaxCrashes = 1
SYMMETRY Symmetry
INVARIANTS TypeOK WholeAtRest FailsOnlyOverlapped PulledOnce
PROPERTY GetsWhatIsStored
CHECK_DEADLOCK FALSE
