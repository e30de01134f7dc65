SPECIFICATION Spec
CONSTANTS
  r1 = r1
  r2 = r2
  k1 = k1
  None = None
  Spent = Spent
  Requests = {r1, r2}
  Keys = {k1}
  KeyOf <- OneSession
  Routed = {r2}
  Leaves = {r1}
  BuildBreaks = TRUE
  MaxServers = 2
  MaxHeld = 2
  StaleRetries = 1
  OverflowRetries = 1
  ColdRetries = 1
  MaxPasses <- OnePass
INVARIANTS TypeOK RunsBounded RetriesElsewhere ReleasedOnce
CHECK_DEADLOCK FALSE
