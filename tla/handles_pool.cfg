SPECIFICATION Spec
CONSTANTS
  r1 = r1
  r2 = r2
  r3 = r3
  e1 = e1
  e2 = e2
  None = None
  Requests = {r1, r2}
  Endpoints = {e1}
  MaxBoot = 2
  MaxServers = 1
  Flaky = TRUE
  Sweeps = TRUE
  Revalidates = TRUE
INVARIANTS TypeOK ListIsActive KnownHandlesMatch
SYMMETRY Interchangeable
