SPECIFICATION FairSpec
CONSTANTS
  r1 = r1
  r2 = r2
  r3 = r3
  e1 = e1
  e2 = e2
  None = None
  Requests = {r1}
  Endpoints = {e1}
  MaxBoot = 2
  MaxServers = 1
  Flaky = FALSE
  Sweeps = TRUE
  Revalidates = FALSE
PROPERTY DeadForgotten
