SPECIFICATION Spec
CONSTANTS
  r1 = r1
  r2 = r2
  r3 = r3
  s1 = s1
  s2 = s2
  m1 = m1
  m2 = m2
  None = None
  Recheck = Recheck
  Requests = {r1, r2, r3}
  Sessions = {s1, s2}
  SessionOf <- MCSessionOf
  ModelOf <- MCModelOf
  FirstPriority <- MCFirstPriority
  MaxSize = 2
  ClockAhead = TRUE
  TimesOut = {r1, r2}
  Leaves = {r1, r3}
  Cancellable = {s2}
INVARIANTS TypeOK SizesMatch ReleasedOnce WedgedByLeaversOnly ReportedAtRest
PROPERTY KeepsPromise
CHECK_DEADLOCK FALSE
