SPECIFICATION FairSpec
CONSTANTS
  r1 = r1
  r2 = r2
  r3 = r3
  s1 = s1
  s2 = s2
  m1 = m1
  m2 = m2
  None = None
  Recheck = Recheck
  Requests = {r1, r2, r3}
  Sessions = {s1, s2}
  SessionOf <- LiveSessionOf
  ModelOf <- MCModelOf
  FirstPriority <- LiveFirstPriority
  MaxSize = 3
  ClockAhead = FALSE
  TimesOut = {}
  Leaves = {r3}
  Cancellable = {}
PROPERTY EventuallyAdmitted
CHECK_DEADLOCK FALSE
