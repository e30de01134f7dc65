SPECIFICATION FairSpec
CONSTANTS
  e1 = e1
  t1 = t1
  t2 = t2
  t3 = t3
  t4 = t4
  c1 = c1
  None = None
  Endpoints = {e1}
  Tasks = {t1, t2, t3, t4}
  Callers = {c1}
INVARIANTS TypeOK RefIsPending
PROPERTY FoundAgain
CHECK_DEADLOCK FALSE
