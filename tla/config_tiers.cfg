SPECIFICATION FairSpec
CONSTANTS
  w1 = w1
  w2 = w2
  r1 = r1
  r2 = r2
  u1 = u1
  u2 = u2
  Redis = Redis
  Default = Default
  None = None
  Workers = {w1, w2}
  Readers = {r1, r2}
  Writers = {u1, u2}
  Partial = {u1}
  Invalid = {u2}
  HomeOf <- MCHomeOf
  RedisFails = TRUE
  MaxFaults = 1
INVARIANT TypeOK
PROPERTIES NeverReset EventuallyFresh
