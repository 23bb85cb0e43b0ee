SPECIFICATION Spec
CONSTANTS
  User = {alice}
  Request = {r1, r2}
  RefreshId = {t1, t2, t3}
  ResetId = {k1}
  None = None
  RefreshTTL = 1
  Readable = TRUE
  Fallback = 0
  AccessTTL = 1
  ResetTTL = 1
  Retention = 0
  MaxClock = 1
  MaxLogouts = 1
SYMMETRY Symmetry
INVARIANTS NoTwoGenerations RevocationReachesAll SessionMatchesPassword
PROPERTIES SpentStaysSpent ConsumedStaysConsumed
CHECK_DEADLOCK FALSE
