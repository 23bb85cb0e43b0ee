SPECIFICATION FairSpec
CONSTANTS
  User = {alice}
  Request = {r1, r2}
  RefreshId = {t1, t2}
  ResetId = {}
  None = None
  RefreshTTL = 3
  Readable = FALSE
  Fallback = 1
  AccessTTL = 1
  ResetTTL = 1
  Retention = 0
  MaxClock = 2
  MaxLogouts = 1
INVARIANT CleanupTakesDeadRows
PROPERTIES RowsCleaned ImplementsRotation
CHECK_DEADLOCK FALSE
