SPECIFICATION Spec
CONSTANTS
  User = {alice, bob}
  Request = {r1, r2, r3}
  None = None
SYMMETRY Symmetry
CHECK_DEADLOCK FALSE
INVARIANTS StaleIsExcused
