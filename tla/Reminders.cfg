\* A period in which every schedule has fired and nothing is left to upset has ended.
CHECK_DEADLOCK FALSE
SPECIFICATION Spec
CONSTANTS
  Task = {k1, k2}
  User = {alice}
  Process = {api1, api2}
  Pattern = {p8, p9}
  None = None
  Attempts = 2
  MaxStalled = 1
  MaxUpsets = 1
SYMMETRY Symmetry
INVARIANTS TwiceOnlyIfRepeated CompletedLeavesNoneOut
