\* The user may do no more than the bounds let him.
CHECK_DEADLOCK FALSE
SPECIFICATION BellSpec
CONSTANTS
  Notification = {n1, n2}
  MaxClicks = 3
  MaxUpsets = 1
SYMMETRY Symmetry
VIEW View
INVARIANTS CountAgrees ListAgrees
