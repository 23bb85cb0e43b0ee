\* The user has spent the clicks and visits of the behaviour.
CHECK_DEADLOCK FALSE
SPECIFICATION Spec
CONSTANTS
  o1 = o1
  w1 = w1
  p1 = p1
  p2 = p2
  k1 = k1
  None = None
  Org = {o1}
  Workspace = {w1}
  Project = {p1, p2}
  Task = {k1}
  Up <- MCUp
  Roles = {"ADMIN"}
  Statuses = {"TODO"}
  Begin = {p1, w1, o1}
  Granted = {"OWNER", "MEMBER"}
  MaxOthers = 1
  MaxEvents = 3
INVARIANTS RefusedOnlyIfStale NamedIsAddressed OwnChangeShown
