SPECIFICATION Spec
CONSTANTS
  User = {alice, bob}
  TaskId = {k1}
  Request = {r1, r2}
  None = None
  Granted = {"MEMBER"}
  Input <- MCInput
SYMMETRY Symmetry
INVARIANTS TypeOK DoneIsAnnounced OnlyDoneIsAnnounced AssigneeIsTold AssigneeIsMember
PROPERTIES NoStatusSkipped FrozenUntilRestored
