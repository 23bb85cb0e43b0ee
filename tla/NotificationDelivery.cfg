SPECIFICATION Spec
CONSTANTS
  Job = {j1, j2}
  Mailed = {j1}
  Worker = {w1, w2}
  Socket = {s1}
  None = None
  Attempts = 2
  MaxStalled = 1
SYMMETRY Symmetry
INVARIANTS TypeOK CompletedIsDelivered MailedTwiceOnlyIfStalled PushedIsStored
PROPERTIES LateEffectsAreStalled ImplementsAtLeastOnce
