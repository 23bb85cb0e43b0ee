SPECIFICATION FairSpec
CONSTANTS
  Job = {j1, j2}
  Mailed = {j1}
  Worker = {w1}
  Socket = {}
  None = None
  Attempts = 3
  MaxStalled = 1
PROPERTY JobEnds
