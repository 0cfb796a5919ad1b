SPECIFICATION Spec
CONSTANTS
  r1 = r1
  w1 = w1
  w2 = w2
  Requests = {r1}
  Runs = {w1, w2}
  NoRun = NoRun
  MaxGen = 2
  MaxAttempts = 2
  MaxStalled = 1
  Percents = {}
  MaxFaults = 2
SYMMETRY Symmetry
INVARIANTS
  DoneIsMeasured
  LiveRowHasWork
PROPERTY KeepsContract
CHECK_DEADLOCK FALSE
