SPECIFICATION Spec
CONSTANTS
  r1 = r1
  r2 = r2
  w1 = w1
  Requests = {r1, r2}
  Runs = {w1}
  NoRun = NoRun
  MaxGen = 2
  MaxAttempts = 2
  MaxStalled = 1
  Percents = {50}
  MaxFaults = 1
SYMMETRY Symmetry
INVARIANTS
  LiveRowHasWork
PROPERTY KeepsContract
CHECK_DEADLOCK FALSE
