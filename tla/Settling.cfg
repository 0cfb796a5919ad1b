SPECIFICATION AllSpec
CONSTANTS
  r1 = r1
  w1 = w1
  w2 = w2
  Requests = {r1}
  Runs = {w1, w2}
  NoRun = NoRun
  MaxGen = 1
  MaxAttempts = 2
  MaxStalled = 1
  Percents = {50}
  MaxFaults = 2
  m1 = m1
  c1 = c1
  a1 = a1
  Models = {m1}
  Customers = {c1}
  Admins = {a1}
PROPERTIES
  EventuallySettles
  HealedByRequests
  OrphansCollected
CHECK_DEADLOCK FALSE
