SPECIFICATION AllSpec
CONSTANTS
  i1 = i1
  i2 = i2
  c1 = c1
  c2 = c2
  c3 = c3
  c4 = c4
  c5 = c5
  Identities = {i1, i2}
  Callers = {c1, c2, c3, c4, c5}
  Nobody = Nobody
  Nothing = Nothing
  e1 = e1
  Execs = {e1}
  u1 = u1
  r1 = r1
  Uploads = {u1}
  Renders = {r1}
  b1 = b1
  b2 = b2
  Batches = {b1, b2}
  Shapes <- PrinterShapes
  MaxPresets = 3
  MaxCrashes = 1
  MaxReverts = 1
  MaxSlices = 1
  MaxBusy = 2
  MaxEvents = 2
INVARIANTS
  Conserved
  NoIdleWaiter
  ServedIsTested
PROPERTIES
  EveryCallerServed
  EveryChildEnds
  BatchSettles
CHECK_DEADLOCK FALSE
