SPECIFICATION Spec
CONSTANTS
  u1 = u1
  Uploads = {u1}
  Polled = {}
  Workers = 1
  MaxWaiting = 1
  MaxModels = 1
  MaxParts = 1
  Disk = 2
  MaxFaults = 1
INVARIANT RowHasFiles
CHECK_DEADLOCK FALSE
