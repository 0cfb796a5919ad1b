SPECIFICATION AllSpec
CONSTANTS
  u1 = u1
  u2 = u2
  f1 = f1
  a = a
  b = b
  Uploads = {u1, u2}
  Polled = {u1}
  Workers = 1
  MaxWaiting = 1
  MaxModels = 2
  MaxParts = 1
  Disk = 4
  MaxFaults = 1
  Files = {f1}
  Settings = {a, b}
  NoRun = NoRun
INVARIANTS
  QueueBounded
PROPERTIES
  AcceptedEnds
  FollowedToTheEnd
  ChoiceSettles
CHECK_DEADLOCK FALSE
