SPECIFICATION AllSpec
CONSTANTS
  p1 = p1
  u1 = u1
  r1 = r1
  r2 = r2
  Pins = {p1}
  MaxQuote = 3
  MaxRates = 1
  MaxMounts = 2
  MaxAsks = 2
  Nothing = Nothing
  Uploads = {u1}
  Renders = {r1, r2}
  MaxStarts = 2
  None = None
SYMMETRY Symmetry
INVARIANTS
  PriceKept
PROPERTIES
  OwnResults
CHECK_DEADLOCK FALSE
