SPECIFICATION AllSpec
CONSTANTS
  h1 = h1
  h2 = h2
  Photos = {h1, h2}
  Null = Null
  Releases <- TwoReleases
  TypedRates <- Retyped
  AllowedRates <- FieldBounds
  BilledOrders <- SmallBills
  Couriers = {0, 7550}
  TaxRates = {1800}
  MaxColumn = 40000
  Modes = {"caddy", "local", "owntunnel", "proxy"}
  Domains = {"d1"}
  Lans = {}
  Printers = {"p1", "p2"}
  Passwords = {"w1"}
  Shops = {"s1", "s2"}
  SeededRates = {"r1"}
  Extras = {"x1"}
  MaxRuns = 3
  MaxStops = 1
  MaxFresh = 2
  MaxStarts = 2
  Replicas = {"a", "b"}
  AlertCalls = {1, 2}
  Interval = 2
  Threshold = 1
  MaxWithheld = 1
  MaxCrashes = 1
  Attempts = {1, 2, 3}
  Addresses = {"a", "b"}
  Window = 4
  MaxOwn = 1
  MaxAll = 1
  Delay = 1
  MaxListed = 1
  MaxLoads = 2
  PrintSaves = 2
  MaxCustoms = 1
  MaxAdded = 2
  ColourSaves = 1
  MaxSent = 1
  MaxCalls = 2
  MaxLost = 1
  MaxEdits = 3
  NeedSaves = 2
  MaxTyped = 2
  RateSaves = 2
  MaxRestores = 1
  Pictures = 2
  Fingers = {"f1", "f2"}
  MaxZoom = 3
SYMMETRY Symmetry
INVARIANTS
  EditorsTrue
  
  BilledRight
CHECK_DEADLOCK FALSE
