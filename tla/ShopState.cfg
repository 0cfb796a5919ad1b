SPECIFICATION AllSpec
CONSTANTS
  Polled = {}
  Workers = 1
  MaxWaiting = 2
  MaxModels = 2
  MaxParts = 2
  Disk = 6
  MaxFaults = 2
  u1 = u1
  u2 = u2
  r1 = r1
  r2 = r2
  Uploads = {u1, u2}
  FirstWriter = FirstWriter
  Regens = {r1, r2}
  NoOne = NoOne
  MaxOverruns = 1
  MaxPdfFaults = 1
  f1 = f1
  f2 = f2
  Files = {f1, f2}
  MaxCards = 2
  MaxVisits = 2
  e1 = e1
  e2 = e2
  x1 = x1
  x2 = x2
  Execs = {e1, e2}
  Runs = {x1, x2}
  web = web
  migrate = migrate
  Services = {web, migrate}
  Migrate = migrate
  Top = 3
  MaxRuns = 3
  MaxKills = 1
  Lost = Lost
  Accounts = {"a1", "a2"}
  Hosts = {"h1", "h2"}
  EnvAccount = "a1"
  EnvMail = "live"
  NoAccount = "no account"
  MaxSaves = 2
  MaxRotates = 1
  MaxRestores = 1
  Names = {"n1"}
  Offers = {"o1", "o2"}
  NoName = "none"
  MaxOffers = 3
  Shops <- SmallShops
  Imports <- SmallImports
  Materials = {1, 2}
  TopLayer = 3
  MaxChanges = 2
  Percents = {10, 95, 97}
SYMMETRY Symmetry
INVARIANTS
  TmpKept
  SessionLimit
  RowsKeepFiles
  StoredSafely
  
  CardsTrue
  RunsApart
  UpdateHonest
PROPERTIES
  StoredOnce
  ChosenIsOrdered
  Rises
CHECK_DEADLOCK FALSE
