SPECIFICATION AllSpec
CONSTANTS
  m1 = m1
  c1 = c1
  c2 = c2
  a1 = a1
  a2 = a2
  Models = {m1}
  Cad = {}
  MaxQuotes = 2
  Customers = {c1, c2}
  Admins = {a1, a2}
  MaxFaults = 1
  MaxBusy = 2
  Null = Null
SYMMETRY Symmetry
INVARIANTS
  StoredFileKept
  OpenQuoteHasFiles
  NoDoubleSale
  UploadRead
  PresetsFit
PROPERTY FinishedStaysFinished
CHECK_DEADLOCK FALSE
