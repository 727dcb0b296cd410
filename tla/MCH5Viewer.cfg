SPECIFICATION H5Spec
SYMMETRY Alike
CONSTANTS
  Count = 4
  Block = 2
  CacheLimit = 4
  Groups = {1, 2}
  Valid = {TRUE, FALSE}
  MaxMeshes = 4
  Numbers = {1, 2}
  Windows <- TwoWindows
  Chunk = 2
  Viewers = {v1, v2}
  Keys = {"one", "median"}
  Medians = {"median"}
  BUDGET = 1
  MaxClock = 3
  MaxCrashes = 1
  Files <- TenFiles
  MaxChosen = 4
  MAX_RECORDS = 6
  Hop = 1
  Slack = 1
INVARIANTS RangeIsWhole MediansAreTrue CatalogIsOfTheSet ResultsAreWhole
PROPERTIES ShownIsChosen
CHECK_DEADLOCK FALSE
