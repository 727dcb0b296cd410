SPECIFICATION LiveSpec
CONSTANTS
  Capacity = 3
  History = 2
  Deep = 2
  Spans = {3}
  Bins = {1}
  Lates = {0}
  Plots = {}
  Drags = FALSE
  Settings <- Both
  Clips = {TRUE}
  MaxCells = 3
  MaxSession = 1
  MaxId = 4
  MaxBin = 1
  Qualities <- GoodOrFloor
  Pointed = {}
  Picks = {1, 2}
  MaxActs = 6
INVARIANTS RollingIsTrue HistoryIsTrue OneBinIsShown ScalesKeepToKind
PROPERTIES DisplayHoldsStill
CHECK_DEADLOCK FALSE
