SPECIFICATION PartsSpec
CONSTANTS
  MaxFiles = 3
  MaxKills = 2
  MaxLosses = 2
  Ids = {p1, p2, p3}
  MaxAttempts = 2
  RemoveAfter = TRUE
  RequireNtp = FALSE
  Retention = 2
  Threshold = 1
  MaxFuture = 1
  Skews <- Off
  MaxTime = 3
  MaxBoots = 2
  MaxRecords = 1
  Programs = {1, 2}
  MayCrash = TRUE
SYMMETRY Alike
INVARIANTS QuotaKept RemoteIsRecorded  WorkersAreAlone
CHECK_DEADLOCK FALSE
