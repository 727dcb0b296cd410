SPECIFICATION LifecycleSpec
CONSTANTS
  KeepUnverified = TRUE
  SyncEnabled = TRUE
  QuicklookEnabled = TRUE
  TombstoneMax = 0
  MaxAttempts = 1
  MaxCrashes = 1
  MaxEdits = 1
INVARIANTS LiveOwnerKeepsWriting PngChargedOnce LedgerIsTrue
PROPERTIES KeptIfRequired
