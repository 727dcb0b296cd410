SPECIFICATION StreamSpec
CONSTANTS
  RingCapacity = 6
  Snapshot = 4
  Hop = 2
  Batch = 2
  Frames = 2
  Attempts = 2
  Confirmations = 2
  MaxRecoveries = 1
  MaxLies = 1
  Skew = 3
  MaxDrift = 4
  Faults = {"slow", "usb", "crash", "dsp", "gpio"}
INVARIANTS LockedTogether NothingBehindALoss NoTransientObserved RecoveryShows
