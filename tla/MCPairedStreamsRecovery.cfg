SPECIFICATION StreamFairSpec
CONSTANTS
  RingCapacity = 6
  Snapshot = 4
  Hop = 2
  Batch = 2
  Frames = 1
  Attempts = 1
  Confirmations = 1
  MaxRecoveries = 1
  MaxLies = 0
  Skew = 0
  MaxDrift = 4
  Faults = {}
PROPERTY RecoveryResumes
