SPECIFICATION Spec
CONSTANTS
  a = a
  b = b
  Capacity = 4
  Modulus = 8
  Samples <- MCSamples
  Zero = a
  Chunks <- MCChunks
  MaxRequest = 3
  MaxOverflow = 1
INVARIANTS NoSlotRace
PROPERTY ImplementsFifo
