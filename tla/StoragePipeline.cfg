SPECIFICATION Spec
CONSTANTS
  QueueCapacity = 2
  Target = 2
  BatchRows = 2
  DayLimit = 2
  RetryLimit = 1
  ResumeFree = 2
  Policy = "emit"
  MaxFrame = 6
  Days = 2
  MaxEvents = 2
INVARIANTS RowsAreWhole GapsAreFlagged FrameOnce LossesAreCounted ReadyIsPublished
