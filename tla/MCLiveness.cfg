SPECIFICATION LivenessSpec
CONSTANTS
  QueueCapacity = 2
  Target = 1
  BatchRows = 1
  DayLimit = 1
  RetryLimit = 0
  ResumeFree = 2
  Policy = "emit"
  MaxFrame = 3
  Days = 2
  MaxEvents = 2
PROPERTIES WorkerGoesOn EndsAtLast PendingEnds
CHECK_DEADLOCK FALSE
