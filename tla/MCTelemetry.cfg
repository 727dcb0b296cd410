SPECIFICATION TelemetrySpec
CONSTANTS
  Version = 3
  Chunks = 2
  PendingMax = 2
  CompletedMax = 4
  Window = 1
  RetiredMax = 1
  FramesMax = 1
  DrainMax = 1
  Peers = {1, 2}
  Sessions = 2
  MaxFrame = 2
  MaxBegun = 3
  MaxFaults = 1
  Kinds = {1, 2}
  S12 = 1
  Capacity = 2
  JoinRetiredMax = 2
  JoinSessions <- OneSession
  JoinMaxFrame = 3
  MaxArrived = 6
  MaxWrong = 1
  HISTORY = 2
  ViewSessions = 2
  ViewFrames = 4
  PairMax = 2
  PairWait = 1
  Stamps <- OneOrTwo
INVARIANTS FramesAreOwn LossesAreCounted EmittedInOrder NothingIsForgotten WaterfallsAreHistory
CHECK_DEADLOCK FALSE
