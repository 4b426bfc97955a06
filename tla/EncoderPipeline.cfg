SPECIFICATION FairSpec
CONSTANTS
  PoolSize = 2
  Delay = 1
  MaxFrames <- MCMaxFrames
  MediaMayFail = TRUE
INVARIANTS
  ItemsAccountedFor
  PacketsInOrder
  PendingIsSignalled
  FinalizedComplete
PROPERTY
  StopFinalizes
CHECK_DEADLOCK FALSE
