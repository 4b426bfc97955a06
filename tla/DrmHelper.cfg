SPECIFICATION FairSpec
CONSTANTS
  MaxSessions = 2
  MaxFrames = 2
  Planes = {0, 1, 3}
  MaxPlaneDescriptors = 2
  MayDie = TRUE
INVARIANTS
  BuffersAccountedFor
  ReplyIsFresh
  PathIsFreed
PROPERTIES
  SigintEndsSession
  HelperEnds
\* The last session is over.
CHECK_DEADLOCK FALSE
