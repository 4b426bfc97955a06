SPECIFICATION FairSpec
CONSTANTS
  MaxSessions = 1
  MaxFrames = 2
  Planes = {1}
  MaxPlaneDescriptors = 2
  MayDie = FALSE
PROPERTY
  CtrlCFinalizes
CHECK_DEADLOCK FALSE
