SPECIFICATION FairSpec
CONSTANTS
  NumServices = 2
  Stoppers = {"signal", "guard"}
  MayFail = TRUE
  MaxRuns = 2
INVARIANTS
  TypeOK
  StopWakesPoll
  UninitOncePerInit
PROPERTIES
  ImplementsLoop
\* run() has returned for the last time.
CHECK_DEADLOCK FALSE
