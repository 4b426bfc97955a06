SPECIFICATION FairSpec
CONSTANTS
  Failures = {"main", "media", "audio", "flush"}
  PtrFailures = {"main", "media"}
INVARIANTS
  ShutdownInOrder
  ExitTellsFailure
PROPERTIES
  SessionEnds
  ContextsAreLoops
\* The process ends.
CHECK_DEADLOCK FALSE
