SPECIFICATION Spec
CONSTANTS
  Failures = {"main", "audio", "media"}
  MaxFailures = 1
INVARIANTS
  NumbersAreSafe
  AbortsOnlyAfterFailure
CHECK_DEADLOCK FALSE
