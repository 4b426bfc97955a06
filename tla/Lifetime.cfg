SPECIFICATION Spec
INVARIANTS
  LivesAreNested
  BindingsAreScoped
  NothingElseLeaks
  KilledOnlyWhileWaiting
PROPERTY InterruptEnds
CHECK_DEADLOCK FALSE
