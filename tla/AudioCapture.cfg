SPECIFICATION FairSpec
CONSTANTS
  FrameSize = 2
  SampleSize = 2
  Interleaved = FALSE
  BufferSizes = {1, 3}
  DataCounts = {1, 2}
  MaxCaptured = 8
  MaxRuns = 1
INVARIANTS
  TypeOK
  NeverUnderNotified
  BytesMatchSamples
  PtsIsStreamPosition
PROPERTY
  FramesAreDelivered
\* The session may end, and the process may terminate on a contract check.
CHECK_DEADLOCK FALSE
