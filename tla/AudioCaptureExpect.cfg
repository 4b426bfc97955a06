SPECIFICATION Spec
CONSTANTS
  FrameSize = 2
  SampleSize = 2
  Interleaved = TRUE
  BufferSizes = {2}
  DataCounts = {1}
  MaxCaptured = 6
  MaxRuns = 1
INVARIANT
  ExpectFullFrame
CHECK_DEADLOCK FALSE
