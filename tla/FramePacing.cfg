\* A turn may be one frame of the slower timer late, which is a stall of
\* two frames for the faster one.
SPECIFICATION ClockSpec
CONSTANTS
  Timers = {"video", "half"}
  Period <- MCPeriod
  MaxFrameTime = 4
  MaxLag = 4
  MaxElapsed = 18
INVARIANTS
  NeverFast
  NoDrift
  NoBurst
\* Time is bounded.
CHECK_DEADLOCK FALSE
