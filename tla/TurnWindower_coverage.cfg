\* The evaluation grid: three windows that fail, lack frames or finish in any
\* order, and the tail.  One nv window is too wide to close.
SPECIFICATION Spec
CONSTANTS
  NvW = 7
  EvalW = 2
  MinTrail = 6
  MinTail = 1
  EvalOff = FALSE
  AudioCap = 2
  Pollers = {p1}
  FrameTimes = {0, 3, 4}
  MaxT = 6
  FailLanes = {"eval", "tail"}
  MayAbort = TRUE
\* The turn ends, and with it the system.
CHECK_DEADLOCK FALSE
INVARIANTS CoveredPrefix TailMeetsCoverage
