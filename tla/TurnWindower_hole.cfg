\* A failed evaluation at the start of an answer longer than AudioCap.
SPECIFICATION Spec
CONSTANTS
  NvW = 4
  EvalW = 1
  MinTrail = 3
  MinTail = 0
  EvalOff = FALSE
  AudioCap = 2
  Pollers = {p1}
  FrameTimes = {0}
  MaxT = 3
  FailLanes = {"eval"}
  MayAbort = FALSE
\* The turn ends, and with it the system.
CHECK_DEADLOCK FALSE
INVARIANT HoleReheard
