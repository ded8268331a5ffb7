\* Frames and audio that both come after their window has closed.
SPECIFICATION Spec
CONSTANTS
  NvW = 2
  EvalW = 2
  MinTrail = 0
  MinTail = 0
  EvalOff = TRUE
  AudioCap = 2
  Pollers = {p1}
  FrameTimes = {0}
  MaxT = 3
  FailLanes = {}
  MayAbort = FALSE
\* The turn ends, and with it the system.
CHECK_DEADLOCK FALSE
INVARIANT CaughtUpIsTranscribed
