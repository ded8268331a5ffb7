\* A full evaluation in flight when the turn ends.
SPECIFICATION PipelineSpec
CONSTANTS
  NvW = 3
  EvalW = 2
  MinTrail = 2
  MinTail = 0
  EvalOff = FALSE
  AudioCap = 2
  Pollers = {p1}
  FrameTimes = {0}
  MaxT = 2
  FailLanes = {}
  MayAbort = FALSE
\* The turn ends, and with it the system.
CHECK_DEADLOCK FALSE
INVARIANT TurnEndRecordLast
