\* Progress of aclose, with model calls that may hang, and the records of one
\* window, one full evaluation and the tail.
SPECIFICATION PipelineLive
CONSTANTS
  NvW = 2
  EvalW = 2
  MinTrail = 0
  MinTail = 0
  EvalOff = FALSE
  AudioCap = 2
  Pollers = {p1}
  FrameTimes = {0}
  MaxT = 2
  FailLanes = {"stt"}
  MayAbort = FALSE
\* The turn ends, and with it the system.
CHECK_DEADLOCK FALSE
PROPERTIES RecordsAreATurnLog TurnEndDelivered CatchUpHappens EndTurnReturns
