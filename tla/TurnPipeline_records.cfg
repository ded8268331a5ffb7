\* Two nv/stt windows, in every order of completion, each signal late or
\* not, and aclose cancelled at any point.
SPECIFICATION PipelineSpec
CONSTANTS
  NvW = 2
  EvalW = 2
  MinTrail = 0
  MinTail = 0
  EvalOff = TRUE
  AudioCap = 2
  Pollers = {p1}
  FrameTimes = {0, 2}
  MaxT = 3
  FailLanes = {}
  MayAbort = TRUE
\* The turn ends, and with it the system.
CHECK_DEADLOCK FALSE
INVARIANTS PipelineTypeOK TimelyRecorded
PROPERTY RecordsAreATurnLog
