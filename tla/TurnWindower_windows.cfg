\* The nv/stt grid: two pollers, late frames, late audio, failing calls, an
\* early close, and no evaluations.
SPECIFICATION Spec
CONSTANTS
  NvW = 2
  EvalW = 3
  MinTrail = 0
  MinTail = 0
  EvalOff = TRUE
  AudioCap = 2
  Pollers = {p1, p2}
  FrameTimes = {0, 2}
  MaxT = 4
  FailLanes = {"nv", "stt"}
  MayAbort = TRUE
SYMMETRY PollerSymmetry
\* The turn ends, and with it the system.
CHECK_DEADLOCK FALSE
INVARIANTS TypeOK WindowsOnce WindowsPaired StarvedOrRead TurnEndIsLast TranscriptWhole
