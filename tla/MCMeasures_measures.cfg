\* Two lanes that shed at two frames, failing detections, and a reset and a
\* close with frames still queued; and every input of the functions, up to
\* MCMaxItems items.
SPECIFICATION MCSpec
CONSTANTS
  Lanes = {"face", "pose"}
  MaxBacklog = 2
  Gap = 1
  Times = {0, 1}
  MaxFrames = 4
  MaxResets = 1
  Kinds = {"lanes", "face", "pose", "hands", "voice", "record", "json", "reply", "sse", "video", "audio", "sentence", "settings", "sinks"}
  Items <- MCItems
  MaxItems <- MCMaxItems
  Cut = Cut
  Parts = 2
  BlinkTh = 1
  SmileTh = 1
  VisTh = 1
  GestureVel = 1
  WristObservable = 1
  Radial = 115
  ThumbAway = 68
  SegMin = 2
  MinDuration = 2
  Junction = 1
  Pause = 2
  Offset = 18
  MinFrames = 3
  MinVoiced = 2
  MinSounding = 2
  TopN = 1
  MaxHighlights = 2
  EnergyJump = 2
  RateOff = 1
  MaxNotes = 1
  Interval = 2
  Lag = 2
  FrameCap = 2
  VideoMax = 1
  AudioMax = 4
  Workers = {w1, w2}
  Listeners = {l1, l2}
  MaxRecords = 2
  States = {"neutral", "nervous"}
  MaxLevel = 2
  MaxTail = 1
  MaxCritique = 2
  MaxObservations = 2
\* The lanes close, and an input is complete.
CHECK_DEADLOCK FALSE
INVARIANTS PendingExact RowsOfThisTurn RowsInOrder DetectorsOpen VisualAddsUp PausesAddUp HandoffFaithful AnswersSaved MediaKept StartsWhole StreamsKept
PROPERTIES MsGrows SheddingEnds
