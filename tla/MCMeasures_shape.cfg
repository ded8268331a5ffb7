\* One pose row in a window.
SPECIFICATION MCSpec
CONSTANTS
  Lanes = {"face", "pose"}
  MaxBacklog = 2
  Gap = 1
  Times = {0, 1}
  MaxFrames = 4
  MaxResets = 1
  Kinds = {"pose"}
  Items <- MCItems
  MaxItems <- MCMaxItems
  Cut = Cut
  Parts = 2
  BlinkTh = 1
  SmileTh = 1
  VisTh = 1
  GestureVel = 1
  WristObservable = 1
  Radial = 115
  ThumbAway = 68
  SegMin = 2
  MinDuration = 2
  Junction = 1
  Pause = 2
  Offset = 18
  MinFrames = 3
  MinVoiced = 2
  MinSounding = 2
  TopN = 1
  MaxHighlights = 2
  EnergyJump = 2
  RateOff = 1
  MaxNotes = 1
  Interval = 2
  Lag = 2
  FrameCap = 2
  VideoMax = 1
  AudioMax = 4
  Workers = {w1, w2}
  Listeners = {l1, l2}
  MaxRecords = 2
  States = {"neutral", "nervous"}
  MaxLevel = 2
  MaxTail = 1
  MaxCritique = 2
  MaxObservations = 2
\* An input is complete.
CHECK_DEADLOCK FALSE
INVARIANT AggregateHasWindowShape
