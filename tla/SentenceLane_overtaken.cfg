\* A completed that comes when the next utterance has begun.
SPECIFICATION LaneSpec
CONSTANTS
  MaxT = 8
  NUtt = 2
  MaxDeltas = 0
  MaxPieces = 1
  MinSentence = 1
  MinEmpty = 2
  Timeout = 10
  MaxSents = 2
  EvalSpan = 2
  MinTail = 1
  SnapReach = 0
  Overtaken = TRUE
\* The turn ends.
CHECK_DEADLOCK FALSE
INVARIANT SpokenThere
