\* Two utterances, each completed before the next begins or never, with
\* deltas, lost VAD events, timeouts, and the evaluations they trigger.
SPECIFICATION LaneSpec
CONSTANTS
  MaxT = 3
  NUtt = 2
  MaxDeltas = 1
  MaxPieces = 2
  MinSentence = 1
  MinEmpty = 2
  Timeout = 1
  MaxSents = 2
  EvalSpan = 2
  MinTail = 1
  SnapReach = 1
  Overtaken = FALSE
\* The turn ends.
CHECK_DEADLOCK FALSE
INVARIANTS SentencesInOrder DeltasOnce TranscriptHasAll EvaluationsWhole SpokenThere
