\* Three starts and a stop in every order, each failing, one start and the stop
\* cancelled at every await, and the cleanup.
SPECIFICATION ServiceLive
CONSTANTS
  Starts = {a, b, c}
  Stops = {x}
  Cleanup = z
  Sessions = {iv1, iv2}
  Tracks = {v}
  MayCancel = {a, x}
  None = None
\* The server stops.
CHECK_DEADLOCK FALSE
INVARIANTS ServiceTypeOK OneSubscriber EventsReachOpen NoOrphanConsumer LatestReadable CleanAfterShutdown
PROPERTY RequestsEnd
