CONSTANTS
  Streams = {s1, s2}
  Requests = {r1}
  MaxOpenStreams = 1
  MaxRequests = 1
  CleanupTurns = 1
  MaxBody = 2
  MaxMessage = 2
  MaxQueuedMessages = 2
  MaxQueuedBytes = 3
  MaxSession = 5
  MaxResponse = 2
  Timers = {t1, t2, t3}
  MaxId = 3
SPECIFICATION Spec
INVARIANTS Safety StopFindsQuiet TruncationShows EgressSafety TimersReachable
PROPERTIES AbortedLeaves ReaderIsAnswered
CHECK_DEADLOCK FALSE
