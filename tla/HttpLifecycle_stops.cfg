SPECIFICATION MCSpec
CONSTANTS
  p1 = p1
  p2 = p2
  Chunk = {c1, c2}
  Worker = {w1, w2}
  NoChunk = NoChunk
  Caller = {p1, p2}
  MaxAttempts = 2
  MaxRetries = 1
  MaxFaults = 1
INVARIANTS StoppedIsQuiet OpenWhileFetching FinishedIsWhole PartialKept
PROPERTIES StopsAndEnds
CHECK_DEADLOCK FALSE
