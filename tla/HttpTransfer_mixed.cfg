SPECIFICATION FairSpec
CONSTANTS
  FileLen = 4
  ProbedSizes <- KnownOrNot
  InitThreads = 2
  ThreadRequests = {0, 3}
  MaxUserChanges = 1
  MaxChunks = 3
  Worker = {w1, w2}
  NoWorker = NoWorker
  Buf = 2
  MinSplit = 2
  MaxRetries = 1
  DynamicParts = TRUE
  RangeSupport = "mixed"
  MaxFaults = 1
INVARIANTS   NoWriterAfterFinish
 
CHECK_DEADLOCK FALSE
