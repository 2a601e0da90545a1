SPECIFICATION Spec
CONSTANTS
  FileLen = 8
  ProbedSizes = {8}
  InitThreads = 2
  ThreadRequests = {0, 3}
  MaxUserChanges = 1
  MaxChunks = 3
  Worker = {w1, w2, w3}
  NoWorker = NoWorker
  Buf = 2
  MinSplit = 3
  MaxRetries = 1
  DynamicParts = TRUE
  RangeSupport = "honoured"
  MaxFaults = 1
SYMMETRY Symmetry
INVARIANTS CountedIsWritten FinishedHasNoHole
PROPERTY KeepsPromise
CHECK_DEADLOCK FALSE
