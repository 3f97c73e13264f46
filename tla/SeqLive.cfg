CONSTANTS
  NoWorker = NoWorker
  NoTask = NoTask
  MaxAttempts <- MCMaxAttempts
  MaxOomRetries = 0
  Task = {1, 2}
  Worker = {w1, w2}
  Observer = {}
  TimedTask = {2}
  MalformedTask = {}
  ArtifactFaults = FALSE
  Yield <- YieldFlaky
  MayCrash = {}
  StopEarly = FALSE
  BulkRequeue = FALSE
  ExpiryBound = 1
SPECIFICATION FairSpec
INVARIANTS
  EverySuccessCounted
  CompletedRunReadsCompleted
PROPERTIES
  EveryTaskSettles
  EveryDrainReturns
CHECK_DEADLOCK FALSE
