CONSTANTS
  NoWorker = NoWorker
  NoTask = NoTask
  MaxAttempts <- MCMaxAttempts
  MaxOomRetries = 0
  Task = {1}
  Worker = {w1}
  Observer = {o1}
  TimedTask = {1}
  MalformedTask = {}
  ArtifactFaults = FALSE
  Yield <- YieldOk
  MayCrash = {}
  StopEarly = FALSE
  BulkRequeue = FALSE
  ExpiryBound = 1
SPECIFICATION Spec
INVARIANT CompletedRunReadsCompleted
CHECK_DEADLOCK FALSE
