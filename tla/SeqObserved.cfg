CONSTANTS
  NoWorker = NoWorker
  NoTask = NoTask
  MaxAttempts <- MCMaxAttempts
  MaxOomRetries = 0
  Task = {1, 2}
  Worker = {w1}
  Observer = {o1, o2}
  TimedTask = {2}
  MalformedTask = {}
  ArtifactFaults = TRUE
  Yield <- YieldByTask
  MayCrash = {w1}
  StopEarly = TRUE
  BulkRequeue = FALSE
  ExpiryBound = 1
SPECIFICATION ObservedSpec
INVARIANTS
  RunStatusJustified
  AlwaysRefreshable
PROPERTY QuiescentRunIsRepaired
CHECK_DEADLOCK FALSE
