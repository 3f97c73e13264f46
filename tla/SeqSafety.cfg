CONSTANTS
  NoWorker = NoWorker
  NoTask = NoTask
  MaxAttempts <- MCMaxAttempts
  MaxOomRetries = 0
  Task = {1}
  Worker = {w1, w2, w3}
  Observer = {}
  TimedTask = {1}
  MalformedTask = {}
  ArtifactFaults = FALSE
  Yield <- YieldPartings
  MayCrash = {w1, w2, w3}
  StopEarly = FALSE
  BulkRequeue = TRUE
  ExpiryBound = 1
SPECIFICATION Spec
SYMMETRY WorkerSymmetry
INVARIANTS
  TypeOK
  OneVerdictPerAttempt
  LoggedVerdictStands
  SuccessCountedOnce
  SingleExecutor
  AttemptsBounded
PROPERTY ImplementsCustody
CHECK_DEADLOCK FALSE
