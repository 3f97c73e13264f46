CONSTANTS
  NoWorker = NoWorker
  NoTask = NoTask
  MaxAttempts <- MCMaxAttempts
  MaxOomRetries = 1
  Task = {1, 2, 3}
  Worker = {w1}
  Observer = {}
  TimedTask = {1, 2, 3}
  MalformedTask = {}
  ArtifactFaults = FALSE
  Yield <- YieldStorable
  MayCrash = {}
  StopEarly = FALSE
  BulkRequeue = FALSE
  ExpiryBound = 1
SPECIFICATION FairSpec
INVARIANTS
  RaisedMeansRecorded
  SettledIsLogged
  LoneDrainTruthful
CHECK_DEADLOCK FALSE
