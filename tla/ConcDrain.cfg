SPECIFICATION FairSpec
CONSTANTS
  Task = {1, 2}
  Worker = {c1, c2, c3}
  NoWorker = NoWorker
  Observer = {}
  NoTask = NoTask
  MaxAttempts <- MCMaxAttempts
  MaxOomRetries = 1
  TimedTask = {1}
  MalformedTask = {}
  ArtifactFaults = FALSE
  Yield <- YieldMixed
  Device = {gpu}
  NoDevice = NoDevice
  MaxConcurrent = 2
  MayInterrupt = TRUE
  DeathBound = 2
CHECK_DEADLOCK FALSE
INVARIANTS
  TypeOK
  SingleExecutor
  NoSuccessInvented
  StartsBounded
  NothingLeftBehind
  NoSuccessVanishes
PROPERTIES
  ImplementsCustody
  ParentReturns
