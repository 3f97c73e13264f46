SPECIFICATION Spec
CONSTANTS
  Task = {1, 2}
  Worker = {c1, c2, c3}
  NoWorker = NoWorker
  Observer = {}
  NoTask = NoTask
  MaxAttempts <- MCMaxAttempts
  MaxOomRetries = 1
  TimedTask = {}
  MalformedTask = {}
  ArtifactFaults = FALSE
  Yield <- YieldOk
  Device = {gpu}
  NoDevice = NoDevice
  MaxConcurrent = 2
  MayInterrupt = FALSE
  DeathBound = 0
CHECK_DEADLOCK FALSE
INVARIANTS
  SuccessesCounted
