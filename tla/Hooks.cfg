SPECIFICATION Spec
CONSTANTS
  Worker = {"a", "b"}
  Stranger = "s"
  Nobody = "nobody"
  NumTasks = 5
  Metric <- Metrics3
  Patience = 2
  MinDelta = 1
INVARIANTS
  TypeOK
  WholeLines
  StopsAfterAStall
  StopsSoon
PROPERTY ResultReachesStore
CHECK_DEADLOCK FALSE
