\* The task's payload names its technique, which only the worker looks at.
SPECIFICATION Spec
CONSTANTS
  r1 = r1
  r2 = r2
  Run = {r1, r2}
  Submission <- MCSubmission
  Environment <- MCEnvironmentOne
  Grid <- MCGrid
  HandlerResult <- MCHandlerResult
INVARIANT DegenerateNotCompared
CHECK_DEADLOCK FALSE
