\* The key dataset_hash is there, as null, next to the splits.
SPECIFICATION Spec
CONSTANTS
  r1 = r1
  r2 = r2
  Run = {r1, r2}
  Submission <- MCSubmissionNull
  Environment <- MCEnvironmentOne
  Grid <- MCGrid
  HandlerResult <- MCHandlerResult
INVARIANT StrictMeansSameData
CHECK_DEADLOCK FALSE
