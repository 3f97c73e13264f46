\* Two runs of up to two tasks: every way they compare, at any moment.
SPECIFICATION Spec
CONSTANTS
  r1 = r1
  r2 = r2
  Run = {r1, r2}
  Submission <- MCSubmission
  Environment <- MCEnvironment
  Grid <- MCGrid
  HandlerResult <- MCHandlerResult
SYMMETRY MCSymmetry
INVARIANTS TypeOK StrictRefusesOtherData CountsExplained VerdictsAgree AcceptedMeansAssessable
PROPERTY RegressionsStand
CHECK_DEADLOCK FALSE
