SPECIFICATION Spec
CONSTANTS
  Submission <- Submissions
  Actor = {"ann", "bob"}
  Allowed = {"ann"}
  Launcher = {"r1", "r2"}
  Skipper = {"r2"}
INVARIANTS
  TypeOK
  NothingRunsUnapproved
  CompletedMeansSubmitted
PROPERTY CreationOverwritesNothing
CHECK_DEADLOCK FALSE
