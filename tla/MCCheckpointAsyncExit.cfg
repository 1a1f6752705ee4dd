\* As MCCheckpoint.
SPECIFICATION Spec
CONSTANTS
  Trainings <- MCTrainings
  scores = {1, 2}
  NULL = NULL
INVARIANTS
  GracefulExitKeepsStep
CHECK_DEADLOCK FALSE
