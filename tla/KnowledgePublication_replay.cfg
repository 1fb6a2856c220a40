SPECIFICATION Spec
CONSTANTS
  NULL = NULL
  w1 = w1
  Works = {w1}
  Operations = {}
  Kinds = {"EDIT"}
  MaxVersion = 2
  StageAttempts = 2
  JobAttempts = 2
  MaxFaults = 1
INVARIANTS ReplaySafe
CHECK_DEADLOCK FALSE
