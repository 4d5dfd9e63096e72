SPECIFICATION Spec
CONSTANTS
  PipeSize = 1
  MaxOutput = 2
INVARIANTS
  TypeOK
  SuccessIsTrue
  NothingDropped
PROPERTIES
  RunnerReturns
CHECK_DEADLOCK FALSE
