SPECIFICATION Spec
CONSTANTS
  Sessions = 2
  Iterations = 2
  MaxFailures = 1
INVARIANT UnlockedByInit
CHECK_DEADLOCK FALSE
