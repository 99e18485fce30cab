SPECIFICATION FairSpec
CONSTANTS
  Sessions = 3
  Iterations = 2
  MaxFailures = 1
INVARIANTS InTurn Answered NamesGivenBack
PROPERTY SessionEnds
CHECK_DEADLOCK FALSE
