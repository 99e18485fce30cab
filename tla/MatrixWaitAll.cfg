SPECIFICATION Spec
CONSTANTS
  Ranks = {0, 1}
  Keys = {1}
  Programs <- MatrixInAll
  Null = Null
INVARIANT WaitAllFinishes
