SPECIFICATION SolverSpec
CONSTANTS
  MaxDim = 2
  MaxNnz = 1
  Vals = {1, 2}
  Sources = {}
  TransposeFrom = {}
  Stages = {1, 2}
  Garbage = {0, 9}
INVARIANTS CodesInv
PROPERTIES SolveDimension FirstSolveIsCurrent
