SPECIFICATION SolverSpec
CONSTANTS
  MaxDim = 1
  MaxNnz = 1
  Vals = {1, 2}
  Sources = {}
  TransposeFrom = {}
  Stages = {}
  Garbage = {9}
PROPERTIES SolveIsCurrent
