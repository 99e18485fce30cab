SPECIFICATION Spec
CONSTANTS
  Wrappers = {w1, w2}
  Matrices = {m1, m2, m3}
  Solvers = {s1, s2, s3}
  Spaces = {1, 2}
  None = None
  Dead = Dead
SYMMETRY Interchangeable
INVARIANTS RowsOfTestFunctions
