SPECIFICATION Spec
CONSTANTS
  N = 2
  Modulus = 3
  Matrices = {A, B}
  Forms <- MCForms
  Sums <- MCSums
  Solvers <- MCSolvers
  Syms <- MCSyms
  Tgvs <- MCTgvs
  Mixed = FALSE
  MaxCalls = 4
SYMMETRY Symmetry
CHECK_DEADLOCK FALSE
INVARIANTS Accepted Represents
