SPECIFICATION Spec
CONSTANTS
  N = 2
  Modulus = 3
  Matrices = {A, B}
  Forms <- SymmetricForms
  Sums <- MCSums
  Solvers <- MCSolvers
  Syms <- MCSyms
  Tgvs <- Penalty
  Mixed = TRUE
  MaxCalls = 4
SYMMETRY Symmetry
CHECK_DEADLOCK FALSE
INVARIANT UnHalfHolds
