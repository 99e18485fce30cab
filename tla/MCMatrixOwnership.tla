--------------------------- MODULE MCMatrixOwnership ---------------------------
(* Small instances of MatrixOwnership for TLC. *)
EXTENDS MatrixOwnership, TLC

(* Variables, matrices and solvers only differ by name. *)
Interchangeable ==
  Permutations(Wrappers) \cup Permutations(Matrices) \cup Permutations(Solvers)
==============================================================================
