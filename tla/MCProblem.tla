------------------------------- MODULE MCProblem -------------------------------
(* Small instances of Problem for TLC: two meshes, a space on each, and    *)
(* problems of one and two unknowns.                                       *)
EXTENDS Problem, TLC

CONSTANTS Ta, Tb, Va, Vb, Wa, ua, ub, va, wa

MCMeshOf == Va :> Ta @@ Wa :> Ta @@ Vb :> Tb
MCSpaceOf == ua :> Va @@ va :> Va @@ wa :> Wa @@ ub :> Vb

Problem1(u, tests, composite) == [unknowns |-> u, tests |-> tests, composite |-> composite]

Scalar == Problem1(<<ua>>, <<Va>>, FALSE)
Vector == Problem1(<<ua, va>>, <<Va, Va>>, FALSE)
TwoMeshes == Problem1(<<ua, ub>>, <<Va, Vb>>, FALSE)
OtherTests == Problem1(<<ua>>, <<Wa>>, FALSE)
Composite == Problem1(<<ua, ub>>, <<Va, Vb>>, TRUE)
Swapped == Problem1(<<ua, wa>>, <<Wa, Va>>, FALSE)
ProductOf == Problem1(<<ua, wa>>, <<Va, Wa>>, FALSE)
NotGalerkin == Problem1(<<ua, ub>>, <<Vb, Va>>, TRUE)

MCProblems == {Scalar, OtherTests, Vector, ProductOf, Swapped, TwoMeshes, Composite, NotGalerkin}
VectorOnly == {Vector}
CompositeOnly == {Composite}

Addresses == Permutations(Meshes)
===============================================================================
