------------------------------ MODULE MCAssembly ------------------------------
(***************************************************************************)
(* Values of the constants of Assembly for TLC.                            *)
(***************************************************************************)
EXTENDS Assembly, TLC

E(dof, ke) == [dof |-> dof, ke |-> ke]
T(coef, of, trans) == [coef |-> coef, of |-> of, trans |-> trans]

(* Symmetric, of two elements that share a degree of freedom, one of which *)
(* numbers them downwards; and one that is not symmetric, with an element  *)
(* that goes round a period and meets itself.                              *)
MCForms ==
  {[elements |-> <<E(<<2, 1>>, <<<<1, 2>>, <<2, 2>>>>), E(<<2>>, <<<<1>>>>)>>, on |-> {1}],
   [elements |-> <<E(<<1, 2>>, <<<<1, 1>>, <<0, 1>>>>), E(<<1, 1>>, <<<<0, 2>>, <<2, 0>>>>)>>, on |-> {2}]}

(* 2 M, M + 2 M' and M + 2 N *)
MCSums == {<<T(2, M, FALSE)>> : M \in Matrices}
          \cup {<<T(1, M, FALSE), T(2, M, TRUE)>> : M \in Matrices}
          \cup {<<T(1, p[1], FALSE), T(2, p[2], FALSE)>> : p \in {q \in Matrices \X Matrices : q[1] # q[2]}}

Symmetry == Permutations(Matrices)

(* The form that is symmetric and nothing else, for the mixtures. *)
SymmetricForms == {f \in MCForms : SymmetricForm(f)}
Penalty == {2}
RowOnly == {-1}

MCSolvers == {{}, {1}, {2}, {1, 2, 4}}
MCSyms == {-1, 0, 1, 2}
MCTgvs == {2, -1, -2, -3, -10, -20, -30}
===============================================================================
