----------------------------- MODULE MCHashMatrix -----------------------------
(* Small instances of HashMatrix for TLC. *)
EXTENDS HashMatrix

T(ii, jj, v) == [i |-> ii, j |-> jj, a |-> v]

(* An empty matrix and one whose two terms are not in any order.           *)
MCSources == {<<>>, <<T(1, 1, 1), T(0, 1, 0)>>}

FreshFormats == {type_HM, type_COO}
AnyFormat    == {type_HM, type_COO, type_CSR, type_CSC, upper_ji}
==============================================================================
