-------------------------------- MODULE Assembly --------------------------------
(***************************************************************************)
(* The matrices of a script: assembled from a form with its conditions on  *)
(* the boundary, summed, multiplied, transposed, and brought to the shape  *)
(* a solver wants (fflib/problem.hpp, fflib/problem.cpp, fflib/lgmat.cpp,  *)
(* femlib/HashMatrix.{hpp,cpp}).                                           *)
(*                                                                         *)
(* A symmetric matrix may be stored by its lower triangle, half > 0.  Each *)
(* operation has its own loops for the two storages, and what it makes of  *)
(* a mixture is decided in several places.  asked is what the calls of the *)
(* script amount to, in the algebra of plain square matrices.              *)
(*                                                                         *)
(* The storage is a map from cells to values, which is what HashMatrix     *)
(* implements (ImplementsSparseMap); matrices are real, square and of one  *)
(* finite element space, and values are counted modulo Modulus, so that    *)
(* sums and products stay in a small set.                                  *)
(***************************************************************************)
EXTENDS Integers, Sequences, FiniteSets, Functions

CONSTANTS
  N,         (* degrees of freedom of the space                             *)
  Modulus,   (* values are 0 .. Modulus-1                                   *)
  Matrices,  (* the matrix variables of the script                          *)
  Forms,     (* forms: the elementary matrices, a sequence of records of    *)
             (* the degrees of freedom dof and the entries ke, and the      *)
             (* degrees on the boundary, on                                 *)
  Sums,      (* linear combinations: sequences of [coef, of, trans]         *)
  Solvers,   (* orTypeSol of the solvers, a set of the bits 1 (unsym),      *)
             (* 2 (herm), 4 (sym); {}: no solver of that name, the default  *)
  Syms,      (* values of sym=, -1 when it is not given                     *)
  Tgvs,      (* values of tgv=                                              *)
  Mixed,     (* FALSE: scripts keep to the conditions below                 *)
  MaxCalls   (* a bound: the instructions of the script                     *)

Dofs   == 1 .. N
Cells  == Dofs \X Dofs
Values == 0 .. Modulus - 1

ASSUME AssemblyAssumption ==
  /\ N \in Nat /\ Modulus \in Nat \ {0, 1}
  /\ \A f \in Forms : f.elements # <<>> /\ f.on \subseteq Dofs
  /\ \A f \in Forms : f.elements \in Seq([dof : Seq(Dofs), ke : Seq(Seq(Int))])
  /\ \A f \in Forms : \A k \in DOMAIN f.elements : \A l \in DOMAIN f.elements[k].dof :
        l \in DOMAIN f.elements[k].ke /\ DOMAIN f.elements[k].dof = DOMAIN f.elements[k].ke[l]
  /\ Sums \subseteq Seq([coef : Int, of : Matrices, trans : BOOLEAN])
  /\ Solvers \subseteq SUBSET {1, 2, 4} /\ Syms \subseteq -1 .. 2
  /\ Tgvs \subseteq Values \cup {-1, -2, -3, -10, -20, -30}
  /\ Mixed \in BOOLEAN /\ MaxCalls \in Nat

VARIABLES
  mat,     (* mat[M]: half, -1 when there is no matrix yet, and the stored  *)
           (* terms coef                                                    *)
  Uh,      (* Uh[M]: whether M remembers the space, of its last assembly    *)
  asked,   (* asked[M]: the matrix the script has asked for                 *)
  calls,   (* instructions so far                                           *)
  failed   (* the ffassert that has ended the script, if any                *)

vars == <<mat, Uh, asked, calls, failed>>

NoTerms == [x \in {} |-> 0]

Init ==
  /\ mat = [M \in Matrices |-> [half |-> -1, coef |-> NoTerms]]
  /\ Uh = [M \in Matrices |-> FALSE]
  /\ asked = [M \in Matrices |-> [x \in Cells |-> 0]]
  /\ calls = 0
  /\ failed = "no"

-----------------------------------------------------------------------------
(* Terms. *)

Mirror(x) == <<x[2], x[1]>>
Diagonal(x) == x[1] = x[2]
IsLower(x) == x[1] >= x[2]

At(c, x) == IF x \in DOMAIN c THEN c[x] ELSE 0

Total(val, S) == FoldFunctionOnSet(+, 0, val, S)

(* *npij(i,j) += v, with place[p] for (i,j) and val[p] for v, for each p   *)
(* of the domain of place, in any order.                                   *)
Added(c, place, val) ==
  [x \in DOMAIN c \cup {place[p] : p \in DOMAIN place} |->
     (At(c, x) + Total(val, {p \in DOMAIN place : place[p] = x})) % Modulus]

(* Mutant of Terms: the diagonal of a matrix stored half is met twice. *)
Terms_Twice(m, both) ==
  {t \in (DOMAIN m.coef) \X BOOLEAN : t[2] => both /\ m.half > 0}

(* The terms a loop over a matrix goes through: the stored ones and, when  *)
(* only half is stored and both is TRUE, those of the other triangle.      *)
Terms(m, both) ==
  {t \in (DOMAIN m.coef) \X BOOLEAN : t[2] => both /\ m.half > 0 /\ ~Diagonal(t[1])}

PlaceOf(p, trans) == IF trans # p[2] THEN Mirror(p[1]) ELSE p[1]

-----------------------------------------------------------------------------
(* Assembly of a form. *)

(* The entries of the elementary matrices of f, <<element, row, column>>:  *)
(* of a symmetric one only the lower half is computed.                     *)
Entries(f, sym) ==
  {p \in UNION {{<<k, il, jl>> : il \in DOMAIN f.elements[k].dof,
                                jl \in DOMAIN f.elements[k].dof} : k \in DOMAIN f.elements} :
     sym => p[3] <= p[2]}

Row(f, p)    == f.elements[p[1]].dof[p[2]]
Column(f, p) == f.elements[p[1]].dof[p[3]]
Entry(f, p)  == f.elements[p[1]].ke[p[2]][p[3]]

(* Mutant of Stored: the entry goes where its degrees of freedom say. *)
Stored_AsIs(i, j, sym) == <<i, j>>

(* operator+=(MatriceElementaire): a symmetric entry is put into the lower *)
(* triangle, whatever the order of the degrees of freedom in the element.  *)
Stored(i, j, sym) == IF sym /\ j > i THEN <<j, i>> ELSE <<i, j>>

AddElements(c, f, sym) ==
  Added(c, [p \in Entries(f, sym) |-> Stored(Row(f, p), Column(f, p), sym)],
        [p \in Entries(f, sym) |-> Entry(f, p)])

(* HashMatrix::SetBC: rows, then columns. *)
SetBC(c, on, tgv) ==
  LET d == [x \in DOMAIN c \cup {<<i, i>> : i \in on} |-> At(c, x)]
  IN  IF tgv >= 0
      THEN [x \in DOMAIN d |-> IF Diagonal(x) /\ x[1] \in on THEN tgv ELSE d[x]]
      ELSE [x \in DOMAIN d |->
              IF x[2] \in on /\ tgv \in {-2, -3, -20, -30} /\ (~Diagonal(x) \/ tgv < -19) THEN 0
              ELSE IF x[1] \notin on THEN d[x]
              ELSE IF Diagonal(x) THEN (IF tgv < -9 THEN 0 ELSE 1)
              ELSE IF tgv \notin {-3, -30} THEN 0 ELSE d[x]]

-----------------------------------------------------------------------------
(* The storage a solver wants. *)

Refused == -1

(* Init_sym_positive_var: sym from what was asked, or the storage so far,  *)
(* and from the solver.                                                    *)
InitSym(syma, ts) ==
  IF ts = {} THEN 0
  ELSE IF syma \in 0 .. 2 /\ <<1, 2, 4>>[syma + 1] \in ts THEN syma
  ELSE IF 1 \in ts THEN 0
  ELSE IF syma # -1 THEN Refused
  ELSE IF 2 \in ts THEN 1
  ELSE 2

(* HashMatrix::Half *)
Half(m, sym) ==
  [half |-> sym, coef |-> [x \in {y \in DOMAIN m.coef : IsLower(y)} |-> m.coef[x]]]

(* HashMatrix::UnHalf; its ffassert is UnHalfAsserts. *)
UnHalf(m) ==
  LET L == {x \in DOMAIN m.coef : x[1] > x[2]}
  IN  [half |-> 0, coef |-> Added(m.coef, [x \in L |-> Mirror(x)], [x \in L |-> m.coef[x]])]
UnHalfAsserts(m) == \A x \in DOMAIN m.coef : IsLower(x)

setsdp(m, sym) ==
  IF (m.half = 0 /\ sym = 0) \/ (m.half > 0 /\ sym > 0) THEN [m EXCEPT !.half = sym]
  ELSE IF sym > 0 THEN Half(m, sym) ELSE UnHalf(m)

-----------------------------------------------------------------------------
(* Sums and products. *)

AllHalf(L) == \A k \in DOMAIN L : mat[L[k].of].half > 0

(* The terms of the matrices of L, <<place in the list, term>>; the other  *)
(* triangles too, unless all of the list are stored half (keepSym).        *)
SumTerms(L) ==
  UNION {{<<k, t>> : t \in Terms(mat[L[k].of], ~AllHalf(L))} : k \in DOMAIN L}

(* BuildCombMat(c, L): each matrix of the list is added by addMatTo. *)
BuildCombMat(c, L) ==
  Added(c, [p \in SumTerms(L) |-> PlaceOf(p[2], L[p[1]].trans)],
        [p \in SumTerms(L) |-> L[p[1]].coef * mat[L[p[1]].of].coef[p[2][1]]])

(* AddMul: the four loops, over the stored and the other terms of each. *)
AddMul(a, b, ta, tb) ==
  LET P == {p \in Terms(a, TRUE) \X Terms(b, TRUE) : PlaceOf(p[1], ta)[2] = PlaceOf(p[2], tb)[1]}
  IN  Added(NoTerms, [p \in P |-> <<PlaceOf(p[1], ta)[1], PlaceOf(p[2], tb)[2]>>],
            [p \in P |-> a.coef[p[1][1]] * b.coef[p[2][1]]])

(* HashMatrix::dotranspose *)
dotranspose(m) ==
  [m EXCEPT !.coef = [x \in {Mirror(y) : y \in DOMAIN m.coef} |-> m.coef[Mirror(x)]]]

-----------------------------------------------------------------------------
(* The algebra the calls stand for. *)

(* What a matrix multiplies by (addMatMul). *)
Dense(m) ==
  [x \in Cells |-> IF m.half > 0 /\ ~Diagonal(x) THEN (At(m.coef, x) + At(m.coef, Mirror(x))) % Modulus
                   ELSE At(m.coef, x)]

IsSymmetric(d) == \A x \in Cells : d[x] = d[Mirror(x)]

FormMatrix(f) ==
  [x \in Cells |->
     Total([p \in Entries(f, FALSE) |-> Entry(f, p)],
           {p \in Entries(f, FALSE) : Row(f, p) = x[1] /\ Column(f, p) = x[2]}) % Modulus]

(* Conditions on the boundary, as the comments of tgv-test.edp say: which  *)
(* values of tgv set the row to zero, the column to zero, and the diagonal *)
(* term to one; tgv >= 0 sets the diagonal term to tgv.                    *)
Constrained(d, on, tgv) ==
  [x \in Cells |->
     IF tgv >= 0 THEN (IF Diagonal(x) /\ x[1] \in on THEN tgv ELSE d[x])
     ELSE IF Diagonal(x) /\ x[1] \in on THEN (IF tgv \in {-1, -2, -3} THEN 1 ELSE 0)
     ELSE IF x[1] \in on /\ tgv \in {-1, -2, -10, -20} THEN 0
     ELSE IF x[2] \in on /\ tgv \in {-2, -3, -20, -30} THEN 0
     ELSE d[x]]

Transposed(d, t) == IF t THEN [x \in Cells |-> d[Mirror(x)]] ELSE d

Combination(d, L) ==
  [x \in Cells |->
     (d[x] + Total([k \in DOMAIN L |-> L[k].coef * Transposed(asked[L[k].of], L[k].trans)[x]],
                   DOMAIN L)) % Modulus]

Product(d, e) ==
  [x \in Cells |-> Total([k \in Dofs |-> d[<<x[1], k>>] * e[<<k, x[2]>>]], Dofs) % Modulus]

-----------------------------------------------------------------------------
(* The conditions on scripts that the code needs. *)

(* Of a symmetric form half of each elementary matrix is computed, which   *)
(* must be symmetric, of degrees of freedom that are all different: a term *)
(* between two that are the same would be added to the diagonal once.      *)
SymmetricForm(f) ==
  \A k \in DOMAIN f.elements :
     LET e == f.elements[k]
     IN  \A il, jl \in DOMAIN e.dof :
            e.ke[il][jl] = e.ke[jl][il] /\ (e.dof[il] = e.dof[jl] => il = jl)

(* Storing half has no place for a row without its column. *)
TgvFits(half, tgv) == half = 0 \/ tgv >= 0 \/ tgv \in {-2, -20}

(* Sources stored half are expanded only when one of the list is not, and  *)
(* are not transposed when they are not expanded.                          *)
SumFits(L) == AllHalf(L) => \A k \in DOMAIN L : ~L[k].trans

Made(M) == mat[M].half >= 0

-----------------------------------------------------------------------------
(* Instructions. *)

Put(M, m, d) ==
  /\ mat' = [mat EXCEPT ![M] = m]
  /\ asked' = [asked EXCEPT ![M] = d]

(* M = a(Vh, Vh, sym=, solver=, tgv=): OpMatrixtoBilinearForm.  A matrix   *)
(* that was assembled in this space keeps its terms, put to zero, and its  *)
(* storage, which must be the one asked for (ffassert of operator+=).      *)
Zeroed(M, sym) ==
  IF Uh[M] THEN [mat[M] EXCEPT !.coef = [x \in DOMAIN @ |-> 0]]
  ELSE [half |-> sym, coef |-> NoTerms]

Assemble(M, f, syma, ts, tgv) ==
  LET sym == InitSym(syma, ts)
      m == Zeroed(M, sym)
  IN  \/ /\ sym = Refused
         /\ failed' = "solver"
         /\ UNCHANGED <<mat, Uh, asked>>
      \/ /\ sym # Refused /\ (sym > 0) # (m.half > 0)
         /\ failed' = "operator+="
         /\ mat' = [mat EXCEPT ![M] = m]
         /\ UNCHANGED <<Uh, asked>>
      \/ /\ sym # Refused /\ (sym > 0) = (m.half > 0)
         /\ Mixed \/ (TgvFits(sym, tgv) /\ (sym > 0 => SymmetricForm(f)))
         /\ Uh' = [Uh EXCEPT ![M] = TRUE]
         /\ Put(M, [half |-> sym, coef |-> SetBC(AddElements(m.coef, f, sym > 0), f.on, tgv)],
                Constrained(FormMatrix(f), f.on, tgv))
         /\ UNCHANGED failed

(* set(M, sym=, solver=): SetMatrix_Op *)
set(M, syma, ts) ==
  LET sym == InitSym(IF syma = -1 THEN mat[M].half ELSE syma, ts)
  IN  /\ Made(M)
      /\ \/ /\ sym = Refused
            /\ failed' = "solver"
            /\ UNCHANGED <<mat, asked>>
         \/ /\ sym # Refused
            /\ Mixed \/ (sym > 0 => IsSymmetric(Dense(mat[M])))
            /\ Put(M, setsdp(mat[M], sym), asked[M])
            /\ failed' = IF sym = 0 /\ mat[M].half > 0 /\ ~UnHalfAsserts(mat[M]) THEN "UnHalf" ELSE failed
      /\ UNCHANGED Uh

(* setBC(M, bc, tgv): Set_BC *)
Set_BC(M, on, tgv) ==
  /\ Made(M)
  /\ Mixed \/ TgvFits(mat[M].half, tgv)
  /\ Put(M, [mat[M] EXCEPT !.coef = SetBC(@, on, tgv)], Constrained(asked[M], on, tgv))
  /\ UNCHANGED <<Uh, failed>>

(* M = L *)
CombMat(M, L) ==
  /\ \A k \in DOMAIN L : Made(L[k].of)
  /\ Mixed \/ SumFits(L)
  /\ Put(M, [half |-> IF AllHalf(L) THEN 1 ELSE 0, coef |-> BuildCombMat(NoTerms, L)],
         Combination([x \in Cells |-> 0], L))
  /\ UNCHANGED <<Uh, failed>>

(* M += L.  M itself may come first in L: anywhere else, transposed, or    *)
(* with its other triangle, it would be read after it has changed, which   *)
(* is left out.                                                            *)
AddCombMat(M, L) ==
  /\ Made(M) /\ \A k \in DOMAIN L : Made(L[k].of)
  /\ \A k \in DOMAIN L :
        L[k].of = M => k = 1 /\ ~L[k].trans /\ (mat[M].half > 0 => AllHalf(L))
  /\ Mixed \/ (SumFits(L) /\ (mat[M].half > 0) = AllHalf(L))
  /\ Put(M, [mat[M] EXCEPT !.coef = BuildCombMat(@, L)], Combination(asked[M], L))
  /\ UNCHANGED <<Uh, failed>>

(* M = A * B, A' * B, A * B' *)
ProdMat(M, A, B, ta, tb) ==
  /\ Made(A) /\ Made(B)
  /\ Put(M, [half |-> 0, coef |-> AddMul(mat[A], mat[B], ta, tb)],
         Product(Transposed(asked[A], ta), Transposed(asked[B], tb)))
  /\ UNCHANGED <<Uh, failed>>

(* M = A, M = A' : CopyMat_tt *)
Copy(M, A, trans) ==
  /\ Made(A)
  /\ Mixed \/ (trans => mat[A].half = 0)
  /\ Put(M, IF trans THEN dotranspose(mat[A]) ELSE mat[A], Transposed(asked[A], trans))
  /\ UNCHANGED <<Uh, failed>>

Next ==
  /\ failed = "no" /\ calls < MaxCalls /\ calls' = calls + 1
  /\ \E M \in Matrices :
       \/ \E f \in Forms, s \in Syms, ts \in Solvers, tgv \in Tgvs : Assemble(M, f, s, ts, tgv)
       \/ \E s \in Syms, ts \in Solvers : set(M, s, ts)
       \/ \E on \in SUBSET Dofs, tgv \in Tgvs : Set_BC(M, on, tgv)
       \/ \E L \in Sums : CombMat(M, L) \/ AddCombMat(M, L)
       \/ \E A, B \in Matrices, ta, tb \in BOOLEAN : ProdMat(M, A, B, ta, tb)
       \/ \E A \in Matrices, trans \in BOOLEAN : Copy(M, A, trans)

Spec == Init /\ [][Next]_vars

-----------------------------------------------------------------------------
(* Properties. *)

(* A matrix stored half has its terms in the lower triangle, where a       *)
(* reassembly and UnHalf count on them; one that remembers a space is      *)
(* there.                                                                  *)
StorageOK ==
  /\ \A M \in Matrices :
        /\ mat[M].half \in -1 .. 2
        /\ DOMAIN mat[M].coef \subseteq Cells
        /\ mat[M].half > 0 => \A x \in DOMAIN mat[M].coef : IsLower(x)
  /\ \A M \in Matrices : Uh[M] => Made(M)

(* ffassert(err==0) of UnHalf (HashMatrix.cpp:1405), when a solver wants   *)
(* the whole of a matrix.                                                  *)
UnHalfHolds == failed # "UnHalf"

(* In a script that keeps to the conditions no sequence of assemblies,     *)
(* sums, copies and changes of solver brings a term into the upper         *)
(* triangle of a matrix stored half, and the assertion holds.              *)
Accepted == StorageOK /\ UnHalfHolds

(* Whatever the storage of its matrices, and however often it changed, the *)
(* script has the matrices it has asked for: sums of elements, conditions  *)
(* on the boundary, combinations, products and transposes commute with     *)
(* storing half, with terms that are left from the assembly before and     *)
(* with changes of solver.                                                 *)
Represents ==
  failed = "no" => \A M \in Matrices : Made(M) => Dense(mat[M]) = asked[M]
===============================================================================
