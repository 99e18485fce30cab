--------------------------- MODULE HashMatrix_proofs ---------------------------
(***************************************************************************)
(* Theorems about HashMatrix and the solver that reads it, UmfpackSolver,  *)
(* for every size of the matrix, every bound on the terms and every set of *)
(* values, and whatever the members that are never set hold.               *)
(***************************************************************************)
EXTENDS UmfpackSolver, FiniteSetTheorems, SequenceTheorems, WellFoundedInduction, TLAPS

Term == [i : Int, j : Int, a : Vals]

-----------------------------------------------------------------------------
(* Positions. *)

(* A set of naturals that is not empty has a least element. *)
LEMMA NatMin ==
  ASSUME NEW S \in SUBSET Nat, S # {}
  PROVE  \E x \in S : \A y \in S : x <= y
<1> DEFINE R == {ss \in Nat \X Nat : ss[1] < ss[2]}
<1>1. IsWellFoundedOn(R, Nat)
  BY NatLessThanWellFounded DEF OpToRel
<1>2. PICK x \in S : \A y \in S : ~(<<y, x>> \in R)
  BY <1>1, WFMin
<1>3. ASSUME NEW y \in S
      PROVE  x <= y
  <2>1. x \in Nat /\ y \in Nat
    OBVIOUS
  <2>2. <<y, x>> \notin R
    BY <1>2
  <2>3. ~(y < x)
    BY <2>1, <2>2
  <2> QED BY <2>1, <2>3
<1> QED BY <1>3

(* Greatest(S) is in S, for positions S of a list. *)
LEMMA GreatestIn ==
  ASSUME NEW l \in Nat, NEW S \in SUBSET (1 .. l), S # {}
  PROVE  Greatest(S) \in S
<1> DEFINE D == {l - x : x \in S}
<1>1. D \in SUBSET Nat /\ D # {}
  <2>1. \A x \in S : x \in Nat /\ x <= l
    OBVIOUS
  <2>2. \A x \in S : l - x \in Nat
    BY <2>1
  <2> QED BY <2>2
<1>2. PICK d \in D : \A e \in D : d <= e
  BY <1>1, NatMin
<1>3. PICK x \in S : d = l - x
  OBVIOUS
<1>4. ASSUME NEW y \in S
      PROVE  y <= x
  <2>1. d <= l - y
    BY <1>2
  <2> QED BY <1>3, <2>1
<1> QED BY <1>3, <1>4 DEF Greatest

-----------------------------------------------------------------------------
(* Lists. *)

(* A function on 1..l is a list of length l. *)
LEMMA SeqIntro ==
  ASSUME NEW S, NEW l \in Nat, NEW d \in [1 .. l -> S]
  PROVE  d \in Seq(S) /\ Len(d) = l /\ DOMAIN d = 1 .. l
<1>1. d \in Seq(S)
  BY SeqDef
<1> QED BY <1>1, LenProperties

(* The length, the positions and the terms of a list. *)
LEMMA SeqElim ==
  ASSUME NEW S, NEW c \in Seq(S)
  PROVE  Len(c) \in Nat /\ DOMAIN c = 1 .. Len(c) /\ \A k \in DOMAIN c : c[k] \in S
BY LenProperties

(* A list of the same length, position by position. *)
LEMMA Mapped ==
  ASSUME NEW S, NEW c \in Seq(S), NEW T, NEW d \in [DOMAIN c -> T]
  PROVE  d \in Seq(T) /\ Len(d) = Len(c) /\ DOMAIN d = DOMAIN c
<1>1. Len(c) \in Nat /\ DOMAIN c = 1 .. Len(c)
  BY SeqElim
<1> QED BY <1>1, SeqIntro

(* The positions S of a list can be counted. *)
LEMMA PositionsFinite ==
  ASSUME NEW R, NEW c \in Seq(R), NEW S \in SUBSET DOMAIN c
  PROVE  IsFiniteSet(S) /\ Cardinality(S) \in Nat
<1>1. Len(c) \in Nat /\ DOMAIN c = 1 .. Len(c)
  BY SeqElim
<1>2. IsFiniteSet(1 .. Len(c))
  BY <1>1, FS_Interval
<1>3. IsFiniteSet(S)
  BY <1>1, <1>2, FS_Subset
<1> QED BY <1>3, FS_CardinalityType

(* Packed(c,f), for an increasing enumeration f of some positions of c. *)
LEMMA PackedType ==
  ASSUME NEW R, NEW c \in Seq(R), NEW S \in SUBSET DOMAIN c, NEW f \in Increasing(S)
  PROVE  /\ Packed(c, f) \in Seq(R)
         /\ DOMAIN Packed(c, f) = DOMAIN f
         /\ \A k \in DOMAIN f : f[k] \in S /\ Packed(c, f)[k] = c[f[k]]
         /\ \A k, l \in DOMAIN f : k # l => f[k] # f[l]
<1>1. Cardinality(S) \in Nat
  BY PositionsFinite
<1>2. f \in [1 .. Cardinality(S) -> S] /\ \A x, y \in DOMAIN f : x < y => f[x] < f[y]
  BY DEF Increasing
<1>3. DOMAIN c = 1 .. Len(c) /\ \A k \in DOMAIN c : c[k] \in R
  BY SeqElim
<1>4. Packed(c, f) \in [1 .. Cardinality(S) -> R]
  BY <1>2, <1>3 DEF Packed
<1>5. \A k, l \in DOMAIN f : k # l => f[k] # f[l]
  <2> SUFFICES ASSUME NEW k \in DOMAIN f, NEW l \in DOMAIN f, k # l
               PROVE  f[k] # f[l]
    OBVIOUS
  <2>1. k \in Int /\ l \in Int /\ f[k] \in Int /\ f[l] \in Int
    BY <1>1, <1>2, <1>3, SeqElim
  <2>2. k < l \/ l < k
    BY <2>1
  <2> QED BY <2>1, <2>2, <1>2
<1> QED BY <1>1, <1>2, <1>4, <1>5, SeqIntro DEF Packed

(* Rearranged(c,f), for a permutation f of the positions. *)
LEMMA RearrangedType ==
  ASSUME NEW R, NEW c \in Seq(R), NEW f \in Permutations1(c)
  PROVE  /\ Rearranged(c, f) \in Seq(R)
         /\ Len(Rearranged(c, f)) = Len(c)
         /\ DOMAIN Rearranged(c, f) = DOMAIN c
         /\ \A k \in DOMAIN c : f[k] \in DOMAIN c /\ Rearranged(c, f)[k] = c[f[k]]
         /\ \A k, l \in DOMAIN c : k # l => f[k] # f[l]
<1>1. f \in [DOMAIN c -> DOMAIN c] /\ \A k, l \in DOMAIN c : k # l => f[k] # f[l]
  BY DEF Permutations1, Bijection, Injection, IsInjective
<1>2. \A k \in DOMAIN c : c[k] \in R
  BY SeqElim
<1>3. Rearranged(c, f) \in [DOMAIN c -> R]
  BY <1>1, <1>2 DEF Rearranged
<1> QED BY <1>1, <1>3, Mapped DEF Rearranged

-----------------------------------------------------------------------------
(* The table. *)

(* A bucket number is a bucket of the table. *)
LEMMA HashRange ==
  ASSUME NEW ii \in Int, NEW jj \in Int, NEW f \in Int, NEW nn \in Int, NEW nh \in Nat \ {0}
  PROVE  hash(ii, jj, f, nn, nh) \in 0 .. nh - 1
<1> DEFINE x == (ii - f) + (jj - f) * nn
<1>1. x \in Int
  OBVIOUS
<1>2. x % nh \in 0 .. nh - 1
  BY <1>1
<1> QED BY <1>2 DEF hash

(* The arrays allocated have a positive length. *)
LEMMA RoomPositive ==
  ASSUME NEW asked \in Nat, NEW nz \in Nat, NEW mnx \in Nat \ {0}, NEW old \in Nat
  PROVE  IncreazeMax(asked, nz, mnx, old) \in Nat \ {0}
<1>1. (old * 6) \div 5 \in Nat
  OBVIOUS
<1> QED BY <1>1 DEF IncreazeMax, Larger

(* The table has a bucket. *)
LEMMA HashPositive ==
  ASSUME NEW mnx \in Nat \ {0}, NEW len \in Nat
  PROVE  IncreazeHash(mnx, len) \in Nat \ {0}
BY DEF IncreazeHash, Larger, Smaller

(* A table made by ReHash links positions of the list only. *)
LEMMA ReHashType ==
  ASSUME NEW c, NEW f, NEW nn, NEW nh
  PROVE  ReHash(c, f, nn, nh) \in [0 .. nh - 1 -> SUBSET (1 .. Len(c))]
BY DEF ReHash

(* Increaze() leaves arrays of a positive length and a fresh table. *)
LEMMA IncreazeType ==
  ASSUME NEW asked \in Nat, NEW c, Len(c) \in Nat, NEW f, NEW nn \in Nat \ {0},
         NEW mm \in Nat \ {0}, nnzmax \in Nat, Increaze(asked, c, f, nn, mm)
  PROVE  /\ nnzmax' \in Nat \ {0}
         /\ nhash' \in Nat \ {0}
         /\ head' = ReHash(c, f, nn, nhash')
         /\ head' \in [0 .. nhash' - 1 -> SUBSET (1 .. Len(c))]
<1> DEFINE mnx == Larger(nn, mm)
           len == IncreazeMax(asked, Len(c), mnx, nnzmax)
<1>1. mnx \in Nat \ {0}
  BY DEF Larger
<1>2. len \in Nat \ {0}
  BY <1>1, RoomPositive
<1>3. IncreazeHash(mnx, len) \in Nat \ {0}
  BY <1>1, <1>2, HashPositive
<1>4. nnzmax' = len /\ nhash' = IncreazeHash(mnx, len) /\ head' = ReHash(c, f, nn, nhash')
  BY DEF Increaze
<1> QED BY <1>2, <1>3, <1>4, ReHashType

(* Linking one more term. *)
LEMMA LinkedType ==
  ASSUME NEW nh \in Nat \ {0}, NEW l \in Nat,
         NEW hd \in [0 .. nh - 1 -> SUBSET (1 .. l)], NEW h \in 0 .. nh - 1
  PROVE  [hd EXCEPT ![h] = @ \cup {l + 1}] \in [0 .. nh - 1 -> SUBSET (1 .. l + 1)]
OBVIOUS

-----------------------------------------------------------------------------
(* Types. *)

USE DEF unsorted, sorted_ij, sorted_ji, upper_ji, type_HM, type_COO, type_CSR, type_CSC

(* A pointer that is not allocated has no entry. *)
LEMMA NoPDomain == DOMAIN NoP = {}
<1>1. Len(<<>>) = 0 /\ <<>> \in Seq(Int)
  BY EmptySeq
<1> QED BY <1>1, LenProperties DEF NoP

(* A new matrix has its type. *)
LEMMA InitType ==
  ASSUME Init
  PROVE  TypeOK
<1> USE ConstantsAssumption
<1>1. ShapeOK /\ OrderOK /\ RedoOK
  BY NoPDomain DEF Init, ShapeOK, OrderOK, RedoOK
<1>2. Larger(n, m) \in Nat \ {0}
  BY <1>1 DEF ShapeOK, Larger
<1>3. PICK asked \in {0, 1} : /\ nnzmax = IncreazeMax(asked, 0, Larger(n, m), 0)
                             /\ nhash = IncreazeHash(Larger(n, m), nnzmax)
  BY DEF Init
<1>4. nnzmax \in Nat \ {0}
  BY <1>2, <1>3, RoomPositive
<1>5. nhash \in Nat \ {0}
  BY <1>2, <1>3, <1>4, HashPositive
<1>6. TermsOK
  BY EmptySeq DEF Init, TermsOK
<1>7. TableOK
  BY <1>4, <1>5, ReHashType DEF Init, TableOK
<1> QED BY <1>1, <1>6, <1>7 DEF TypeOK

(* The terms of a matrix, one by one. *)
LEMMA CoefElim ==
  ASSUME TypeOK
  PROVE  /\ coef \in Seq(Term)
         /\ Len(coef) \in Nat
         /\ DOMAIN coef = 1 .. Len(coef)
         /\ \A k \in DOMAIN coef :
              /\ coef[k] \in Term
              /\ coef[k].i \in fortran .. fortran + n - 1
              /\ coef[k].j \in fortran .. fortran + m - 1
<1>1. coef \in Seq(Term)
  BY DEF TypeOK, TermsOK, Term
<1>2. \A k \in DOMAIN coef : Cell(coef[k]) \in Cells
  BY DEF TypeOK, TermsOK
<1> QED BY <1>1, <1>2, SeqElim DEF Cells, Cell

(* Terms that keep their cells, in a table that is not touched. *)
LEMMA SameCellsType ==
  ASSUME TypeOK, UNCHANGED <<shape, table>>, coef' \in [DOMAIN coef -> Term],
         \A k \in DOMAIN coef : Cell(coef'[k]) = Cell(coef[k])
  PROVE  ShapeOK' /\ TermsOK' /\ TableOK'
<1>1. coef' \in Seq(Term) /\ Len(coef') = Len(coef) /\ DOMAIN coef' = DOMAIN coef
  BY CoefElim, Mapped
<1>2. ShapeOK'
  BY DEF TypeOK, ShapeOK, shape
<1>3. TermsOK'
  BY <1>1 DEF TypeOK, TermsOK, Term, Cells, shape
<1>4. TableOK'
  BY <1>1 DEF TypeOK, TableOK, table
<1> QED BY <1>2, <1>3, <1>4

(* A new value in one term moves no term. *)
LEMMA WriteAtCells ==
  ASSUME TypeOK, NEW k \in DOMAIN coef, NEW v \in Vals, WriteAt(k, v)
  PROVE  /\ coef' \in [DOMAIN coef -> Term]
         /\ \A l \in DOMAIN coef : Cell(coef'[l]) = Cell(coef[l])
         /\ UNCHANGED <<shape, table, order, re_do_symbolic>>
         /\ re_do_numerics' = 1
<1>1. \A l \in DOMAIN coef : coef[l] \in Term
  BY CoefElim
<1>2. coef' = [coef EXCEPT ![k].a = v] /\ DOMAIN coef = 1 .. Len(coef)
  BY CoefElim DEF WriteAt
<1> QED BY <1>1, <1>2 DEF Term, Cell, WriteAt

(* Writing one value keeps the types. *)
LEMMA WriteAtType ==
  ASSUME TypeOK, NEW k \in DOMAIN coef, NEW v \in Vals, WriteAt(k, v)
  PROVE  TypeOK'
<1>1. ShapeOK' /\ TermsOK' /\ TableOK'
  BY WriteAtCells, SameCellsType
<1>2. OrderOK' /\ RedoOK'
  BY WriteAtCells DEF TypeOK, OrderOK, RedoOK, order
<1> QED BY <1>1, <1>2 DEF TypeOK

(* A new term is linked in a bucket of the table there is after growing. *)
LEMMA simpleinsertType ==
  ASSUME TypeOK, NEW ii, NEW jj, <<ii, jj>> \in Cells, NEW v \in Vals,
         simpleinsert(ii, jj, v)
  PROVE  TypeOK'
<1> DEFINE t == [i |-> ii, j |-> jj, a |-> v]
           mnx == Larger(n, m)
           len == IncreazeMax(0, Len(coef), mnx, nnzmax)
           nh == IncreazeHash(mnx, len)
<1> USE ConstantsAssumption
<1>1. ii \in Int /\ jj \in Int /\ n \in Int /\ fortran \in Int
  BY DEF TypeOK, ShapeOK, Cells
<1>2. Len(coef) \in Nat /\ DOMAIN coef = 1 .. Len(coef)
  BY SeqElim DEF TypeOK, TermsOK
<1>3. /\ coef' \in Seq(Term)
      /\ Len(coef') = Len(coef) + 1
      /\ \A k \in 1 .. Len(coef) : coef'[k] = coef[k]
      /\ coef'[Len(coef) + 1] = t
  <2>1. t \in Term
    BY <1>1 DEF Term
  <2> QED BY <2>1, AppendProperties DEF TypeOK, TermsOK, simpleinsert, Term
<1>4. TermsOK'
  <2>1. Cells' = Cells
    BY DEF simpleinsert, shape, Cells
  <2>2. DOMAIN coef' = 1 .. Len(coef) + 1
    BY <1>3, SeqElim
  <2>3. ASSUME NEW k \in DOMAIN coef'
        PROVE  Cell(coef'[k]) \in Cells
    BY <1>2, <1>3, <2>2, SMTT(30) DEF TypeOK, TermsOK, Cell
  <2> QED BY <1>3, <2>1, <2>3 DEF TermsOK, Term
<1>5. TableOK'
  <2>1. CASE Len(coef) = nnzmax
    <3>1. mnx \in Nat \ {0}
      BY DEF TypeOK, ShapeOK, Larger
    <3>2. len \in Nat \ {0}
      BY <1>2, <3>1, RoomPositive DEF TypeOK, TableOK
    <3>3. nh \in Nat \ {0}
      BY <3>1, <3>2, HashPositive
    <3>4. hash(ii, jj, fortran, n, nh) \in 0 .. nh - 1
      BY <1>1, <3>3, HashRange
    <3>5. ReHash(coef, fortran, n, nh) \in [0 .. nh - 1 -> SUBSET (1 .. Len(coef))]
      BY ReHashType
    <3>6. [ReHash(coef, fortran, n, nh) EXCEPT
             ![hash(ii, jj, fortran, n, nh)] = @ \cup {Len(coef) + 1}]
            \in [0 .. nh - 1 -> SUBSET (1 .. Len(coef) + 1)]
      BY <1>2, <3>3, <3>4, <3>5, LinkedType
    <3> QED BY <1>3, <2>1, <3>2, <3>3, <3>6 DEF simpleinsert, TableOK
  <2>2. CASE Len(coef) # nnzmax
    <3>1. hash(ii, jj, fortran, n, nhash) \in 0 .. nhash - 1
      BY <1>1, HashRange DEF TypeOK, TableOK
    <3>2. [head EXCEPT ![hash(ii, jj, fortran, n, nhash)] = @ \cup {Len(coef) + 1}]
            \in [0 .. nhash - 1 -> SUBSET (1 .. Len(coef) + 1)]
      BY <1>2, <3>1, LinkedType DEF TypeOK, TableOK
    <3> QED BY <1>3, <2>2, <3>2 DEF simpleinsert, TypeOK, TableOK
  <2> QED BY <2>1, <2>2
<1> QED BY <1>4, <1>5 DEF TypeOK, ShapeOK, OrderOK, RedoOK, simpleinsert, shape

(* find() returns 0 or a position of the list. *)
LEMMA FindRange ==
  ASSUME TypeOK, NEW ii \in Int, NEW jj \in Int
  PROVE  find(ii, jj) = 0 \/ (find(ii, jj) \in DOMAIN coef /\ find(ii, jj) \in Matches(ii, jj))
<1>0. n \in Int /\ fortran \in Int /\ nhash \in Nat \ {0}
  BY ConstantsAssumption DEF TypeOK, ShapeOK, TableOK
<1>1. hash(ii, jj, fortran, n, nhash) \in 0 .. nhash - 1
  BY <1>0, HashRange
<1>2. Matches(ii, jj) \in SUBSET (1 .. Len(coef))
  BY <1>1 DEF Matches, TypeOK, TableOK
<1>3. Matches(ii, jj) # {} => Greatest(Matches(ii, jj)) \in Matches(ii, jj)
  BY <1>2, CoefElim, GreatestIn
<1> QED BY <1>2, <1>3, CoefElim DEF find

(* Writing or creating the term of a cell keeps the types. *)
LEMMA npijType ==
  ASSUME TypeOK, NEW ii, NEW jj, <<ii, jj>> \in Cells, NEW v \in Vals, npij(ii, jj, v)
  PROVE  TypeOK'
<1>1. ii \in Int /\ jj \in Int
  BY ConstantsAssumption DEF TypeOK, ShapeOK, Cells
<1>2. CASE find(ii, jj) = 0
  BY <1>2, simpleinsertType DEF npij
<1>3. CASE find(ii, jj) # 0
  BY <1>1, <1>3, FindRange, WriteAtType DEF npij
<1> QED BY <1>2, <1>3

(* The calls that read or write one cell. *)
LEMMA AccessType ==
  ASSUME TypeOK, fortran = 0, Access
  PROVE  TypeOK'
<1>1. PICK ii \in 0 .. n - 1, jj \in 0 .. m - 1, v \in Vals :
        npij(ii, jj, v) \/ Accumulate(ii, jj, v) \/ pij(ii, jj, v)
  BY DEF Access
<1>2. <<ii, jj>> \in Cells /\ ii \in Int /\ jj \in Int
  BY DEF TypeOK, ShapeOK, Cells
<1>3. CASE npij(ii, jj, v)
  BY <1>2, <1>3, npijType
<1>4. CASE Accumulate(ii, jj, v)
  BY <1>2, <1>4, npijType DEF Accumulate
<1>5. CASE pij(ii, jj, v)
  <2>1. CASE find(ii, jj) # 0 /\ WriteAt(find(ii, jj), v)
    BY <1>2, <2>1, FindRange, WriteAtType
  <2>2. CASE re_do_numerics' = 1 /\ UNCHANGED <<shape, coef, table, order, re_do_symbolic>>
    BY <2>2 DEF TypeOK, ShapeOK, TermsOK, TableOK, OrderOK, RedoOK, shape, table, order, Cells
  <2> QED BY <1>5, <2>1, <2>2 DEF pij
<1> QED BY <1>1, <1>3, <1>4, <1>5

(* The calls that write every value move no term. *)
LEMMA ValuesCells ==
  ASSUME TypeOK, Values
  PROVE  /\ coef' \in [DOMAIN coef -> Term]
         /\ \A k \in DOMAIN coef : Cell(coef'[k]) = Cell(coef[k])
         /\ UNCHANGED <<shape, table, order, re_do_symbolic>>
         /\ re_do_numerics' \in {1, re_do_numerics}
<1>1. \A k \in DOMAIN coef : coef[k] \in Term
  BY CoefElim
<1> DEFINE Goal == /\ coef' \in [DOMAIN coef -> Term]
                   /\ \A k \in DOMAIN coef : Cell(coef'[k]) = Cell(coef[k])
                   /\ UNCHANGED <<shape, table, order, re_do_symbolic>>
                   /\ re_do_numerics' \in {1, re_do_numerics}
<1>2. ASSUME NEW v \in Vals, Overwrite(v)
      PROVE  Goal
  BY <1>1, <1>2 DEF Overwrite, Term, Cell
<1>3. ASSUME NEW v \in Vals, Scale(v)
      PROVE  Goal
  BY <1>1, <1>3 DEF Scale, Term, Cell
<1>4. ASSUME NEW x \in [DOMAIN coef -> Vals], setcoef(x)
      PROVE  Goal
  BY <1>1, <1>4 DEF setcoef, Term, Cell, redo
<1> QED BY <1>2, <1>3, <1>4 DEF Values

(* Writing every value keeps the types. *)
LEMMA ValuesType ==
  ASSUME TypeOK, Values
  PROVE  TypeOK'
<1>1. ShapeOK' /\ TermsOK' /\ TableOK'
  BY ValuesCells, SameCellsType
<1>2. OrderOK' /\ RedoOK'
  BY ValuesCells DEF TypeOK, OrderOK, RedoOK, order
<1> QED BY <1>1, <1>2 DEF TypeOK

(* A permutation of the terms, and a table rebuilt for them. *)
LEMMA RearrangedTypeOK ==
  ASSUME TypeOK, NEW f \in Permutations1(coef), coef' = Rearranged(coef, f),
         UNCHANGED <<shape, nnzmax, nhash>>, head' = ReHash(coef', fortran, n, nhash)
  PROVE  ShapeOK' /\ TermsOK' /\ TableOK'
<1>1. /\ coef' \in Seq(Term)
      /\ Len(coef') = Len(coef)
      /\ DOMAIN coef' = DOMAIN coef
      /\ \A k \in DOMAIN coef : f[k] \in DOMAIN coef /\ coef'[k] = coef[f[k]]
  BY CoefElim, RearrangedType
<1>2. ShapeOK' /\ Cells' = Cells
  BY DEF TypeOK, ShapeOK, shape, Cells
<1>3. TermsOK'
  BY <1>1, <1>2 DEF TypeOK, TermsOK, Term
<1>4. TableOK'
  BY <1>1, ReHashType DEF TypeOK, TableOK
<1> QED BY <1>2, <1>3, <1>4

(* A pointer array has one entry more than there are rows or columns. *)
LEMMA PointerDomain ==
  ASSUME NEW key, NEW f, NEW nn, NEW nnzz
  PROVE  DOMAIN Pointer(key, f, nn, nnzz) = 0 .. nn
BY DEF Pointer

(* Sorting by rows, or not sorting, keeps the types. *)
LEMMA SortijType ==
  ASSUME TypeOK, UNCHANGED <<shape, nnzmax, nhash>>, Sortij
  PROVE  ShapeOK' /\ TermsOK' /\ TableOK'
<1>1. CASE UNCHANGED <<coef, head>>
  BY <1>1 DEF TypeOK, ShapeOK, TermsOK, TableOK, shape, Cells
<1>2. CASE \E f \in Permutations1(coef) : /\ coef' = Rearranged(coef, f)
                                         /\ head' = ReHash(coef', fortran, n, nhash)
  BY <1>2, RearrangedTypeOK
<1> QED BY <1>1, <1>2 DEF Sortij

(* Sorting by columns, or not sorting, keeps the types. *)
LEMMA SortjiType ==
  ASSUME TypeOK, UNCHANGED <<shape, nnzmax, nhash>>, Sortji
  PROVE  ShapeOK' /\ TermsOK' /\ TableOK'
<1>1. CASE UNCHANGED <<coef, head>>
  BY <1>1 DEF TypeOK, ShapeOK, TermsOK, TableOK, shape, Cells
<1>2. CASE \E f \in Permutations1(coef) : /\ coef' = Rearranged(coef, f)
                                         /\ head' = ReHash(coef', fortran, n, nhash)
  BY <1>2, RearrangedTypeOK
<1> QED BY <1>1, <1>2 DEF Sortji

(* CSC_U applies two permutations, and so one. *)
LEMMA UpperPermutes ==
  ASSUME CSC_U
  PROVE  \E h \in Permutations1(coef) : /\ coef' = Rearranged(coef, h)
                                       /\ head' = ReHash(coef', fortran, n, nhash)
<1>1. PICK f \in Permutations1(coef), g \in Permutations1(coef) :
        /\ coef' = Rearranged(Rearranged(coef, f), g)
        /\ head' = ReHash(coef', fortran, n, nhash)
  <2>1. [k \in DOMAIN coef |-> k] \in Permutations1(coef)
    BY DEF Permutations1, Bijection, Injection, Surjection, IsInjective
  <2> QED BY <2>1 DEF CSC_U
<1> DEFINE h == [k \in DOMAIN coef |-> f[g[k]]]
<1>2. h \in Permutations1(coef)
  BY DEF Permutations1, Bijection, Injection, Surjection, IsInjective
<1>3. coef' = Rearranged(coef, h)
  BY <1>1 DEF Rearranged, Permutations1, Bijection, Injection
<1> QED BY <1>1, <1>2, <1>3

(* The five formats. *)
LEMMA FormatType ==
  ASSUME TypeOK, COO \/ CSR \/ CSC \/ CSC_U \/ HM
  PROVE  TypeOK'
<1>1. CASE COO
  <2>1. ShapeOK' /\ TermsOK' /\ TableOK'
    BY <1>1, SortijType DEF COO
  <2> QED BY <1>1, <2>1, NoPDomain DEF COO, TypeOK, OrderOK, RedoOK, redo
<1>2. CASE CSR
  <2>1. ShapeOK' /\ TermsOK' /\ TableOK'
    BY <1>2, SortijType DEF CSR
  <2>2. OrderOK'
    BY <1>2, PointerDomain DEF CSR, Buildp, TypeOK, ShapeOK, OrderOK
  <2> QED BY <1>2, <2>1, <2>2 DEF CSR, TypeOK, RedoOK, redo
<1>3. CASE CSC
  <2>1. ShapeOK' /\ TermsOK' /\ TableOK'
    BY <1>3, SortjiType DEF CSC
  <2>2. OrderOK'
    BY <1>3, PointerDomain DEF CSC, Buildp, TypeOK, ShapeOK, OrderOK
  <2> QED BY <1>3, <2>1, <2>2 DEF CSC, TypeOK, RedoOK, redo
<1>4. CASE CSC_U
  <2>1. PICK h \in Permutations1(coef) : /\ coef' = Rearranged(coef, h)
                                         /\ head' = ReHash(coef', fortran, n, nhash)
    BY <1>4, UpperPermutes
  <2>4. ShapeOK' /\ TermsOK' /\ TableOK'
    BY <1>4, <2>1, RearrangedTypeOK DEF CSC_U
  <2>5. OrderOK'
    BY <1>4, PointerDomain DEF CSC_U, Buildp, TypeOK, ShapeOK, OrderOK
  <2> QED BY <1>4, <2>4, <2>5 DEF CSC_U, TypeOK, RedoOK, redo
<1>5. CASE HM
  BY <1>5, NoPDomain DEF HM, TypeOK, ShapeOK, TermsOK, TableOK, OrderOK, RedoOK, shape, table, Cells
<1> QED BY <1>1, <1>2, <1>3, <1>4, <1>5

(* The table Increaze() or ReHash() leaves for the new terms. *)
LEMMA NewTableType ==
  ASSUME TypeOK, coef' \in Seq(Term), NEW nn \in Nat \ {0}, NEW mm \in Nat \ {0},
         NEW asked \in Nat,
         Increaze(asked, coef', fortran, nn, mm) \/ ReHashed(coef', fortran, nn)
  PROVE  TableOK'
<1>1. Len(coef') \in Nat
  BY SeqElim
<1>2. nnzmax \in Nat /\ nhash \in Nat \ {0}
  BY DEF TypeOK, TableOK
<1>3. CASE Increaze(asked, coef', fortran, nn, mm)
  BY <1>1, <1>2, <1>3, IncreazeType DEF TableOK
<1>4. CASE ReHashed(coef', fortran, nn)
  BY <1>2, <1>4, ReHashType DEF TypeOK, TableOK, ReHashed
<1> QED BY <1>3, <1>4

(* The terms resize keeps lie inside the new bounds. *)
LEMMA resizeType ==
  ASSUME TypeOK, NEW nn \in 1 .. MaxDim, NEW mm \in 1 .. MaxDim, NEW nnnz \in Nat,
         NEW tol, NEW sym \in {0, 1}, fortran = 0, resize(nn, mm, nnnz, tol, sym)
  PROVE  TypeOK'
<1> DEFINE S == Kept(nn, mm, tol, sym)
           room == Larger(nnnz, Len(coef'))
<1>1. PICK f \in Increasing(S) :
        /\ coef' = Packed(coef, f)
        /\ Increaze(room, coef', fortran, nn, mm) \/ ReHashed(coef', fortran, nn)
  BY DEF resize
<1>2. /\ S \in SUBSET DOMAIN coef
      /\ \A k \in S : coef[k].i < nn /\ coef[k].j < mm
  BY DEF Kept
<1>3. /\ coef' \in Seq(Term)
      /\ DOMAIN coef' = DOMAIN f
      /\ \A k \in DOMAIN f : f[k] \in S /\ coef'[k] = coef[f[k]]
  BY <1>1, <1>2, CoefElim, PackedType
<1>4. nn \in Nat \ {0} /\ mm \in Nat \ {0} /\ n \in Int /\ m \in Int
  BY ConstantsAssumption DEF TypeOK, ShapeOK
<1>5. room \in Nat
  BY <1>3, SeqElim DEF Larger
<1>6. ShapeOK' /\ n' = nn /\ m' = mm /\ fortran' = 0
  BY DEF resize, TypeOK, ShapeOK
<1>7. TermsOK'
  <2>1. ASSUME NEW k \in DOMAIN coef'
        PROVE  Cell(coef'[k]) \in Cells'
    <3>1. f[k] \in DOMAIN coef /\ f[k] \in S /\ coef'[k] = coef[f[k]]
      BY <1>2, <1>3
    <3>2. /\ coef[f[k]].i \in 0 .. n - 1
          /\ coef[f[k]].j \in 0 .. m - 1
      BY <1>4, <3>1, CoefElim
    <3>3. coef[f[k]].i \in 0 .. nn - 1 /\ coef[f[k]].j \in 0 .. mm - 1
      BY <1>2, <1>4, <3>1, <3>2
    <3> QED BY <1>4, <1>6, <3>1, <3>3 DEF Cells, Cell
  <2> QED BY <1>3, <2>1 DEF TermsOK, Term
<1>8. TableOK'
  BY <1>1, <1>3, <1>4, <1>5, NewTableType
<1> QED BY <1>6, <1>7, <1>8 DEF resize, TypeOK, OrderOK, RedoOK, redo

(* The terms of one triangle lie inside the bounds. *)
LEMMA RemoveHalfType ==
  ASSUME TypeOK, NEW cas, NEW tol, RemoveHalf(cas, tol)
  PROVE  TypeOK'
<1> DEFINE S == Triangle(cas, tol)
<1>1. PICK f \in Increasing(S) :
        /\ coef' = Packed(coef, f)
        /\ \/ Increaze(Len(coef'), coef', fortran, n, m)
           \/ ReHashed(coef', fortran, n)
  BY DEF RemoveHalf
<1>2. S \in SUBSET DOMAIN coef
  BY DEF Triangle
<1>3. /\ coef' \in Seq(Term)
      /\ DOMAIN coef' = DOMAIN f
      /\ \A k \in DOMAIN f : f[k] \in S /\ coef'[k] = coef[f[k]]
  BY <1>1, <1>2, CoefElim, PackedType
<1>4. n \in Nat \ {0} /\ m \in Nat \ {0}
  BY ConstantsAssumption DEF TypeOK, ShapeOK
<1>5. Len(coef') \in Nat
  BY <1>3, SeqElim
<1>6. ShapeOK' /\ Cells' = Cells
  BY DEF RemoveHalf, TypeOK, ShapeOK, Cells
<1>7. TermsOK'
  BY <1>2, <1>3, <1>6 DEF TypeOK, TermsOK, Term
<1>8. TableOK'
  BY <1>1, <1>3, <1>4, <1>5, NewTableType
<1> QED BY <1>6, <1>7, <1>8 DEF RemoveHalf, TypeOK, OrderOK, RedoOK, redo

(* Forgetting every term keeps the types. *)
LEMMA clearType ==
  ASSUME TypeOK, clear
  PROVE  TypeOK'
<1>1. coef' = <<>> /\ coef' \in Seq(Term) /\ Len(coef') = 0 /\ DOMAIN coef' = {}
  BY EmptySeq DEF clear
<1>2. TermsOK'
  BY <1>1 DEF TermsOK, Term
<1>3. TableOK'
  <2>1. head' \in [0 .. nhash - 1 -> SUBSET (1 .. 0)]
    <3>1. CASE coef = <<>>
      BY <1>1, <3>1 DEF clear, TypeOK, TableOK
    <3>2. CASE coef # <<>>
      BY <3>2 DEF clear, TypeOK, TableOK
    <3> QED BY <3>1, <3>2
  <2> QED BY <1>1, <2>1 DEF clear, TypeOK, TableOK
<1> QED BY <1>2, <1>3, NoPDomain DEF clear, TypeOK, ShapeOK, OrderOK, RedoOK

(* A copy has the types when the matrix copied fits its bounds. *)
LEMMA setType ==
  ASSUME TypeOK, NEW nn \in 1 .. MaxDim, NEW mm \in 1 .. MaxDim, NEW hhalf \in {0, 1},
         NEW c \in Sources, \A k \in DOMAIN c : c[k].i < nn /\ c[k].j < mm,
         set(nn, mm, hhalf, c)
  PROVE  TypeOK'
<1> DEFINE mnx == Larger(nn, mm)
           len == IncreazeMax(Len(c), 0, mnx, nnzmax)
           nh == IncreazeHash(mnx, len)
<1>1. c \in Seq(Terms) /\ Len(c) \in Nat /\ DOMAIN c = 1 .. Len(c) /\ \A k \in DOMAIN c : c[k] \in Terms
  BY ConstantsAssumption, SeqElim
<1>2. c \in Seq(Term)
  <2>1. c \in [1 .. Len(c) -> Term]
    BY <1>1, LenProperties DEF Terms, Term
  <2> QED BY <1>1, <2>1, SeqIntro
<1>3. nn \in Nat \ {0} /\ mm \in Nat \ {0}
  BY ConstantsAssumption
<1>4. ShapeOK' /\ coef' = c /\ n' = nn /\ m' = mm /\ fortran' = 0
  BY DEF set, ShapeOK
<1>5. TermsOK'
  <2>1. ASSUME NEW k \in DOMAIN c
        PROVE  Cell(c[k]) \in (0 .. nn - 1) \X (0 .. mm - 1)
    BY <1>1, <1>3 DEF Terms, Cell
  <2>2. Cells' = (0 .. nn - 1) \X (0 .. mm - 1)
    BY <1>3, <1>4 DEF Cells
  <2> QED BY <1>2, <1>4, <2>1, <2>2 DEF TermsOK, Term
<1>6. TableOK'
  <2>1. mnx \in Nat \ {0}
    BY <1>3 DEF Larger
  <2>2. len \in Nat \ {0}
    BY <1>1, <2>1, RoomPositive DEF TypeOK, TableOK
  <2>3. nh \in Nat \ {0}
    BY <2>1, <2>2, HashPositive
  <2>4. nnzmax' = len /\ nhash' = nh /\ head' = ReHash(c, 0, nn, nh)
    BY DEF set
  <2> QED BY <1>4, <2>2, <2>3, <2>4, ReHashType DEF TableOK
<1> QED BY <1>4, <1>5, <1>6, NoPDomain DEF set, TypeOK, OrderOK, RedoOK

(* Indices, base and bounds are shifted together. *)
LEMMA setfortranType ==
  ASSUME TypeOK, NEW yes \in {0, 1}, setfortran(yes)
  PROVE  TypeOK'
<1> DEFINE shift == yes - fortran
<1>1. n \in Int /\ m \in Int /\ fortran \in Int /\ shift \in Int
  BY ConstantsAssumption DEF TypeOK, ShapeOK
<1>2. \A k \in DOMAIN coef : coef[k] \in Term
  BY CoefElim
<1>3. coef' = [k \in DOMAIN coef |-> [coef[k] EXCEPT !.i = @ + shift, !.j = @ + shift]]
  BY DEF setfortran
<1>4. coef' \in [DOMAIN coef -> Term]
  <2>1. ASSUME NEW k \in DOMAIN coef
        PROVE  [coef[k] EXCEPT !.i = @ + shift, !.j = @ + shift] \in Term
    <3>1. coef[k].i + shift \in Int /\ coef[k].j + shift \in Int
      BY <1>1, <1>2 DEF Term
    <3> HIDE DEF shift
    <3> QED BY <1>2, <3>1 DEF Term
  <2> QED BY <1>3, <2>1
<1>5. coef' \in Seq(Term) /\ Len(coef') = Len(coef) /\ DOMAIN coef' = DOMAIN coef
  BY <1>4, CoefElim, Mapped
<1>6. ShapeOK' /\ n' = n /\ m' = m /\ fortran' = fortran + shift
  <2>1. n' = n /\ m' = m /\ half' = half /\ fortran' = yes
    BY DEF setfortran
  <2>2. yes = fortran + shift
    BY <1>1
  <2> QED BY <2>1, <2>2 DEF TypeOK, ShapeOK
<1>7. TermsOK'
  <2>1. ASSUME NEW k \in DOMAIN coef
        PROVE  Cell(coef'[k]) \in Cells'
    <3>1. /\ coef[k].i \in fortran .. fortran + n - 1
          /\ coef[k].j \in fortran .. fortran + m - 1
      BY CoefElim
    <3>2. coef'[k].i = coef[k].i + shift /\ coef'[k].j = coef[k].j + shift
      BY <1>2, <1>3 DEF Term
    <3> QED BY <1>1, <1>6, <3>1, <3>2 DEF Cells, Cell
  <2> QED BY <1>5, <2>1 DEF TermsOK, Term
<1>8. TableOK'
  BY <1>5 DEF setfortran, table, TypeOK, TableOK
<1>9. OrderOK'
  <2>1. DOMAIN p' = DOMAIN p
    BY DEF setfortran
  <2> QED BY <2>1 DEF setfortran, TypeOK, OrderOK
<1> QED BY <1>6, <1>7, <1>8, <1>9 DEF setfortran, redo, TypeOK, RedoOK

(* Indices and bounds change places together. *)
LEMMA dotransposeType ==
  ASSUME TypeOK, dotranspose
  PROVE  TypeOK'
<1>1. n \in Nat \ {0} /\ m \in Nat \ {0} /\ fortran \in Int
  BY ConstantsAssumption DEF TypeOK, ShapeOK
<1>2. \A k \in DOMAIN coef : coef[k] \in Term
  BY CoefElim
<1>3. coef' = [k \in DOMAIN coef |-> [coef[k] EXCEPT !.i = coef[k].j, !.j = coef[k].i]]
  BY DEF dotranspose
<1>4. coef' \in [DOMAIN coef -> Term]
  BY <1>2, <1>3 DEF Term
<1>5. coef' \in Seq(Term) /\ Len(coef') = Len(coef) /\ DOMAIN coef' = DOMAIN coef
  BY <1>4, CoefElim, Mapped
<1>6. ShapeOK' /\ n' = m /\ m' = n /\ fortran' = fortran
  BY DEF dotranspose, TypeOK, ShapeOK
<1>7. TermsOK'
  <2>1. ASSUME NEW k \in DOMAIN coef
        PROVE  Cell(coef'[k]) \in Cells'
    <3>1. /\ coef[k].i \in fortran .. fortran + n - 1
          /\ coef[k].j \in fortran .. fortran + m - 1
      BY CoefElim
    <3>2. coef'[k].i = coef[k].j /\ coef'[k].j = coef[k].i
      BY <1>2, <1>3 DEF Term
    <3> QED BY <1>1, <1>6, <3>1, <3>2 DEF Cells, Cell
  <2> QED BY <1>5, <2>1 DEF TermsOK, Term
<1>8. TableOK'
  <2>1. ReHashed(coef', fortran, m) /\ 0 \in Nat
    BY DEF dotranspose
  <2> QED BY <1>1, <1>5, <2>1, NewTableType
<1> QED BY <1>6, <1>7, <1>8 DEF dotranspose, redo, TypeOK, OrderOK, RedoOK

(* A call of Reshape, made while the indices start at 0. *)
LEMMA ReshapeType ==
  ASSUME TypeOK, fortran = 0, Reshape
  PROVE  TypeOK'
<1>1. Len(coef) \in Nat
  BY CoefElim
<1>2. CASE \E nn, mm \in 1 .. MaxDim, nnnz \in {0, Len(coef)}, tol \in {-1, 0}, sym \in {0, 1} :
             resize(nn, mm, nnnz, tol, sym)
  BY <1>1, <1>2, resizeType
<1>3. CASE \E cas \in {-1, 0, 1}, tol \in {-1, 0} : RemoveHalf(cas, tol)
  BY <1>3, RemoveHalfType
<1>4. CASE \E nn, mm \in 1 .. MaxDim, hhalf \in {0, 1}, c \in Sources :
             /\ \A k \in DOMAIN c : c[k].i < nn /\ c[k].j < mm
             /\ set(nn, mm, hhalf, c)
  BY <1>4, setType
<1> QED BY <1>2, <1>3, <1>4, clearType, dotransposeType DEF Reshape

(* A step that changes nothing keeps the types. *)
LEMMA StutterType ==
  ASSUME TypeOK, UNCHANGED vars
  PROVE  TypeOK'
BY DEF TypeOK, ShapeOK, TermsOK, TableOK, OrderOK, RedoOK, Cells, vars, shape, table, order, redo

(* Every call keeps the types. *)
LEMMA NextType ==
  ASSUME TypeOK, [Next]_vars
  PROVE  TypeOK'
<1>1. CASE \E yes \in {0, 1} : setfortran(yes)
  BY <1>1, setfortranType
<1>2. CASE GetReDo
  BY <1>2 DEF GetReDo, TypeOK, ShapeOK, TermsOK, TableOK, OrderOK, RedoOK, Cells,
               shape, table, order
<1> QED BY <1>1, <1>2, AccessType, ValuesType, ReshapeType, FormatType, StutterType DEF Next

(* Whatever the calls, the flags and the lengths are in range, the indices *)
(* of every term lie in the matrix and the links are positions of the list *)
THEOREM TypeCorrect == Spec => []TypeOK
<1>1. Init => TypeOK
  BY InitType
<1>2. TypeOK /\ [Next]_vars => TypeOK'
  BY NextType
<1> QED BY <1>1, <1>2, PTL DEF Spec

-----------------------------------------------------------------------------
(* The table and the terms. *)

(* The terms c hash to the same buckets as the terms of d. *)
LEMMA SameReHash ==
  ASSUME NEW c \in Seq(Term), NEW d \in Seq(Term), Len(d) = Len(c), NEW f, NEW g, NEW nn, NEW nh,
         \A k \in DOMAIN c : hash(d[k].i, d[k].j, g, nn, nh) = hash(c[k].i, c[k].j, f, nn, nh)
  PROVE  ReHash(d, g, nn, nh) = ReHash(c, f, nn, nh)
<1>1. DOMAIN c = 1 .. Len(c)
  BY SeqElim
<1>2. ASSUME NEW h \in 0 .. nh - 1
      PROVE  {k \in 1 .. Len(d) : hash(d[k].i, d[k].j, g, nn, nh) = h}
               = {k \in 1 .. Len(c) : hash(c[k].i, c[k].j, f, nn, nh) = h}
  BY <1>1
<1> QED BY <1>2 DEF ReHash

(* No term at all: every bucket is empty. *)
LEMMA EmptyReHash ==
  ASSUME NEW f, NEW nn, NEW nh
  PROVE  ReHash(<<>>, f, nn, nh) = [h \in 0 .. nh - 1 |-> {}]
<1>1. Len(<<>>) = 0
  BY EmptySeq
<1>2. 1 .. Len(<<>>) = {}
  BY <1>1
<1> QED BY <1>2 DEF ReHash

(* The buckets of c with one more term in bucket b. *)
Linked(c, f, nn, nh, b) == [ReHash(c, f, nn, nh) EXCEPT ![b] = @ \cup {Len(c) + 1}]

(* Linking a new last term is all a fresh ReHash would change. *)
LEMMA LinkedReHash ==
  ASSUME NEW c \in Seq(Term), NEW d \in Seq(Term), Len(d) = Len(c) + 1,
         \A k \in 1 .. Len(c) : d[k] = c[k],
         NEW f, NEW nn, NEW nh \in Nat \ {0},
         NEW b \in 0 .. nh - 1, b = hash(d[Len(c) + 1].i, d[Len(c) + 1].j, f, nn, nh)
  PROVE  Linked(c, f, nn, nh, b) = ReHash(d, f, nn, nh)
<1> DEFINE B(h) == {k \in 1 .. Len(c) : hash(c[k].i, c[k].j, f, nn, nh) = h}
           D(h) == {k \in 1 .. Len(d) : hash(d[k].i, d[k].j, f, nn, nh) = h}
           E == [ReHash(c, f, nn, nh) EXCEPT ![b] = @ \cup {Len(c) + 1}]
<1>1. Len(c) \in Nat
  BY SeqElim
<1>2. 1 .. Len(d) = (1 .. Len(c)) \cup {Len(c) + 1}
  BY <1>1
<1>3. \A h \in 0 .. nh - 1 : ReHash(c, f, nn, nh)[h] = B(h)
  BY DEF ReHash
<1>4. DOMAIN ReHash(c, f, nn, nh) = 0 .. nh - 1
  BY DEF ReHash
<1>5. D(b) = B(b) \cup {Len(c) + 1}
  BY <1>2
<1>6. \A h \in 0 .. nh - 1 : h # b => D(h) = B(h)
  BY <1>2
<1> HIDE DEF B, D
<1>7. E = [h \in 0 .. nh - 1 |-> D(h)]
  BY <1>3, <1>4, <1>5, <1>6
<1> QED BY <1>7 DEF ReHash, D, Linked

(* The new term is linked in the bucket its cell has after growing. *)
LEMMA simpleinsertHash ==
  ASSUME TypeOK, HashInv, NEW ii, NEW jj, <<ii, jj>> \in Cells, NEW v \in Vals,
         simpleinsert(ii, jj, v)
  PROVE  HashInv'
<1> DEFINE t == [i |-> ii, j |-> jj, a |-> v]
           mnx == Larger(n, m)
           len == IncreazeMax(0, Len(coef), mnx, nnzmax)
           nh == IncreazeHash(mnx, len)
<1>1. ii \in Int /\ jj \in Int /\ n \in Int /\ fortran \in Int
  BY DEF TypeOK, ShapeOK, Cells
<1>2. coef \in Seq(Term) /\ Len(coef) \in Nat
  BY CoefElim
<1>3. /\ coef' \in Seq(Term)
      /\ Len(coef') = Len(coef) + 1
      /\ \A k \in 1 .. Len(coef) : coef'[k] = coef[k]
      /\ coef'[Len(coef) + 1] = t
  <2>1. t \in Term
    BY <1>1 DEF Term
  <2> QED BY <2>1, AppendProperties DEF TypeOK, TermsOK, simpleinsert, Term
<1>4. coef'[Len(coef) + 1].i = ii /\ coef'[Len(coef) + 1].j = jj
  BY <1>3
<1>5. n' = n /\ fortran' = fortran
  BY DEF simpleinsert, shape
<1>6. CASE Len(coef) = nnzmax
  <2>1. mnx \in Nat \ {0}
    BY DEF TypeOK, ShapeOK, Larger
  <2>2. len \in Nat \ {0}
    BY <1>2, <2>1, RoomPositive DEF TypeOK, TableOK
  <2>3. nh \in Nat \ {0}
    BY <2>1, <2>2, HashPositive
  <2>4. hash(ii, jj, fortran, n, nh) \in 0 .. nh - 1
    BY <1>1, <2>3, HashRange
  <2>5. nhash' = nh /\ head' = Linked(coef, fortran, n, nh, hash(ii, jj, fortran, n, nh))
    BY <1>6 DEF simpleinsert, Linked
  <2> HIDE DEF nh
  <2>6. head' = ReHash(coef', fortran, n, nh)
    BY <1>2, <1>3, <1>4, <2>3, <2>4, <2>5, LinkedReHash
  <2> QED BY <1>5, <2>5, <2>6 DEF HashInv
<1>7. CASE Len(coef) # nnzmax
  <2>1. nhash \in Nat \ {0}
    BY DEF TypeOK, TableOK
  <2>2. hash(ii, jj, fortran, n, nhash) \in 0 .. nhash - 1
    BY <1>1, <2>1, HashRange
  <2>3. nhash' = nhash /\ head' = Linked(coef, fortran, n, nhash, hash(ii, jj, fortran, n, nhash))
    BY <1>7 DEF simpleinsert, HashInv, Linked
  <2>4. head' = ReHash(coef', fortran, n, nhash)
    BY <1>2, <1>3, <1>4, <2>1, <2>2, <2>3, LinkedReHash
  <2> QED BY <1>5, <2>3, <2>4 DEF HashInv
<1> QED BY <1>6, <1>7

(* What find() does not see is not stored. *)
LEMMA NotFound ==
  ASSUME TypeOK, HashInv, NEW ii \in Int, NEW jj \in Int, find(ii, jj) = 0
  PROVE  \A k \in DOMAIN coef : Cell(coef[k]) # <<ii, jj>>
<1>1. n \in Int /\ fortran \in Int /\ nhash \in Nat \ {0}
  BY ConstantsAssumption DEF TypeOK, ShapeOK, TableOK
<1>2. hash(ii, jj, fortran, n, nhash) \in 0 .. nhash - 1
  BY <1>1, HashRange
<1>3. Matches(ii, jj) = {}
  <2>1. Matches(ii, jj) \in SUBSET (1 .. Len(coef))
    BY <1>2 DEF Matches, TypeOK, TableOK
  <2>2. Matches(ii, jj) # {} => Greatest(Matches(ii, jj)) \in 1 .. Len(coef)
    BY <2>1, CoefElim, GreatestIn
  <2>3. 0 \notin 1 .. Len(coef)
    BY CoefElim
  <2> QED BY <2>2, <2>3 DEF find
<1>4. head[hash(ii, jj, fortran, n, nhash)]
        = {k \in 1 .. Len(coef) : hash(coef[k].i, coef[k].j, fortran, n, nhash)
                                    = hash(ii, jj, fortran, n, nhash)}
  BY <1>2 DEF HashInv, ReHash
<1>5. ASSUME NEW k \in DOMAIN coef, Cell(coef[k]) = <<ii, jj>>
      PROVE  FALSE
  <2>1. coef[k].i = ii /\ coef[k].j = jj /\ k \in 1 .. Len(coef)
    BY <1>5, CoefElim DEF Cell
  <2>2. k \in Matches(ii, jj)
    BY <1>4, <1>5, <2>1 DEF Matches
  <2> QED BY <1>3, <2>2
<1> QED BY <1>5

(* Terms that keep their cells keep the table and stay distinct. *)
LEMMA SameCells ==
  ASSUME TypeOK, HashInv, NoDuplicate, UNCHANGED <<shape, table>>,
         coef' \in [DOMAIN coef -> Term],
         \A k \in DOMAIN coef : Cell(coef'[k]) = Cell(coef[k])
  PROVE  HashInv' /\ NoDuplicate'
<1>1. /\ coef' \in Seq(Term) /\ Len(coef') = Len(coef) /\ DOMAIN coef' = DOMAIN coef
      /\ coef \in Seq(Term)
  BY CoefElim, Mapped
<1>2. NoDuplicate'
  BY <1>1 DEF NoDuplicate, Distinct
<1>3. \A k \in DOMAIN coef : coef'[k].i = coef[k].i /\ coef'[k].j = coef[k].j
  BY DEF Cell
<1>4. ReHash(coef', fortran, n, nhash) = ReHash(coef, fortran, n, nhash)
  BY <1>1, <1>3, SameReHash
<1> QED BY <1>2, <1>4 DEF HashInv, shape, table

(* The calls that read or write one cell: npij adds a term only where the  *)
(* table shows none.                                                       *)
LEMMA npijTable ==
  ASSUME TypeOK, HashInv, NoDuplicate, NEW ii, NEW jj, <<ii, jj>> \in Cells, NEW v \in Vals,
         npij(ii, jj, v)
  PROVE  HashInv' /\ NoDuplicate'
<1>1. ii \in Int /\ jj \in Int
  BY ConstantsAssumption DEF TypeOK, ShapeOK, Cells
<1>2. CASE find(ii, jj) = 0
  <2>1. simpleinsert(ii, jj, v)
    BY <1>2 DEF npij
  <2>2. HashInv'
    BY <2>1, simpleinsertHash
  <2>3. \A k \in DOMAIN coef : Cell(coef[k]) # <<ii, jj>>
    BY <1>1, <1>2, NotFound
  <2>4. /\ Len(coef') = Len(coef) + 1
        /\ coef' \in Seq(Term)
        /\ \A k \in 1 .. Len(coef) : coef'[k] = coef[k]
        /\ Cell(coef'[Len(coef) + 1]) = <<ii, jj>>
    <3>1. [i |-> ii, j |-> jj, a |-> v] \in Term
      BY <1>1 DEF Term
    <3> QED BY <2>1, <3>1, CoefElim, AppendProperties DEF simpleinsert, Cell
  <2>5. Len(coef) \in Nat /\ DOMAIN coef = 1 .. Len(coef) /\ DOMAIN coef' = 1 .. Len(coef) + 1
    BY <2>4, CoefElim, SeqElim
  <2>6. ASSUME NEW k \in DOMAIN coef', NEW l \in DOMAIN coef', k # l
        PROVE  Cell(coef'[k]) # Cell(coef'[l])
    <3>1. CASE k \in DOMAIN coef /\ l \in DOMAIN coef
      BY <2>4, <2>5, <2>6, <3>1 DEF NoDuplicate, Distinct
    <3>2. CASE k \in DOMAIN coef /\ l = Len(coef) + 1
      BY <2>3, <2>4, <2>5, <3>2
    <3>3. CASE k = Len(coef) + 1 /\ l \in DOMAIN coef
      BY <2>3, <2>4, <2>5, <3>3
    <3> QED BY <2>5, <2>6, <3>1, <3>2, <3>3
  <2> QED BY <2>2, <2>6 DEF NoDuplicate, Distinct
<1>3. CASE find(ii, jj) # 0
  <2>1. find(ii, jj) \in DOMAIN coef /\ WriteAt(find(ii, jj), v)
    BY <1>1, <1>3, FindRange DEF npij
  <2> QED BY <2>1, WriteAtCells, SameCells
<1> QED BY <1>2, <1>3

(* No access to a cell breaks the table or stores a cell twice. *)
LEMMA AccessTable ==
  ASSUME TypeOK, HashInv, NoDuplicate, fortran = 0, Access
  PROVE  HashInv' /\ NoDuplicate'
<1>1. PICK ii \in 0 .. n - 1, jj \in 0 .. m - 1, v \in Vals :
        npij(ii, jj, v) \/ Accumulate(ii, jj, v) \/ pij(ii, jj, v)
  BY DEF Access
<1>2. <<ii, jj>> \in Cells /\ ii \in Int /\ jj \in Int
  BY DEF TypeOK, ShapeOK, Cells
<1>3. CASE npij(ii, jj, v)
  BY <1>2, <1>3, npijTable
<1>4. CASE Accumulate(ii, jj, v)
  BY <1>2, <1>4, npijTable DEF Accumulate
<1>5. CASE pij(ii, jj, v)
  <2>1. CASE find(ii, jj) # 0 /\ WriteAt(find(ii, jj), v)
    BY <1>2, <2>1, FindRange, WriteAtCells, SameCells
  <2>2. CASE UNCHANGED <<shape, coef, table, order, re_do_symbolic>>
    BY <2>2 DEF HashInv, NoDuplicate, shape, table
  <2> QED BY <1>5, <2>1, <2>2 DEF pij
<1> QED BY <1>1, <1>3, <1>4, <1>5

(* A permutation keeps the terms distinct. *)
LEMMA RearrangedTable ==
  ASSUME TypeOK, NoDuplicate, NEW f \in Permutations1(coef), coef' = Rearranged(coef, f),
         n' = n, fortran' = fortran, nhash' = nhash, head' = ReHash(coef', fortran, n, nhash)
  PROVE  HashInv' /\ NoDuplicate'
<1>0. coef \in Seq(Term)
  BY CoefElim
<1>1. /\ DOMAIN coef' = DOMAIN coef
      /\ \A k \in DOMAIN coef : f[k] \in DOMAIN coef /\ coef'[k] = coef[f[k]]
  BY <1>0, RearrangedType
<1>2. \A k, l \in DOMAIN coef : k # l => f[k] # f[l]
  BY DEF Permutations1, Bijection, Injection, IsInjective
<1>3. NoDuplicate'
  BY <1>1, <1>2 DEF NoDuplicate, Distinct
<1> QED BY <1>3 DEF HashInv

(* The formats. *)
LEMMA FormatTable ==
  ASSUME TypeOK, HashInv, NoDuplicate, COO \/ CSR \/ CSC \/ CSC_U \/ HM
  PROVE  HashInv' /\ NoDuplicate'
<1>1. CASE UNCHANGED <<coef, head>> /\ UNCHANGED <<shape, nnzmax, nhash>>
  BY <1>1 DEF HashInv, NoDuplicate, shape
<1>2. CASE \E f \in Permutations1(coef) : /\ coef' = Rearranged(coef, f)
                                         /\ head' = ReHash(coef', fortran, n, nhash)
                                         /\ UNCHANGED <<shape, nnzmax, nhash>>
  BY <1>2, RearrangedTable DEF shape
<1>3. CASE COO \/ CSR
  <2>1. Sortij /\ UNCHANGED <<shape, nnzmax, nhash>>
    BY <1>3 DEF COO, CSR
  <2> QED BY <1>1, <1>2, <2>1 DEF Sortij
<1>4. CASE CSC
  <2>1. Sortji /\ UNCHANGED <<shape, nnzmax, nhash>>
    BY <1>4 DEF CSC
  <2> QED BY <1>1, <1>2, <2>1 DEF Sortji
<1>5. CASE CSC_U
  <2>1. PICK f \in Permutations1(coef) : /\ coef' = Rearranged(coef, f)
                                         /\ head' = ReHash(coef', fortran, n, nhash)
    BY <1>5, UpperPermutes
  <2> QED BY <1>2, <1>5, <2>1 DEF CSC_U
<1>6. CASE HM
  BY <1>6 DEF HM, table, HashInv, NoDuplicate, shape
<1> QED BY <1>3, <1>4, <1>5, <1>6

(* The terms that resize and RemoveHalf keep stay distinct. *)
LEMMA PackedDistinct ==
  ASSUME TypeOK, NoDuplicate, NEW S \in SUBSET DOMAIN coef, NEW f \in Increasing(S),
         coef' = Packed(coef, f)
  PROVE  coef' \in Seq(Term) /\ NoDuplicate'
<1>1. coef \in Seq(Term)
  BY CoefElim
<1>2. /\ coef' \in Seq(Term)
      /\ DOMAIN coef' = DOMAIN f
      /\ \A k \in DOMAIN f : f[k] \in S /\ coef'[k] = coef[f[k]]
      /\ \A k, l \in DOMAIN f : k # l => f[k] # f[l]
  BY <1>1, PackedType
<1> QED BY <1>2 DEF NoDuplicate, Distinct

(* Increaze() and ReHash() leave the table as it must be. *)
LEMMA NewTable ==
  ASSUME TypeOK, coef' \in Seq(Term), NEW nn \in Nat \ {0}, NEW mm \in Nat \ {0},
         NEW asked \in Nat, n' = nn, fortran' = fortran,
         Increaze(asked, coef', fortran, nn, mm) \/ ReHashed(coef', fortran, nn)
  PROVE  HashInv'
<1>1. Len(coef') \in Nat /\ nnzmax \in Nat
  BY SeqElim DEF TypeOK, TableOK
<1>2. CASE Increaze(asked, coef', fortran, nn, mm)
  BY <1>1, <1>2, IncreazeType DEF HashInv
<1>3. CASE ReHashed(coef', fortran, nn)
  BY <1>3 DEF ReHashed, HashInv
<1> QED BY <1>2, <1>3

(* resize rebuilds the table for the new number of rows. *)
LEMMA resizeTable ==
  ASSUME TypeOK, NoDuplicate, NEW nn \in 1 .. MaxDim, NEW mm \in 1 .. MaxDim,
         NEW nnnz \in Nat, NEW tol, NEW sym, resize(nn, mm, nnnz, tol, sym)
  PROVE  HashInv' /\ NoDuplicate'
<1> DEFINE S == Kept(nn, mm, tol, sym)
           room == Larger(nnnz, Len(coef'))
<1>1. PICK f \in Increasing(S) :
        /\ coef' = Packed(coef, f)
        /\ Increaze(room, coef', fortran, nn, mm) \/ ReHashed(coef', fortran, nn)
  BY DEF resize
<1>2. S \in SUBSET DOMAIN coef
  BY DEF Kept
<1>3. coef' \in Seq(Term) /\ NoDuplicate'
  BY <1>1, <1>2, PackedDistinct
<1>4. room \in Nat
  BY <1>3, SeqElim DEF Larger
<1>5. nn \in Nat \ {0} /\ mm \in Nat \ {0} /\ n' = nn /\ fortran' = fortran
  BY ConstantsAssumption DEF resize
<1> QED BY <1>1, <1>3, <1>4, <1>5, NewTable

(* RemoveHalf rebuilds the table. *)
LEMMA RemoveHalfTable ==
  ASSUME TypeOK, NoDuplicate, NEW cas, NEW tol, RemoveHalf(cas, tol)
  PROVE  HashInv' /\ NoDuplicate'
<1> DEFINE S == Triangle(cas, tol)
<1>1. PICK f \in Increasing(S) :
        /\ coef' = Packed(coef, f)
        /\ \/ Increaze(Len(coef'), coef', fortran, n, m)
           \/ ReHashed(coef', fortran, n)
  BY DEF RemoveHalf
<1>2. S \in SUBSET DOMAIN coef
  BY DEF Triangle
<1>3. coef' \in Seq(Term) /\ NoDuplicate'
  BY <1>1, <1>2, PackedDistinct
<1>4. Len(coef') \in Nat
  BY <1>3, SeqElim
<1>5. n \in Nat \ {0} /\ m \in Nat \ {0} /\ n' = n /\ fortran' = fortran
  BY ConstantsAssumption DEF TypeOK, ShapeOK, RemoveHalf
<1> QED BY <1>1, <1>3, <1>4, <1>5, NewTable

(* clear leaves every bucket empty. *)
LEMMA clearTable ==
  ASSUME TypeOK, HashInv, clear
  PROVE  HashInv' /\ NoDuplicate'
<1>1. coef' = <<>> /\ DOMAIN coef' = {} /\ nhash' = nhash
  BY NoPDomain DEF clear, NoP
<1>2. head' = [h \in 0 .. nhash - 1 |-> {}]
  <2>1. CASE coef = <<>>
    BY <2>1, EmptyReHash DEF clear, HashInv
  <2>2. CASE coef # <<>>
    BY <2>2 DEF clear, TypeOK, TableOK
  <2> QED BY <2>1, <2>2
<1>3. HashInv'
  BY <1>1, <1>2, EmptyReHash DEF HashInv
<1> QED BY <1>1, <1>3 DEF NoDuplicate, Distinct

(* A copy has a table of its own terms, which are distinct. *)
LEMMA setTable ==
  ASSUME NEW nn, NEW mm, NEW hhalf, NEW c \in Sources, set(nn, mm, hhalf, c)
  PROVE  HashInv' /\ NoDuplicate'
<1>1. HashInv'
  BY DEF set, HashInv
<1>2. Distinct(c)
  BY ConstantsAssumption
<1> QED BY <1>1, <1>2 DEF set, NoDuplicate

(* Shifting every index and the base by as much changes no bucket. *)
LEMMA setfortranTable ==
  ASSUME TypeOK, HashInv, NoDuplicate, NEW yes \in {0, 1}, setfortran(yes)
  PROVE  HashInv' /\ NoDuplicate'
<1> DEFINE shift == yes - fortran
<1>1. n \in Int /\ fortran \in Int /\ shift \in Int /\ fortran' = fortran + shift
  <2>1. n \in Int /\ fortran \in Int /\ yes \in Int
    BY ConstantsAssumption DEF TypeOK, ShapeOK
  <2>2. fortran' = yes
    BY DEF setfortran
  <2> QED BY <2>1, <2>2
<1>2. coef \in Seq(Term) /\ \A k \in DOMAIN coef : coef[k] \in Term
  BY CoefElim
<1>3. coef' \in Seq(Term)
  <2>1. TypeOK'
    BY setfortranType
  <2> QED BY <2>1 DEF TypeOK, TermsOK, Term
<1>4. coef' = [k \in DOMAIN coef |-> [coef[k] EXCEPT !.i = @ + shift, !.j = @ + shift]]
  BY DEF setfortran
<1> HIDE DEF shift
<1>5. DOMAIN coef' = DOMAIN coef /\ Len(coef') = Len(coef)
  <2>1. DOMAIN coef' = DOMAIN coef
    BY <1>4
  <2>2. DOMAIN coef = 1 .. Len(coef) /\ Len(coef) \in Nat
    BY CoefElim
  <2>3. DOMAIN coef' = 1 .. Len(coef') /\ Len(coef') \in Nat
    BY <1>3, SeqElim
  <2> QED BY <2>1, <2>2, <2>3
<1>6. \A k \in DOMAIN coef : /\ coef[k].i \in Int /\ coef[k].j \in Int
                             /\ coef'[k].i = coef[k].i + shift
                             /\ coef'[k].j = coef[k].j + shift
  BY <1>1, <1>2, <1>4 DEF Term
<1>7. NoDuplicate'
  <2> SUFFICES ASSUME NEW k \in DOMAIN coef, NEW l \in DOMAIN coef, k # l
               PROVE  Cell(coef'[k]) # Cell(coef'[l])
    BY <1>5 DEF NoDuplicate, Distinct
  <2>1. coef[k].i # coef[l].i \/ coef[k].j # coef[l].j
    BY DEF NoDuplicate, Distinct, Cell
  <2>2. coef'[k].i # coef'[l].i \/ coef'[k].j # coef'[l].j
    <3>1. \A x, y \in Int : x # y => x + shift # y + shift
      BY <1>1
    <3>2. coef[k].i # coef[l].i => coef'[k].i # coef'[l].i
      BY <1>6, <3>1
    <3>3. coef[k].j # coef[l].j => coef'[k].j # coef'[l].j
      BY <1>6, <3>1
    <3> QED BY <2>1, <3>2, <3>3
  <2> QED BY <2>2 DEF Cell
<1>8. ASSUME NEW k \in DOMAIN coef
      PROVE  hash(coef'[k].i, coef'[k].j, fortran', n, nhash)
               = hash(coef[k].i, coef[k].j, fortran, n, nhash)
  <2>1. coef'[k].i - fortran' = coef[k].i - fortran /\ coef'[k].j - fortran' = coef[k].j - fortran
    BY <1>1, <1>6
  <2> QED BY <2>1 DEF hash
<1>9. ReHash(coef', fortran', n, nhash) = ReHash(coef, fortran, n, nhash)
  BY <1>2, <1>3, <1>5, <1>8, SameReHash
<1>10. n' = n /\ nhash' = nhash /\ head' = head
  BY DEF setfortran, table
<1> QED BY <1>7, <1>9, <1>10 DEF HashInv

(* dotranspose rebuilds the table for the new number of rows. *)
LEMMA dotransposeTable ==
  ASSUME TypeOK, NoDuplicate, dotranspose
  PROVE  HashInv' /\ NoDuplicate'
<1>1. coef' = [k \in DOMAIN coef |-> [coef[k] EXCEPT !.i = coef[k].j, !.j = coef[k].i]]
  BY DEF dotranspose
<1>2. \A k \in DOMAIN coef : coef'[k].i = coef[k].j /\ coef'[k].j = coef[k].i
  BY <1>1, CoefElim DEF Term
<1>3. NoDuplicate'
  <2> SUFFICES ASSUME NEW k \in DOMAIN coef, NEW l \in DOMAIN coef, k # l
               PROVE  Cell(coef'[k]) # Cell(coef'[l])
    BY <1>1 DEF NoDuplicate, Distinct
  <2>1. coef[k].i # coef[l].i \/ coef[k].j # coef[l].j
    BY DEF NoDuplicate, Distinct, Cell
  <2> QED BY <1>2, <2>1 DEF Cell
<1>4. HashInv'
  BY DEF dotranspose, ReHashed, HashInv
<1> QED BY <1>3, <1>4

(* No call breaks the table or stores a cell twice. *)
LEMMA NextTable ==
  ASSUME TypeOK, HashInv, NoDuplicate, [Next]_vars
  PROVE  HashInv' /\ NoDuplicate'
<1>1. CASE fortran = 0 /\ Access
  BY <1>1, AccessTable
<1>2. CASE Values
  BY <1>2, ValuesCells, SameCells
<1>3. CASE Reshape
  <2>1. Len(coef) \in Nat
    BY CoefElim
  <2>2. CASE \E nn, mm \in 1 .. MaxDim, nnnz \in {0, Len(coef)}, tol \in {-1, 0}, sym \in {0, 1} :
               resize(nn, mm, nnnz, tol, sym)
    BY <2>1, <2>2, resizeTable
  <2>3. CASE \E cas \in {-1, 0, 1}, tol \in {-1, 0} : RemoveHalf(cas, tol)
    BY <2>3, RemoveHalfTable
  <2>4. CASE \E nn, mm \in 1 .. MaxDim, hhalf \in {0, 1}, c \in Sources : set(nn, mm, hhalf, c)
    BY <2>4, setTable
  <2> QED BY <1>3, <2>2, <2>3, <2>4, clearTable, dotransposeTable DEF Reshape
<1>4. CASE COO \/ CSR \/ CSC \/ CSC_U \/ HM
  BY <1>4, FormatTable
<1>5. CASE \E yes \in {0, 1} : setfortran(yes)
  BY <1>5, setfortranTable
<1>6. CASE GetReDo
  BY <1>6 DEF GetReDo, HashInv, NoDuplicate, shape, table
<1>7. CASE UNCHANGED vars
  BY <1>7 DEF vars, HashInv, NoDuplicate, shape, table
<1> QED BY <1>1, <1>2, <1>3, <1>4, <1>5, <1>6, <1>7 DEF Next

(* A new matrix has an empty table. *)
LEMMA InitTable ==
  ASSUME Init
  PROVE  TableInv
<1>1. coef = <<>> /\ DOMAIN coef = {}
  BY NoPDomain DEF Init, NoP
<1>2. HashInv /\ NoDuplicate
  BY <1>1 DEF Init, HashInv, NoDuplicate, Distinct
<1> QED BY <1>2, InitType DEF TableInv

(* TableInv is kept by every call: a term is added only when the table     *)
(* shows none in its cell, and the table shows all of them.                *)
THEOREM TableCorrect == Spec => []TableInv
<1>1. Init => TableInv
  BY InitTable
<1>2. TableInv /\ [Next]_vars => TableInv'
  BY NextType, NextTable DEF TableInv
<1> QED BY <1>1, <1>2, PTL DEF Spec

(* The hash table always is what a fresh ReHash of the terms would be.     *)
THEOREM HashCorrect == Spec => []HashInv
<1>1. TableInv => HashInv
  BY DEF TableInv
<1> QED BY <1>1, TableCorrect, PTL

(* No sequence of calls stores a cell twice.                               *)
THEOREM NoDuplicateCorrect == Spec => []NoDuplicate
<1>1. TableInv => NoDuplicate
  BY DEF TableInv
<1> QED BY <1>1, TableCorrect, PTL

-----------------------------------------------------------------------------
(* Room. *)

(* What Increaze() allocates holds the terms it is given, and what is      *)
(* asked for when something is.                                            *)
LEMMA IncreazeRoom ==
  ASSUME NEW asked \in Nat, NEW c, Len(c) \in Nat, NEW f, NEW nn \in Nat \ {0},
         NEW mm \in Nat \ {0}, nnzmax \in Nat, Increaze(asked, c, f, nn, mm),
         asked = 0 \/ Len(c) <= asked
  PROVE  Len(c) <= nnzmax'
<1> DEFINE mnx == Larger(nn, mm)
           x == Larger(2 * mnx, Len(c))
           y == (nnzmax * 6) \div 5
<1>1. mnx \in Nat \ {0}
  BY DEF Larger
<1>2. x \in Nat /\ Len(c) <= x
  BY <1>1 DEF Larger
<1>3. y \in Nat
  OBVIOUS
<1>4. nnzmax' = IF asked = 0 THEN Larger(x, y) ELSE asked
  BY DEF Increaze, IncreazeMax
<1> HIDE DEF x, y
<1>5. Len(c) <= Larger(x, y)
  BY <1>2, <1>3 DEF Larger
<1> QED BY <1>4, <1>5

(* A matrix of two rows and columns at most has no room for a fifth cell,  *)
(* one of a single row and column none for a second.                       *)
LEMMA FewCells ==
  ASSUME TypeOK, NoDuplicate, fortran = 0, NEW ii, NEW jj, <<ii, jj>> \in Cells,
         \A k \in DOMAIN coef : Cell(coef[k]) # <<ii, jj>>
  PROVE  /\ Larger(n, m) = 1 => Len(coef) = 0
         /\ Larger(n, m) = 2 => Len(coef) <= 3
<1>1. n \in Nat \ {0} /\ m \in Nat \ {0}
  BY ConstantsAssumption DEF TypeOK, ShapeOK
<1>2. Len(coef) \in Nat /\ DOMAIN coef = 1 .. Len(coef)
  BY CoefElim
<1>3. ii \in 0 .. n - 1 /\ jj \in 0 .. m - 1
  BY <1>1 DEF Cells
<1>4. \A k \in DOMAIN coef : coef[k].i \in 0 .. n - 1 /\ coef[k].j \in 0 .. m - 1
  BY <1>1, CoefElim
<1>5. \A k \in DOMAIN coef : coef[k].i # ii \/ coef[k].j # jj
  BY DEF Cell
<1>6. \A k, l \in DOMAIN coef : k # l => coef[k].i # coef[l].i \/ coef[k].j # coef[l].j
  BY DEF NoDuplicate, Distinct, Cell
<1>7. ASSUME Larger(n, m) = 1, Len(coef) # 0
      PROVE  FALSE
  <2>1. n = 1 /\ m = 1
    BY <1>1, <1>7 DEF Larger
  <2>2. 1 \in DOMAIN coef
    BY <1>2, <1>7
  <2> QED BY <1>3, <1>4, <1>5, <2>1, <2>2
<1>8. ASSUME Larger(n, m) = 2, ~(Len(coef) <= 3)
      PROVE  FALSE
  <2>1. n \in 1 .. 2 /\ m \in 1 .. 2
    BY <1>1, <1>8 DEF Larger
  <2>2. {1, 2, 3, 4} \subseteq DOMAIN coef
    BY <1>2, <1>8
  <2>3. ii \in {0, 1} /\ jj \in {0, 1}
    BY <1>3, <2>1
  <2>4. \A k \in {1, 2, 3, 4} : coef[k].i \in {0, 1} /\ coef[k].j \in {0, 1}
    BY <1>4, <2>1, <2>2
  <2>5. \A k \in {1, 2, 3, 4} : coef[k].i # ii \/ coef[k].j # jj
    BY <1>5, <2>2
  <2>6. \A k, l \in {1, 2, 3, 4} : k # l => coef[k].i # coef[l].i \/ coef[k].j # coef[l].j
    BY <1>6, <2>2
  <2> QED BY <2>3, <2>4, <2>5, <2>6
<1> QED BY <1>1, <1>2, <1>7, <1>8

(* Growing full arrays gains at least one place.                           *)
LEMMA GrowthSuffices ==
  ASSUME NEW mnx \in Nat \ {0}, NEW l \in Nat,
         mnx = 1 => l = 0, mnx = 2 => l <= 3
  PROVE  l + 1 <= IncreazeMax(0, l, mnx, l)
<1> DEFINE x == Larger(2 * mnx, l)
           y == (l * 6) \div 5
<1>1. IncreazeMax(0, l, mnx, l) = Larger(x, y)
  BY DEF IncreazeMax
<1>2. x \in Nat /\ y \in Nat
  BY DEF Larger
<1>3. CASE l <= 4
  <2>1. l + 1 <= 2 * mnx
    BY <1>3
  <2> QED BY <1>1, <1>2, <2>1 DEF Larger
<1>4. CASE ~(l <= 4)
  <2>1. l + 1 <= y
    BY <1>4
  <2> QED BY <1>1, <1>2, <2>1 DEF Larger
<1> QED BY <1>3, <1>4

(* Two term lists with the same positions have the same length. *)
LEMMA SameLength ==
  ASSUME TypeOK, TypeOK', DOMAIN coef' = DOMAIN coef
  PROVE  Len(coef') = Len(coef)
<1>1. Len(coef) \in Nat /\ DOMAIN coef = 1 .. Len(coef)
  BY CoefElim
<1>2. Len(coef') \in Nat /\ DOMAIN coef' = 1 .. Len(coef')
  BY SeqElim DEF TypeOK, TermsOK
<1> QED BY <1>1, <1>2

(* A new term always finds room, growing the arrays when they are full. *)
LEMMA npijRoom ==
  ASSUME TableInv, RoomInv, fortran = 0, NEW ii, NEW jj, <<ii, jj>> \in Cells,
         NEW v \in Vals, npij(ii, jj, v)
  PROVE  RoomInv'
<1> DEFINE mnx == Larger(n, m)
           len == IncreazeMax(0, Len(coef), mnx, nnzmax)
<1>1. TypeOK /\ HashInv /\ NoDuplicate
  BY DEF TableInv
<1>2. ii \in Int /\ jj \in Int /\ n \in Nat \ {0} /\ m \in Nat \ {0}
  BY <1>1, ConstantsAssumption DEF TypeOK, ShapeOK, Cells
<1>3. Len(coef) \in Nat /\ nnzmax \in Nat
  BY <1>1, CoefElim DEF TypeOK, TableOK
<1>4. CASE find(ii, jj) = 0
  <2>1. simpleinsert(ii, jj, v)
    BY <1>4 DEF npij
  <2>2. Len(coef') = Len(coef) + 1
    <3>1. [i |-> ii, j |-> jj, a |-> v] \in Term
      BY <1>2 DEF Term
    <3> QED BY <1>1, <2>1, <3>1, CoefElim, AppendProperties DEF simpleinsert
  <2>3. CASE Len(coef) = nnzmax
    <3>1. mnx \in Nat \ {0}
      BY <1>2 DEF Larger
    <3>2. (mnx = 1 => Len(coef) = 0) /\ (mnx = 2 => Len(coef) <= 3)
      BY <1>1, <1>2, <1>4, NotFound, FewCells
    <3>3. Len(coef) + 1 <= IncreazeMax(0, Len(coef), mnx, Len(coef))
      BY <1>3, <3>1, <3>2, GrowthSuffices
    <3>4. nnzmax' = len
      BY <2>1, <2>3 DEF simpleinsert
    <3> QED BY <2>2, <2>3, <3>3, <3>4 DEF RoomInv
  <2>4. CASE Len(coef) # nnzmax
    BY <1>3, <2>1, <2>2, <2>4 DEF simpleinsert, RoomInv
  <2> QED BY <2>3, <2>4
<1>5. CASE find(ii, jj) # 0
  <2>1. find(ii, jj) \in DOMAIN coef /\ WriteAt(find(ii, jj), v)
    BY <1>1, <1>2, <1>5, FindRange DEF npij
  <2>2. Len(coef') = Len(coef) /\ nnzmax' = nnzmax
    BY <1>1, <2>1, WriteAtCells, CoefElim, Mapped DEF table
  <2> QED BY <2>2 DEF RoomInv
<1> QED BY <1>4, <1>5

(* Keeping some of the terms keeps at most all of them. *)
LEMMA PackedLength ==
  ASSUME NEW c \in Seq(Term), NEW S \in SUBSET DOMAIN c, NEW f \in Increasing(S)
  PROVE  Packed(c, f) \in Seq(Term) /\ Len(Packed(c, f)) \in Nat /\ Len(Packed(c, f)) <= Len(c)
<1>1. Len(c) \in Nat /\ DOMAIN c = 1 .. Len(c)
  BY SeqElim
<1>2. IsFiniteSet(1 .. Len(c)) /\ Cardinality(1 .. Len(c)) = Len(c)
  <2>1. \A x \in Int : /\ IsFiniteSet(1 .. x)
                       /\ Cardinality(1 .. x) = IF 1 > x THEN 0 ELSE x - 1 + 1
    BY FS_Interval
  <2> QED BY <1>1, <2>1
<1>3. Cardinality(S) \in Nat /\ Cardinality(S) <= Len(c)
  BY <1>1, <1>2, FS_Subset, PositionsFinite
<1>4. f \in [1 .. Cardinality(S) -> S]
  BY DEF Increasing
<1>5. Packed(c, f) \in [1 .. Cardinality(S) -> Term]
  BY <1>4, SeqElim DEF Packed
<1> QED BY <1>3, <1>5, SeqIntro

(* No change of shape leaves more terms than room. *)
LEMMA ReshapeRoom ==
  ASSUME TypeOK, RoomInv, Reshape
  PROVE  RoomInv'
<1>1. n \in Nat \ {0} /\ m \in Nat \ {0} /\ Len(coef) \in Nat /\ nnzmax \in Nat /\ coef \in Seq(Term)
  BY ConstantsAssumption, CoefElim DEF TypeOK, ShapeOK, TableOK
<1>2. ASSUME NEW nn \in 1 .. MaxDim, NEW mm \in 1 .. MaxDim, NEW nnnz \in {0, Len(coef)},
             NEW tol, NEW sym, resize(nn, mm, nnnz, tol, sym)
      PROVE  RoomInv'
  <2> DEFINE room == Larger(nnnz, Len(coef'))
  <2>1. PICK f \in Increasing(Kept(nn, mm, tol, sym)) :
          /\ coef' = Packed(coef, f)
          /\ Increaze(room, coef', fortran, nn, mm) \/ ReHashed(coef', fortran, nn)
    BY <1>2 DEF resize
  <2>2. Kept(nn, mm, tol, sym) \in SUBSET DOMAIN coef
    BY DEF Kept
  <2>3. Len(coef') \in Nat /\ Len(coef') <= Len(coef)
    BY <1>1, <2>1, <2>2, PackedLength
  <2>4. room \in Nat /\ Len(coef') <= room
    BY <1>1, <2>3 DEF Larger
  <2>5. CASE Increaze(room, coef', fortran, nn, mm)
    <3>1. nn \in Nat \ {0} /\ mm \in Nat \ {0}
      BY ConstantsAssumption
    <3> HIDE DEF room
    <3> QED BY <1>1, <2>3, <2>4, <2>5, <3>1, IncreazeRoom DEF RoomInv
  <2>6. CASE ReHashed(coef', fortran, nn)
    BY <1>1, <2>3, <2>6 DEF ReHashed, RoomInv
  <2> QED BY <2>1, <2>5, <2>6
<1>3. ASSUME NEW cas, NEW tol, RemoveHalf(cas, tol)
      PROVE  RoomInv'
  <2>1. PICK f \in Increasing(Triangle(cas, tol)) :
          /\ coef' = Packed(coef, f)
          /\ \/ Increaze(Len(coef'), coef', fortran, n, m)
             \/ ReHashed(coef', fortran, n)
    BY <1>3 DEF RemoveHalf
  <2>2. Triangle(cas, tol) \in SUBSET DOMAIN coef
    BY DEF Triangle
  <2>3. Len(coef') \in Nat /\ Len(coef') <= Len(coef)
    BY <1>1, <2>1, <2>2, PackedLength
  <2>4. CASE Increaze(Len(coef'), coef', fortran, n, m)
    BY <1>1, <2>3, <2>4, IncreazeRoom DEF RoomInv
  <2>5. CASE ReHashed(coef', fortran, n)
    BY <1>1, <2>3, <2>5 DEF ReHashed, RoomInv
  <2> QED BY <2>1, <2>4, <2>5
<1>4. ASSUME clear
      PROVE  RoomInv'
  <2>1. Len(coef') = 0 /\ nnzmax' = nnzmax
    BY <1>4, EmptySeq DEF clear
  <2> QED BY <1>1, <2>1 DEF RoomInv
<1>5. ASSUME NEW nn \in 1 .. MaxDim, NEW mm \in 1 .. MaxDim, NEW hhalf, NEW c \in Sources,
             set(nn, mm, hhalf, c)
      PROVE  RoomInv'
  <2> DEFINE mnx == Larger(nn, mm)
  <2>1. Len(c) \in Nat /\ coef' = c
    BY <1>5, ConstantsAssumption, SeqElim DEF set
  <2>2. nn \in Nat \ {0} /\ mm \in Nat \ {0}
    BY ConstantsAssumption
  <2>3. mnx \in Nat \ {0}
    BY <2>2 DEF Larger
  <2>4. nnzmax' = IncreazeMax(Len(c), 0, mnx, nnzmax)
    BY <1>5 DEF set
  <2>5. CASE Len(c) = 0
    <3>1. nnzmax' \in Nat
      BY <1>1, <2>1, <2>3, <2>4, RoomPositive
    <3> QED BY <2>1, <2>5, <3>1 DEF RoomInv
  <2>6. CASE Len(c) # 0
    BY <2>1, <2>4, <2>6 DEF IncreazeMax, RoomInv
  <2> QED BY <2>5, <2>6
<1>6. ASSUME dotranspose
      PROVE  RoomInv'
  <2>1. TypeOK'
    BY <1>6, dotransposeType
  <2>2. DOMAIN coef' = DOMAIN coef /\ nnzmax' = nnzmax
    BY <1>6 DEF dotranspose, ReHashed
  <2>3. Len(coef') = Len(coef)
    BY <2>1, <2>2, SameLength
  <2> QED BY <2>2, <2>3 DEF RoomInv
<1> QED BY <1>2, <1>3, <1>4, <1>5, <1>6 DEF Reshape

(* No call leaves more terms than room. *)
LEMMA NextRoom ==
  ASSUME TableInv, RoomInv, [Next]_vars
  PROVE  RoomInv'
<1>1. TypeOK /\ TypeOK'
  BY NextType DEF TableInv
<1>2. CASE fortran = 0 /\ Access
  <2>1. PICK ii \in 0 .. n - 1, jj \in 0 .. m - 1, v \in Vals :
          npij(ii, jj, v) \/ Accumulate(ii, jj, v) \/ pij(ii, jj, v)
    BY <1>2 DEF Access
  <2>2. <<ii, jj>> \in Cells /\ ii \in Int /\ jj \in Int
    BY <1>1, <1>2 DEF TypeOK, ShapeOK, Cells
  <2>3. CASE npij(ii, jj, v)
    BY <1>2, <2>2, <2>3, npijRoom
  <2>4. CASE Accumulate(ii, jj, v)
    BY <1>2, <2>2, <2>4, npijRoom DEF Accumulate
  <2>5. CASE pij(ii, jj, v)
    <3>1. DOMAIN coef' = DOMAIN coef /\ nnzmax' = nnzmax
      BY <1>1, <2>2, <2>5, FindRange, WriteAtCells DEF pij, table
    <3> QED BY <1>1, <3>1, SameLength DEF RoomInv
  <2> QED BY <2>1, <2>3, <2>4, <2>5
<1>3. CASE Reshape
  BY <1>1, <1>3, ReshapeRoom
<1>4. CASE Values \/ COO \/ CSR \/ CSC \/ CSC_U \/ HM \/ GetReDo \/ UNCHANGED vars
           \/ \E yes \in {0, 1} : setfortran(yes)
  <2>1. ASSUME Values
        PROVE  DOMAIN coef' = DOMAIN coef /\ nnzmax' = nnzmax
    BY <1>1, <2>1, ValuesCells DEF table
  <2>2. ASSUME Sortij \/ Sortji
        PROVE  DOMAIN coef' = DOMAIN coef
    BY <2>2 DEF Sortij, Sortji, Rearranged
  <2>3. ASSUME CSC_U
        PROVE  DOMAIN coef' = DOMAIN coef
    BY <2>3, UpperPermutes DEF Rearranged
  <2>4. DOMAIN coef' = DOMAIN coef /\ nnzmax' = nnzmax
    BY <1>4, <2>1, <2>2, <2>3
       DEF COO, CSR, CSC, CSC_U, HM, GetReDo, setfortran, vars, table
  <2> QED BY <1>1, <2>4, SameLength DEF RoomInv
<1> QED BY <1>2, <1>3, <1>4 DEF Next

(* The arrays have room for every term, and simpleinsert never writes past *)
(* them: where the growth could gain nothing the matrix is already full.   *)
THEOREM RoomCorrect == Spec => []RoomInv
<1>1. Init => TableInv /\ RoomInv
  <2> SUFFICES ASSUME Init
               PROVE  RoomInv
    BY InitTable
  <2>1. nnzmax \in Nat /\ Len(coef) = 0
    BY InitType, EmptySeq DEF Init, TypeOK, TableOK
  <2> QED BY <2>1 DEF RoomInv
<1>2. TableInv /\ RoomInv /\ [Next]_vars => (TableInv /\ RoomInv)'
  BY NextType, NextTable, NextRoom DEF TableInv
<1> QED BY <1>1, <1>2, PTL DEF Spec

-----------------------------------------------------------------------------
(* The formats. *)

ColsFromZero(c, f) == [k \in DOMAIN c |-> c[k].j - f]

(* The terms the pointer of CSC_U is over. *)
Covered(c) == IF nnzUpper(c) = 0 THEN Len(c) ELSE nnzUpper(c)

(* What CSC_U leaves: the upper terms in front, in the order of the        *)
(* columns; when there is none, all the terms in that order.               *)
InFront(c) == \A k, l \in DOMAIN c : IsUpper(c[l]) /\ k < l => IsUpper(c[k])
ByColumn(s, t) == s.j < t.j \/ (s.j = t.j /\ s.i <= t.i)
UpperOrdered(c) ==
  /\ InFront(c)
  /\ \A k, l \in 1 .. Covered(c) : k < l => ByColumn(c[k], c[l])

(* What state st and format ty say of terms c and pointer q.  PointerInv   *)
(* is silent about CSC_U while the base is 1; here the pointer is that of  *)
(* base 0 all along.                                                       *)
Formatted(c, f, nn, mm, st, ty, q) ==
  /\ st = sorted_ij => SortedIJ(c)
  /\ st = sorted_ji => SortedJI(c)
  /\ st = upper_ji => UpperOrdered(c)
  /\ ty = type_CSR => st = sorted_ij /\ q = Pointer(Rows(c), f, nn, Len(c))
  /\ ty = type_CSC => st = sorted_ji /\ q = Pointer(Cols(c), f, mm, Len(c))
  /\ ty = upper_ji => st = upper_ji /\ q = Pointer(ColsFromZero(c, f), 0, mm, Covered(c))

FormatIInv == Formatted(coef, fortran, n, m, state, type_state, p)

(* The least element is one. *)
LEMMA LeastIn ==
  ASSUME NEW S \in SUBSET Nat, S # {}
  PROVE  Least(S) \in S /\ \A y \in S : Least(S) <= y
<1>1. \E x \in S : \A y \in S : x <= y
  BY NatMin
<1> QED BY <1>1 DEF Least

(* A pointer of keys and a base that are shifted together is shifted.      *)
Raised(q, s) == [r \in DOMAIN q |-> q[r] + s]
Shifted(key, other, s, nnzz) == \A k \in 1 .. nnzz : key[k] \in Int /\ other[k] = key[k] + s
LEMMA PointerShift ==
  ASSUME NEW key, NEW other, NEW f \in Int, NEW s \in Int, NEW nn \in Nat, NEW nnzz \in Nat,
         Shifted(key, other, s, nnzz)
  PROVE  Pointer(other, f + s, nn, nnzz) = Raised(Pointer(key, f, nn, nnzz), s)
<1> DEFINE A(r) == {k \in 1 .. nnzz : key[k] - f = r}
           B(r) == {k \in 1 .. nnzz : other[k] - (f + s) = r}
           N(r) == {q \in r .. nn - 1 : A(q) # {}}
           M(r) == {q \in r .. nn - 1 : B(q) # {}}
<1>1. ASSUME NEW r
      PROVE  B(r) = A(r)
  <2>1. \A k \in 1 .. nnzz : other[k] - (f + s) = key[k] - f
    BY DEF Shifted
  <2> QED BY <2>1
<1>2. Pointer(key, f, nn, nnzz)
        = [r \in 0 .. nn |-> IF N(r) = {} THEN nnzz + f ELSE Least(A(Least(N(r)))) - 1 + f]
  BY DEF Pointer
<1>3. Pointer(other, f + s, nn, nnzz)
        = [r \in 0 .. nn |-> IF M(r) = {} THEN nnzz + (f + s) ELSE Least(B(Least(M(r)))) - 1 + (f + s)]
  BY DEF Pointer
<1>4. ASSUME NEW r \in 0 .. nn, N(r) # {}
      PROVE  Least(A(Least(N(r)))) \in Int
  <2>1. N(r) \in SUBSET Nat
    OBVIOUS
  <2>2. Least(N(r)) \in N(r)
    BY <1>4, <2>1, LeastIn
  <2>3. A(Least(N(r))) \in SUBSET Nat /\ A(Least(N(r))) # {}
    BY <2>2
  <2> HIDE DEF A, N
  <2> QED BY <2>3, LeastIn
<1> HIDE DEF A, B
<1>5. \A r : M(r) = N(r)
  BY <1>1
<1> HIDE DEF N, M
<1>6. ASSUME NEW r \in 0 .. nn
      PROVE  Pointer(other, f + s, nn, nnzz)[r] = Pointer(key, f, nn, nnzz)[r] + s
  <2>1. CASE N(r) = {}
    BY <1>2, <1>3, <1>5, <2>1
  <2>2. CASE N(r) # {}
    <3>1. Least(B(Least(M(r)))) = Least(A(Least(N(r))))
      BY <1>1, <1>5
    <3>2. Least(A(Least(N(r)))) \in Int
      BY <1>4, <2>2
    <3>3. Pointer(other, f + s, nn, nnzz)[r] = Least(A(Least(N(r)))) - 1 + (f + s)
      BY <1>3, <1>5, <2>2, <3>1
    <3>4. Pointer(key, f, nn, nnzz)[r] = Least(A(Least(N(r)))) - 1 + f
      BY <1>2, <2>2
    <3> QED BY <3>2, <3>3, <3>4
  <2> QED BY <2>1, <2>2
<1>7. DOMAIN Pointer(key, f, nn, nnzz) = 0 .. nn
  BY PointerDomain
<1>8. Pointer(other, f + s, nn, nnzz) = [r \in 0 .. nn |-> Pointer(other, f + s, nn, nnzz)[r]]
  BY <1>3
<1> QED BY <1>6, <1>7, <1>8 DEF Raised

(* Keys that agree on the terms covered have the same pointer. *)
LEMMA PointerSame ==
  ASSUME NEW key, NEW other, NEW f, NEW nn, NEW nnzz,
         \A k \in 1 .. nnzz : other[k] = key[k]
  PROVE  Pointer(other, f, nn, nnzz) = Pointer(key, f, nn, nnzz)
<1> DEFINE A(r) == {k \in 1 .. nnzz : key[k] - f = r}
           B(r) == {k \in 1 .. nnzz : other[k] - f = r}
<1>1. \A r : B(r) = A(r)
  OBVIOUS
<1>2. Pointer(key, f, nn, nnzz)
        = [r \in 0 .. nn |-> IF {q \in r .. nn - 1 : A(q) # {}} = {} THEN nnzz + f
                             ELSE Least(A(Least({q \in r .. nn - 1 : A(q) # {}}))) - 1 + f]
  BY DEF Pointer
<1>3. Pointer(other, f, nn, nnzz)
        = [r \in 0 .. nn |-> IF {q \in r .. nn - 1 : B(q) # {}} = {} THEN nnzz + f
                             ELSE Least(B(Least({q \in r .. nn - 1 : B(q) # {}}))) - 1 + f]
  BY DEF Pointer
<1> HIDE DEF A, B
<1>4. \A r : {q \in r .. nn - 1 : B(q) # {}} = {q \in r .. nn - 1 : A(q) # {}}
  BY <1>1
<1> QED BY <1>1, <1>2, <1>3, <1>4

(* Upper terms in front are at the first nnzUpper positions. *)
LEMMA UpperPrefix ==
  ASSUME NEW c \in Seq(Term), InFront(c)
  PROVE  /\ nnzUpper(c) \in Nat
         /\ nnzUpper(c) <= Len(c)
         /\ {k \in DOMAIN c : IsUpper(c[k])} = 1 .. nnzUpper(c)
<1> DEFINE S == {k \in DOMAIN c : IsUpper(c[k])}
<1>1. Len(c) \in Nat /\ DOMAIN c = 1 .. Len(c)
  BY SeqElim
<1>2. \A x \in Int : /\ IsFiniteSet(1 .. x)
                     /\ Cardinality(1 .. x) = IF 1 > x THEN 0 ELSE x - 1 + 1
  BY FS_Interval
<1>3. PICK q \in Nat : q <= Len(c) /\ S = 1 .. q
  <2>1. CASE S = {}
    BY <1>1, <2>1
  <2>2. CASE S # {}
    <3>1. Greatest(S) \in S /\ \A y \in S : y <= Greatest(S)
      <4>1. \E x \in S : \A y \in S : y <= x
        <5> DEFINE D == {Len(c) - x : x \in S}
        <5>1. D \in SUBSET Nat /\ D # {}
          BY <1>1, <2>2
        <5>2. PICK z \in D : \A y \in D : z <= y
          <6> HIDE DEF D
          <6> QED BY <5>1, NatMin
        <5>3. PICK x \in S : z = Len(c) - x
          BY <5>2
        <5>4. ASSUME NEW y \in S
              PROVE  y <= x
          <6>1. Len(c) - x <= Len(c) - y
            BY <5>2, <5>3
          <6> QED BY <1>1, <6>1
        <5> QED BY <5>3, <5>4
      <4> QED BY <4>1 DEF Greatest
    <3>2. \A k \in 1 .. Greatest(S) : k \in S
      BY <1>1, <3>1 DEF InFront
    <3>3. Greatest(S) \in Nat /\ Greatest(S) <= Len(c)
      BY <1>1, <3>1
    <3>4. S = 1 .. Greatest(S)
      BY <1>1, <3>1, <3>2, <3>3
    <3> QED BY <3>3, <3>4
  <2> QED BY <2>1, <2>2
<1>4. Cardinality(1 .. q) = q
  <2>1. q \in Int
    OBVIOUS
  <2>2. Cardinality(1 .. q) = IF 1 > q THEN 0 ELSE q - 1 + 1
    BY <1>2, <2>1
  <2> QED BY <2>2
<1>5. nnzUpper(c) = q
  BY <1>3, <1>4 DEF nnzUpper
<1> QED BY <1>3, <1>5

(* What the invariant says covers FormatInv. *)
LEMMA FormatIInvSays ==
  ASSUME TypeOK, FormatIInv
  PROVE  FormatInv
<1>1. coef \in Seq(Term) /\ Len(coef) \in Nat /\ DOMAIN coef = 1 .. Len(coef)
  BY CoefElim
<1>2. OrderInv
  <2>1. ASSUME state = upper_ji, NEW k \in DOMAIN coef, NEW l \in DOMAIN coef
        PROVE  /\ IsUpper(coef[l]) /\ k < l => IsUpper(coef[k])
               /\ IsUpper(coef[l]) /\ k < l =>
                    \/ coef[k].j < coef[l].j
                    \/ coef[k].j = coef[l].j /\ coef[k].i <= coef[l].i
    <3>1. UpperOrdered(coef)
      BY <2>1 DEF FormatIInv, Formatted
    <3>2. nnzUpper(coef) \in Nat /\ {q \in DOMAIN coef : IsUpper(coef[q])} = 1 .. nnzUpper(coef)
      BY <1>1, <3>1, UpperPrefix DEF UpperOrdered
    <3>3. ASSUME IsUpper(coef[l]), k < l
          PROVE  ByColumn(coef[k], coef[l])
      <4>1. l \in 1 .. nnzUpper(coef)
        BY <3>2, <3>3
      <4>2. k \in 1 .. Covered(coef) /\ l \in 1 .. Covered(coef)
        BY <1>1, <3>2, <3>3, <4>1 DEF Covered
      <4> QED BY <3>1, <3>3, <4>2 DEF UpperOrdered
    <3> QED BY <3>1, <3>3 DEF UpperOrdered, InFront, ByColumn
  <2> QED BY <2>1 DEF OrderInv, FormatIInv, Formatted
<1>3. PointerInv
  <2>1. ASSUME type_state = upper_ji, fortran = 0
        PROVE  p = Pointer(Cols(coef), 0, m, Covered(coef))
    <3>1. \A k \in DOMAIN coef : coef[k].j - 0 = coef[k].j
      BY CoefElim DEF Term
    <3>2. ColsFromZero(coef, fortran) = Cols(coef)
      BY <2>1, <3>1 DEF ColsFromZero, Cols
    <3> QED BY <2>1, <3>2 DEF FormatIInv, Formatted
  <2> QED BY <2>1 DEF PointerInv, FormatIInv, Formatted, Covered
<1> QED BY <1>2, <1>3 DEF FormatInv

(* Terms that keep their cells keep the format. *)
LEMMA SameCellsFormat ==
  ASSUME TypeOK, FormatIInv, UNCHANGED <<shape, order>>, coef' \in [DOMAIN coef -> Term],
         \A k \in DOMAIN coef : Cell(coef'[k]) = Cell(coef[k])
  PROVE  FormatIInv'
<1>1. coef' \in Seq(Term) /\ Len(coef') = Len(coef) /\ DOMAIN coef' = DOMAIN coef
  BY CoefElim, Mapped
<1>2. \A k \in DOMAIN coef : coef'[k].i = coef[k].i /\ coef'[k].j = coef[k].j
  BY DEF Cell
<1>3. Rows(coef') = Rows(coef) /\ Cols(coef') = Cols(coef)
      /\ ColsFromZero(coef', fortran) = ColsFromZero(coef, fortran)
  BY <1>1, <1>2 DEF Rows, Cols, ColsFromZero
<1>4. \A k \in DOMAIN coef : IsUpper(coef'[k]) <=> IsUpper(coef[k])
  BY <1>2 DEF IsUpper
<1>5. nnzUpper(coef') = nnzUpper(coef)
  <2>1. {k \in DOMAIN coef' : IsUpper(coef'[k])} = {k \in DOMAIN coef : IsUpper(coef[k])}
    BY <1>1, <1>4
  <2> QED BY <2>1 DEF nnzUpper
<1>6. Covered(coef') = Covered(coef)
  BY <1>1, <1>5 DEF Covered
<1>7. UpperOrdered(coef) => UpperOrdered(coef')
  <2> SUFFICES ASSUME UpperOrdered(coef)
               PROVE  UpperOrdered(coef')
    OBVIOUS
  <2>1. InFront(coef')
    BY <1>1, <1>4 DEF UpperOrdered, InFront
  <2>2. 1 .. Covered(coef) \in SUBSET DOMAIN coef
    <3>1. nnzUpper(coef) \in Nat /\ nnzUpper(coef) <= Len(coef) /\ Len(coef) \in Nat
          /\ DOMAIN coef = 1 .. Len(coef)
      BY CoefElim, UpperPrefix DEF UpperOrdered
    <3> QED BY <3>1 DEF Covered
  <2> QED BY <1>2, <1>6, <2>1, <2>2 DEF UpperOrdered, ByColumn
<1>8. (SortedIJ(coef) => SortedIJ(coef')) /\ (SortedJI(coef) => SortedJI(coef'))
  BY <1>3 DEF SortedIJ, SortedJI
<1>9. UNCHANGED <<fortran, n, m, state, type_state, p>>
  BY DEF shape, order
<1> HIDE DEF FormatIInv
<1> QED BY <1>1, <1>3, <1>6, <1>7, <1>8, <1>9 DEF FormatIInv, Formatted

(* A new or emptied order and no format: nothing is claimed. *)
LEMMA NoFormat ==
  ASSUME state' = unsorted, type_state' \in {type_HM, type_COO}
  PROVE  FormatIInv'
<1>1. unsorted \notin {sorted_ij, sorted_ji, upper_ji}
      /\ type_state' \notin {type_CSR, type_CSC, upper_ji}
  BY DEF unsorted, sorted_ij, sorted_ji, upper_ji, type_HM, type_COO, type_CSR, type_CSC
<1> QED BY <1>1 DEF FormatIInv, Formatted

(* The calls on one cell. *)
LEMMA AccessFormat ==
  ASSUME TypeOK, FormatIInv, fortran = 0, Access
  PROVE  FormatIInv'
<1>1. PICK ii \in 0 .. n - 1, jj \in 0 .. m - 1, v \in Vals :
        npij(ii, jj, v) \/ Accumulate(ii, jj, v) \/ pij(ii, jj, v)
  BY DEF Access
<1>2. ii \in Int /\ jj \in Int
  OBVIOUS
<1>3. ASSUME NEW w \in Vals, find(ii, jj) # 0, WriteAt(find(ii, jj), w)
      PROVE  FormatIInv'
  <2>1. /\ coef' \in [DOMAIN coef -> Term]
        /\ \A l \in DOMAIN coef : Cell(coef'[l]) = Cell(coef[l])
        /\ UNCHANGED <<shape, order>>
    BY <1>2, <1>3, FindRange, WriteAtCells
  <2> QED BY <2>1, SameCellsFormat
<1>4. ASSUME NEW w \in Vals, npij(ii, jj, w)
      PROVE  FormatIInv'
  <2>1. CASE find(ii, jj) = 0
    BY <1>4, <2>1, NoFormat DEF npij, simpleinsert
  <2>2. CASE find(ii, jj) # 0
    BY <1>3, <1>4, <2>2 DEF npij
  <2> QED BY <2>1, <2>2
<1>5. CASE npij(ii, jj, v) \/ Accumulate(ii, jj, v)
  BY <1>4, <1>5 DEF Accumulate
<1>6. CASE pij(ii, jj, v)
  <2>1. CASE find(ii, jj) # 0 /\ WriteAt(find(ii, jj), v)
    BY <1>3, <2>1
  <2>2. CASE UNCHANGED <<shape, coef, table, order, re_do_symbolic>>
    BY <2>2 DEF FormatIInv, shape, order
  <2> QED BY <1>6, <2>1, <2>2 DEF pij
<1> QED BY <1>1, <1>5, <1>6

(* A matrix that was given another shape is in no order and no format. *)
LEMMA ReshapeFormat ==
  ASSUME TransposeFrom \subseteq {type_HM, type_COO}, Reshape
  PROVE  FormatIInv'
<1>1. CASE dotranspose /\ type_state \in TransposeFrom
  BY <1>1, NoFormat DEF dotranspose
<1> QED BY <1>1, NoFormat DEF Reshape, resize, RemoveHalf, clear, set

(* A shift of the indices keeps the order, and shifts the pointer of CSR   *)
(* and CSC.                                                                *)
LEMMA setfortranFormat ==
  ASSUME TypeOK, FormatIInv, NEW yes \in {0, 1}, setfortran(yes)
  PROVE  FormatIInv'
<1> DEFINE s == yes - fortran
<1>1. /\ fortran \in Int /\ yes \in Int /\ n \in Nat /\ m \in Nat
      /\ fortran' = yes
  <2>1. fortran \in Int /\ yes \in Int
    BY DEF TypeOK, ShapeOK
  <2>2. n \in Nat /\ m \in Nat
    BY ConstantsAssumption DEF TypeOK, ShapeOK
  <2> QED BY <2>1, <2>2 DEF setfortran
<1>2. s \in Int /\ fortran' = fortran + s
  BY <1>1
<1>3. coef' = [k \in DOMAIN coef |-> [coef[k] EXCEPT !.i = @ + s, !.j = @ + s]]
      /\ p' = (IF type_state \in {type_CSR, type_CSC}
               THEN [r \in DOMAIN p |->
                       IF r <= (IF type_state = type_CSR THEN n ELSE m)
                       THEN p[r] + s ELSE p[r]]
               ELSE p)
      /\ n' = n /\ m' = m /\ state' = state /\ type_state' = type_state
  BY DEF setfortran
<1> HIDE DEF s
<1>4. coef \in Seq(Term) /\ Len(coef) \in Nat /\ DOMAIN coef = 1 .. Len(coef)
      /\ \A k \in DOMAIN coef : coef[k] \in Term
  BY CoefElim
<1>5. \A k \in DOMAIN coef : /\ coef[k].i \in Int /\ coef[k].j \in Int
                             /\ coef'[k].i = coef[k].i + s /\ coef'[k].j = coef[k].j + s
  BY <1>2, <1>3, <1>4 DEF Term
<1>6. DOMAIN coef' = DOMAIN coef /\ Len(coef') = Len(coef)
  <2>1. \A k \in DOMAIN coef : coef'[k] = [coef[k] EXCEPT !.i = coef[k].i + s, !.j = coef[k].j + s]
    BY <1>3
  <2>2. ASSUME NEW t \in Term
        PROVE  [t EXCEPT !.i = t.i + s, !.j = t.j + s] \in Term
    <3>1. t.i + s \in Int /\ t.j + s \in Int
      BY <1>2 DEF Term
    <3> QED BY <3>1 DEF Term
  <2>3. \A k \in DOMAIN coef : coef'[k] \in Term
    BY <1>4, <2>1, <2>2
  <2>4. coef' \in [DOMAIN coef -> Term]
    BY <1>3, <2>3
  <2> QED BY <1>4, <2>4, Mapped
<1>7. \A k \in DOMAIN coef : IsUpper(coef'[k]) <=> IsUpper(coef[k])
  BY <1>2, <1>5 DEF IsUpper
<1>8. nnzUpper(coef') = nnzUpper(coef)
  <2>1. {k \in DOMAIN coef' : IsUpper(coef'[k])} = {k \in DOMAIN coef : IsUpper(coef[k])}
    BY <1>6, <1>7
  <2> QED BY <2>1 DEF nnzUpper
<1>9. Covered(coef') = Covered(coef)
  BY <1>6, <1>8 DEF Covered
<1>10. \A k, l \in DOMAIN coef : ByColumn(coef[k], coef[l]) => ByColumn(coef'[k], coef'[l])
  BY <1>2, <1>5 DEF ByColumn
<1>11. UpperOrdered(coef) => UpperOrdered(coef')
  <2> SUFFICES ASSUME UpperOrdered(coef)
               PROVE  UpperOrdered(coef')
    OBVIOUS
  <2>1. InFront(coef')
    BY <1>6, <1>7 DEF UpperOrdered, InFront
  <2>2. 1 .. Covered(coef) \in SUBSET DOMAIN coef
    <3>1. nnzUpper(coef) \in Nat /\ nnzUpper(coef) <= Len(coef)
      BY <1>4, UpperPrefix DEF UpperOrdered
    <3> QED BY <1>4, <3>1 DEF Covered
  <2> QED BY <1>9, <1>10, <2>1, <2>2 DEF UpperOrdered
<1>12. SortedIJ(coef) => SortedIJ(coef')
  <2> SUFFICES ASSUME SortedIJ(coef), NEW k \in DOMAIN coef, NEW l \in DOMAIN coef, k < l
               PROVE  coef'[k].i < coef'[l].i \/ (coef'[k].i = coef'[l].i /\ coef'[k].j <= coef'[l].j)
    BY <1>6 DEF SortedIJ, Ordered, Rows, Cols
  <2>1. coef[k].i < coef[l].i \/ (coef[k].i = coef[l].i /\ coef[k].j <= coef[l].j)
    BY DEF SortedIJ, Ordered, Rows, Cols
  <2> QED BY <1>2, <1>5, <2>1
<1>13. SortedJI(coef) => SortedJI(coef')
  <2> SUFFICES ASSUME SortedJI(coef), NEW k \in DOMAIN coef, NEW l \in DOMAIN coef, k < l
               PROVE  coef'[k].j < coef'[l].j \/ (coef'[k].j = coef'[l].j /\ coef'[k].i <= coef'[l].i)
    BY <1>6 DEF SortedJI, Ordered, Rows, Cols
  <2>1. coef[k].j < coef[l].j \/ (coef[k].j = coef[l].j /\ coef[k].i <= coef[l].i)
    BY DEF SortedJI, Ordered, Rows, Cols
  <2> QED BY <1>2, <1>5, <2>1
<1>14. ASSUME type_state = type_CSR
       PROVE  p' = Pointer(Rows(coef'), fortran', n, Len(coef'))
  <2>1. p = Pointer(Rows(coef), fortran, n, Len(coef))
    BY <1>14 DEF FormatIInv, Formatted
  <2>2. DOMAIN p = 0 .. n
    BY <2>1, PointerDomain
  <2>3. p' = Raised(p, s)
    <3>1. p' = [r \in DOMAIN p |-> IF r <= n THEN p[r] + s ELSE p[r]]
      BY <1>3, <1>14
    <3>2. \A r \in 0 .. n : r <= n
      BY <1>1
    <3> QED BY <2>2, <3>1, <3>2 DEF Raised
  <2>4. Shifted(Rows(coef), Rows(coef'), s, Len(coef))
    BY <1>4, <1>5, <1>6 DEF Rows, Shifted
  <2>5. Pointer(Rows(coef'), fortran + s, n, Len(coef))
          = Raised(Pointer(Rows(coef), fortran, n, Len(coef)), s)
    <3>1. fortran \in Int /\ s \in Int /\ n \in Nat /\ m \in Nat /\ Len(coef) \in Nat
      BY <1>1, <1>2, <1>4
    <3> QED BY <2>4, <3>1, PointerShift
  <2> QED BY <1>2, <1>6, <2>1, <2>3, <2>5
<1>15. ASSUME type_state = type_CSC
       PROVE  p' = Pointer(Cols(coef'), fortran', m, Len(coef'))
  <2>1. p = Pointer(Cols(coef), fortran, m, Len(coef))
    BY <1>15 DEF FormatIInv, Formatted
  <2>2. DOMAIN p = 0 .. m
    BY <2>1, PointerDomain
  <2>3. p' = Raised(p, s)
    <3>1. type_CSC # type_CSR
      BY DEF type_CSC, type_CSR
    <3>2. p' = [r \in DOMAIN p |-> IF r <= m THEN p[r] + s ELSE p[r]]
      BY <1>3, <1>15, <3>1
    <3>3. \A r \in 0 .. m : r <= m
      BY <1>1
    <3> QED BY <2>2, <3>2, <3>3 DEF Raised
  <2>4. Shifted(Cols(coef), Cols(coef'), s, Len(coef))
    BY <1>4, <1>5, <1>6 DEF Cols, Shifted
  <2>5. Pointer(Cols(coef'), fortran + s, m, Len(coef))
          = Raised(Pointer(Cols(coef), fortran, m, Len(coef)), s)
    <3>1. fortran \in Int /\ s \in Int /\ n \in Nat /\ m \in Nat /\ Len(coef) \in Nat
      BY <1>1, <1>2, <1>4
    <3> QED BY <2>4, <3>1, PointerShift
  <2> QED BY <1>2, <1>6, <2>1, <2>3, <2>5
<1>16. ColsFromZero(coef', fortran') = ColsFromZero(coef, fortran)
  <2>1. \A k \in DOMAIN coef : coef'[k].j - fortran' = coef[k].j - fortran
    BY <1>1, <1>2, <1>5
  <2> QED BY <1>6, <2>1 DEF ColsFromZero
<1>17. type_state = upper_ji => p' = p
  <2>1. upper_ji \notin {type_CSR, type_CSC}
    BY DEF upper_ji, type_CSR, type_CSC
  <2> QED BY <1>3, <2>1
<1> QED BY <1>3, <1>9, <1>11, <1>12, <1>13, <1>14, <1>15, <1>16, <1>17 DEF FormatIInv, Formatted

(* An increasing map of 1 .. N onto itself moves nothing. *)
LEMMA IncreasingOnto ==
  ASSUME NEW N \in Nat, NEW h \in [1 .. N -> 1 .. N],
         \A k, l \in 1 .. N : k < l => h[k] < h[l],
         \A l \in 1 .. N : \E k \in 1 .. N : h[k] = l
  PROVE  \A k \in 1 .. N : h[k] = k
<1> DEFINE S == {k \in 1 .. N : h[k] # k}
<1> SUFFICES ASSUME S # {}
             PROVE  FALSE
  OBVIOUS
<1>1. PICK k \in S : \A y \in S : k <= y
  <2>1. S \in SUBSET Nat
    OBVIOUS
  <2> HIDE DEF S
  <2> QED BY <2>1, NatMin
<1>2. k \in 1 .. N /\ h[k] \in 1 .. N /\ h[k] # k
  OBVIOUS
<1>3. \A l \in 1 .. N : l < k => h[l] = l
  BY <1>1
<1>4. k < h[k]
  <2>1. ~(h[k] < k)
    BY <1>2, <1>3
  <2> QED BY <1>2, <2>1
<1>5. PICK q \in 1 .. N : h[q] = k
  BY <1>2
<1>6. ~(q < k) /\ q # k
  BY <1>2, <1>3, <1>5
<1>7. h[k] < h[q]
  BY <1>2, <1>6
<1> QED BY <1>2, <1>4, <1>5, <1>7

(* A permutation keeps the number of upper terms. *)
LEMMA SameUpper ==
  ASSUME NEW c \in Seq(Term), NEW f \in Permutations1(c)
  PROVE  nnzUpper(Rearranged(c, f)) = nnzUpper(c)
<1> DEFINE S == {k \in DOMAIN c : IsUpper(Rearranged(c, f)[k])}
           T == {k \in DOMAIN c : IsUpper(c[k])}
           r == [k \in S |-> f[k]]
<1>1. /\ DOMAIN Rearranged(c, f) = DOMAIN c
      /\ \A k \in DOMAIN c : f[k] \in DOMAIN c /\ Rearranged(c, f)[k] = c[f[k]]
      /\ \A k, l \in DOMAIN c : k # l => f[k] # f[l]
  BY RearrangedType
<1>2. \A l \in DOMAIN c : \E k \in DOMAIN c : f[k] = l
  BY DEF Permutations1, Bijection, Surjection
<1>3. IsFiniteSet(S)
  BY PositionsFinite
<1>4. r \in [S -> T]
  BY <1>1
<1>5. \A l \in T : \E k \in S : r[k] = l
  BY <1>1, <1>2
<1>6. \A k, l \in S : k # l => r[k] # r[l]
  BY <1>1
<1> HIDE DEF r, S, T
<1>7. r \in Bijection(S, T)
  BY <1>4, <1>5, <1>6 DEF Bijection, Injection, Surjection, IsInjective
<1>8. ExistsBijection(S, T)
  BY <1>7 DEF ExistsBijection
<1>9. Cardinality(T) = Cardinality(S)
  BY <1>3, <1>8, FS_Bijection
<1> QED BY <1>1, <1>9 DEF nnzUpper, S, T

(* The upper terms, and all of them when there is none, have one order.    *)
LEMMA UpperUnique ==
  ASSUME NEW c \in Seq(Term), NEW h \in Permutations1(c), Distinct(c),
         UpperOrdered(c), UpperOrdered(Rearranged(c, h))
  PROVE  /\ Covered(Rearranged(c, h)) = Covered(c)
         /\ Covered(c) \in Nat
         /\ Covered(c) <= Len(c)
         /\ \A k \in 1 .. Covered(c) : Rearranged(c, h)[k] = c[k]
<1> DEFINE d == Rearranged(c, h)
           N == Covered(c)
           g == [k \in 1 .. N |-> h[k]]
<1>1. /\ d \in Seq(Term)
      /\ Len(d) = Len(c)
      /\ DOMAIN d = DOMAIN c
      /\ \A k \in DOMAIN c : h[k] \in DOMAIN c /\ d[k] = c[h[k]]
      /\ \A k, l \in DOMAIN c : k # l => h[k] # h[l]
  BY RearrangedType
<1>2. \A l \in DOMAIN c : \E k \in DOMAIN c : h[k] = l
  BY DEF Permutations1, Bijection, Surjection
<1>3. Len(c) \in Nat /\ DOMAIN c = 1 .. Len(c) /\ \A k \in DOMAIN c : c[k] \in Term
  BY SeqElim
<1>4. nnzUpper(d) = nnzUpper(c)
  BY SameUpper
<1>5. Covered(d) = N
  BY <1>1, <1>4 DEF Covered
<1> HIDE DEF d
<1>6. /\ nnzUpper(c) \in Nat /\ nnzUpper(c) <= Len(c)
      /\ {k \in DOMAIN c : IsUpper(c[k])} = 1 .. nnzUpper(c)
  BY UpperPrefix DEF UpperOrdered
<1>7. {k \in DOMAIN c : IsUpper(d[k])} = 1 .. nnzUpper(c)
  BY <1>1, <1>4, UpperPrefix DEF UpperOrdered, d
<1>8. N \in Nat /\ N <= Len(c) /\ 1 .. N \subseteq DOMAIN c
  BY <1>3, <1>6 DEF Covered
<1>9. /\ \A k \in 1 .. N : h[k] \in 1 .. N
      /\ \A l \in 1 .. N : \E k \in 1 .. N : h[k] = l
  <2>1. CASE nnzUpper(c) = 0
    BY <1>1, <1>2, <1>3, <2>1 DEF Covered
  <2>2. CASE nnzUpper(c) # 0
    <3>1. N = nnzUpper(c)
      BY <2>2 DEF Covered
    <3>2. \A k \in DOMAIN c : k \in 1 .. N <=> IsUpper(c[k])
      BY <1>6, <3>1
    <3>3. \A k \in DOMAIN c : k \in 1 .. N <=> IsUpper(d[k])
      BY <1>7, <3>1
    <3> HIDE DEF N
    <3> QED BY <1>1, <1>2, <1>8, <3>2, <3>3
  <2> QED BY <2>1, <2>2
<1>10. ASSUME NEW k \in 1 .. N, NEW l \in 1 .. N, k < l
       PROVE  h[k] < h[l]
  <2>1. h[k] \in 1 .. N /\ h[l] \in 1 .. N /\ k \in DOMAIN c /\ l \in DOMAIN c
        /\ h[k] \in DOMAIN c /\ h[l] \in DOMAIN c
    BY <1>8, <1>9
  <2>2. h[k] # h[l] /\ h[k] \in Int /\ h[l] \in Int
    BY <1>1, <1>3, <1>10, <2>1
  <2>3. ByColumn(d[k], d[l])
    BY <1>5, <1>10 DEF UpperOrdered, d
  <2>4. ByColumn(c[h[k]], c[h[l]])
    BY <1>1, <2>1, <2>3
  <2>5. ASSUME h[l] < h[k]
        PROVE  FALSE
    <3>1. ByColumn(c[h[l]], c[h[k]])
      BY <2>1, <2>5 DEF UpperOrdered
    <3>2. c[h[k]].i \in Int /\ c[h[k]].j \in Int /\ c[h[l]].i \in Int /\ c[h[l]].j \in Int
      BY <1>3, <2>1 DEF Term
    <3>3. c[h[k]].i = c[h[l]].i /\ c[h[k]].j = c[h[l]].j
      BY <2>4, <3>1, <3>2 DEF ByColumn
    <3> QED BY <2>1, <2>2, <3>3 DEF Distinct, Cell
  <2> QED BY <2>2, <2>5
<1> HIDE DEF N
<1>11. g \in [1 .. N -> 1 .. N]
  BY <1>9
<1>12. \A k, l \in 1 .. N : k < l => g[k] < g[l]
  BY <1>10
<1>13. \A l \in 1 .. N : \E k \in 1 .. N : g[k] = l
  BY <1>9
<1>14. \A k \in 1 .. N : g[k] = k
  <2> HIDE DEF g
  <2> QED BY <1>8, <1>11, <1>12, <1>13, IncreasingOnto
<1>15. \A k \in 1 .. N : d[k] = c[k]
  BY <1>1, <1>8, <1>14
<1> QED BY <1>5, <1>8, <1>15 DEF N, d

(* What CSC_U does to the terms: a permutation after which the upper ones  *)
(* are in front, in the order of the columns.                              *)
LEMMA UpperFormat ==
  ASSUME TypeOK, FormatIInv, CSC_U
  PROVE  /\ UpperOrdered(coef')
         /\ \E h \in Permutations1(coef) : coef' = Rearranged(coef, h)
<1>1. PICK f \in Permutations1(coef), g \in Permutations1(coef) :
        /\ SortedJI(Rearranged(coef, f))
        /\ UpperFirst(Rearranged(coef, f), g)
        /\ coef' = Rearranged(Rearranged(coef, f), g)
  <2> DEFINE id == [k \in DOMAIN coef |-> k]
  <2>1. id \in Permutations1(coef)
    BY DEF Permutations1, Bijection, Injection, Surjection, IsInjective
  <2>2. Rearranged(coef, id) = coef
    <3>1. coef = [k \in DOMAIN coef |-> coef[k]]
      BY CoefElim
    <3> QED BY <3>1 DEF Rearranged
  <2>3. CASE type_state = type_CSC
    <3>1. SortedJI(coef)
      BY <2>3 DEF FormatIInv, Formatted
    <3>2. PICK f \in {id}, g \in Permutations1(coef) :
             /\ UpperFirst(Rearranged(coef, f), g)
             /\ coef' = Rearranged(Rearranged(coef, f), g)
      BY <2>3 DEF CSC_U
    <3> QED BY <2>1, <2>2, <3>1, <3>2
  <2>4. CASE type_state # type_CSC
    BY <2>4 DEF CSC_U
  <2> QED BY <2>3, <2>4
<1> DEFINE b == Rearranged(coef, f)
<1>2. coef \in Seq(Term) /\ Len(coef) \in Nat /\ DOMAIN coef = 1 .. Len(coef)
  BY CoefElim
<1>3. b \in Seq(Term) /\ Len(b) = Len(coef) /\ DOMAIN b = DOMAIN coef
  BY <1>2, RearrangedType
<1>4. g \in Permutations1(b)
  BY <1>3 DEF Permutations1
<1> HIDE DEF b
<1>5. /\ coef' = Rearranged(b, g)
      /\ coef' \in Seq(Term) /\ Len(coef') = Len(b) /\ DOMAIN coef' = DOMAIN b
      /\ \A k \in DOMAIN b : g[k] \in DOMAIN b /\ coef'[k] = b[g[k]]
  BY <1>1, <1>3, <1>4, RearrangedType DEF b
<1>6. nnzUpper(coef') = nnzUpper(b)
  BY <1>3, <1>4, <1>5, SameUpper
<1>7. \A k, l \in DOMAIN b : k < l => ByColumn(b[k], b[l])
  BY <1>1 DEF b, SortedJI, Ordered, Rows, Cols, ByColumn
<1>8. InFront(coef')
  BY <1>1, <1>5 DEF InFront, UpperFirst, b
<1>9. /\ nnzUpper(coef') \in Nat /\ nnzUpper(coef') <= Len(coef')
      /\ {k \in DOMAIN coef' : IsUpper(coef'[k])} = 1 .. nnzUpper(coef')
  BY <1>5, <1>8, UpperPrefix
<1>10. ASSUME NEW k \in 1 .. Covered(coef'), NEW l \in 1 .. Covered(coef'), k < l
       PROVE  ByColumn(coef'[k], coef'[l])
  <2>1. CASE nnzUpper(coef') = 0
    <3>1. \A q \in DOMAIN b : g[q] = q
      BY <1>1, <1>6, <2>1 DEF UpperFirst, b
    <3>2. k \in DOMAIN b /\ l \in DOMAIN b
      BY <1>2, <1>3, <1>5, <2>1 DEF Covered
    <3> QED BY <1>5, <1>7, <1>10, <3>1, <3>2
  <2>2. CASE nnzUpper(coef') # 0
    <3>1. k \in DOMAIN b /\ l \in DOMAIN b /\ IsUpper(coef'[l])
      BY <1>5, <1>9, <2>2 DEF Covered
    <3>2. IsUpper(b[g[l]]) /\ g[k] \in DOMAIN b /\ g[l] \in DOMAIN b
      BY <1>5, <3>1
    <3>3. g[k] < g[l]
      BY <1>1, <1>10, <3>1, <3>2 DEF UpperFirst, b
    <3> QED BY <1>5, <1>7, <3>1, <3>2, <3>3
  <2> QED BY <2>1, <2>2
<1>11. \E h \in Permutations1(coef) : coef' = Rearranged(coef, h)
  BY UpperPermutes
<1> QED BY <1>8, <1>10, <1>11 DEF UpperOrdered

(* Asking for a format. *)
LEMMA FormatFormat ==
  ASSUME TypeOK, NoDuplicate, FormatIInv,
         COO \/ CSR \/ CSC \/ (fortran = 0 /\ CSC_U) \/ HM
  PROVE  FormatIInv'
<1>0. /\ sorted_ij # sorted_ji /\ sorted_ij # upper_ji /\ sorted_ji # upper_ji
      /\ type_HM \notin {type_CSR, type_CSC, upper_ji}
      /\ type_COO \notin {type_CSR, type_CSC, upper_ji}
      /\ type_CSR # type_CSC /\ type_CSR # upper_ji /\ type_CSC # upper_ji
  BY DEF sorted_ij, sorted_ji, upper_ji, type_HM, type_COO, type_CSR, type_CSC
<1>1. coef \in Seq(Term) /\ Len(coef) \in Nat /\ DOMAIN coef = 1 .. Len(coef)
  BY CoefElim
<1>2. ASSUME Sortij
      PROVE  SortedIJ(coef') /\ Len(coef') = Len(coef)
  <2>1. CASE state = sorted_ij
    BY <1>2, <2>1 DEF Sortij, FormatIInv, Formatted
  <2>2. CASE state # sorted_ij
    BY <1>1, <1>2, <2>2, RearrangedType DEF Sortij
  <2> QED BY <2>1, <2>2
<1>3. ASSUME Sortji
      PROVE  SortedJI(coef') /\ Len(coef') = Len(coef)
  <2>1. CASE state = sorted_ji
    BY <1>3, <2>1 DEF Sortji, FormatIInv, Formatted
  <2>2. CASE state # sorted_ji
    BY <1>1, <1>3, <2>2, RearrangedType DEF Sortji
  <2> QED BY <2>1, <2>2
<1>4. CASE COO
  BY <1>0, <1>2, <1>4 DEF COO, FormatIInv, Formatted
<1>5. CASE CSR
  <2>1. SortedIJ(coef') /\ Len(coef') = Len(coef) /\ state' = sorted_ij /\ type_state' = type_CSR
        /\ fortran' = fortran /\ n' = n
    BY <1>2, <1>5 DEF CSR, shape
  <2>2. p' = Pointer(Rows(coef'), fortran, n, Len(coef))
    <3>1. CASE type_state = type_CSR
      BY <1>5, <3>1 DEF CSR, Sortij, Buildp, FormatIInv, Formatted
    <3>2. CASE type_state # type_CSR
      BY <1>5, <3>2 DEF CSR, Buildp
    <3> QED BY <3>1, <3>2
  <2> QED BY <1>0, <2>1, <2>2 DEF FormatIInv, Formatted
<1>6. CASE CSC
  <2>1. SortedJI(coef') /\ Len(coef') = Len(coef) /\ state' = sorted_ji /\ type_state' = type_CSC
        /\ fortran' = fortran /\ m' = m
    BY <1>3, <1>6 DEF CSC, shape
  <2>2. p' = Pointer(Cols(coef'), fortran, m, Len(coef))
    <3>1. CASE type_state = type_CSC
      BY <1>6, <3>1 DEF CSC, Sortji, Buildp, FormatIInv, Formatted
    <3>2. CASE type_state # type_CSC
      BY <1>6, <3>2 DEF CSC, Buildp
    <3> QED BY <3>1, <3>2
  <2> QED BY <1>0, <2>1, <2>2 DEF FormatIInv, Formatted
<1>7. CASE fortran = 0 /\ CSC_U
  <2>1. PICK h \in Permutations1(coef) : coef' = Rearranged(coef, h)
    BY <1>7, UpperFormat
  <2>2. UpperOrdered(coef')
    BY <1>7, UpperFormat
  <2>3. state' = upper_ji /\ type_state' = upper_ji /\ fortran' = fortran /\ fortran = 0 /\ m' = m
    BY <1>7 DEF CSC_U, shape
  <2>4. coef' \in Seq(Term) /\ Len(coef') = Len(coef) /\ DOMAIN coef' = DOMAIN coef
    BY <1>1, <2>1, RearrangedType
  <2>5. nnzUpper(coef') = nnzUpper(coef)
    BY <1>1, <2>1, SameUpper
  <2>6. Covered(coef') = Covered(coef)
    BY <2>4, <2>5 DEF Covered
  <2>7. ColsFromZero(coef', 0) = Cols(coef')
    <3>1. \A k \in DOMAIN coef' : coef'[k] \in Term
      BY <2>4, SeqElim
    <3>2. \A k \in DOMAIN coef' : coef'[k].j - 0 = coef'[k].j
      BY <3>1 DEF Term
    <3> QED BY <3>2 DEF ColsFromZero, Cols
  <2>8. p' = IF type_state = upper_ji THEN p ELSE Pointer(Cols(coef'), 0, m, Covered(coef))
    BY <1>7, <2>3 DEF CSC_U, Buildp, Covered
  <2>9. CASE type_state = upper_ji
    <3>1. UpperOrdered(coef) /\ p = Pointer(ColsFromZero(coef, 0), 0, m, Covered(coef))
      BY <2>3, <2>9 DEF FormatIInv, Formatted
    <3>2. /\ Covered(coef) \in Nat /\ Covered(coef) <= Len(coef)
          /\ \A k \in 1 .. Covered(coef) : coef'[k] = coef[k]
      BY <1>1, <2>1, <2>2, <3>1, UpperUnique DEF NoDuplicate
    <3>3. \A k \in 1 .. Covered(coef) : ColsFromZero(coef', 0)[k] = ColsFromZero(coef, 0)[k]
      BY <1>1, <2>4, <3>2 DEF ColsFromZero
    <3>4. Pointer(ColsFromZero(coef', 0), 0, m, Covered(coef))
            = Pointer(ColsFromZero(coef, 0), 0, m, Covered(coef))
      BY <3>3, PointerSame
    <3> QED BY <1>0, <2>2, <2>3, <2>6, <2>8, <2>9, <3>1, <3>4 DEF FormatIInv, Formatted
  <2>10. CASE type_state # upper_ji
    BY <1>0, <2>2, <2>3, <2>6, <2>7, <2>8, <2>10 DEF FormatIInv, Formatted
  <2> QED BY <2>9, <2>10
<1>8. CASE HM
  BY <1>0, <1>8 DEF HM, FormatIInv, Formatted
<1> QED BY <1>4, <1>5, <1>6, <1>7, <1>8

(* No call leaves an order or a pointer that are not those of the terms. *)
LEMMA NextFormat ==
  ASSUME TransposeFrom \subseteq {type_HM, type_COO}, TableInv, FormatIInv, [Next]_vars
  PROVE  FormatIInv'
<1>1. TypeOK /\ NoDuplicate
  BY DEF TableInv
<1>2. CASE Values
  <2>1. /\ coef' \in [DOMAIN coef -> Term]
        /\ \A k \in DOMAIN coef : Cell(coef'[k]) = Cell(coef[k])
        /\ UNCHANGED <<shape, order>>
    BY <1>1, <1>2, ValuesCells
  <2> QED BY <1>1, <2>1, SameCellsFormat
<1>3. CASE GetReDo \/ UNCHANGED vars
  BY <1>3 DEF GetReDo, vars, shape, order, FormatIInv
<1>4. CASE COO \/ CSR \/ CSC \/ (fortran = 0 /\ CSC_U) \/ HM
  BY <1>1, <1>4, FormatFormat
<1> QED BY <1>1, <1>2, <1>3, <1>4, AccessFormat, ReshapeFormat, setfortranFormat DEF Next

(* A matrix whose transposes are of the default format or of COO (see      *)
(* TransposeFrom) is in the order and the format its flags name, and the   *)
(* pointer is that of its terms.                                           *)
THEOREM FormatCorrect ==
  ASSUME TransposeFrom \subseteq {type_HM, type_COO}
  PROVE  Spec => []FormatInv
<1>1. Init => FormatIInv
  <2> SUFFICES ASSUME Init
               PROVE  FormatIInv
    OBVIOUS
  <2>1. state = unsorted /\ type_state = type_HM
    BY DEF Init
  <2>2. unsorted \notin {sorted_ij, sorted_ji, upper_ji}
        /\ type_HM \notin {type_CSR, type_CSC, upper_ji}
    BY DEF unsorted, sorted_ij, sorted_ji, upper_ji, type_HM, type_CSR, type_CSC
  <2> QED BY <2>1, <2>2 DEF FormatIInv, Formatted
<1>2. TableInv /\ FormatIInv /\ [Next]_vars => FormatIInv'
  BY NextFormat
<1>3. TableInv /\ FormatIInv => FormatInv
  BY FormatIInvSays DEF TableInv
<1> QED BY <1>1, <1>2, <1>3, TableCorrect, PTL DEF Spec

-----------------------------------------------------------------------------
(* The map the terms stand for. *)

(* The cell of a term, in indices that start at 0. *)
Place(t, f) == <<t.i - f, t.j - f>>

(* g is the map of the terms c, whose indices start at f. *)
Maps(c, f, g) ==
  /\ g = [d \in DOMAIN g |-> g[d]]
  /\ DOMAIN g = {Place(c[k], f) : k \in DOMAIN c}
  /\ \A k \in DOMAIN c : g[Place(c[k], f)] = c[k].a

(* find() finds what is stored. *)
LEMMA Found ==
  ASSUME TableInv, NEW k \in DOMAIN coef
  PROVE  find(coef[k].i, coef[k].j) = k
<1> DEFINE ii == coef[k].i
           jj == coef[k].j
<1>1. n \in Int /\ fortran \in Int /\ nhash \in Nat \ {0} /\ TypeOK /\ ii \in Int /\ jj \in Int
      /\ k \in 1 .. Len(coef) /\ DOMAIN coef = 1 .. Len(coef)
  BY CoefElim, ConstantsAssumption DEF TypeOK, ShapeOK, TableOK, TableInv, Term
<1>2. hash(ii, jj, fortran, n, nhash) \in 0 .. nhash - 1
  BY <1>1, HashRange
<1>3. k \in head[hash(ii, jj, fortran, n, nhash)]
  BY <1>1, <1>2 DEF HashInv, ReHash, TableInv
<1>4. k \in Matches(ii, jj)
  BY <1>3 DEF Matches, Cell
<1>5. Matches(ii, jj) = {k}
  <2>1. Matches(ii, jj) \in SUBSET DOMAIN coef
    BY <1>1, <1>2 DEF Matches, TypeOK, TableOK
  <2>2. \A l \in Matches(ii, jj) : Cell(coef[l]) = Cell(coef[k])
    BY DEF Matches, Cell
  <2> QED BY <1>4, <2>1, <2>2 DEF TableInv, NoDuplicate, Distinct
<1>6. Greatest({k}) = k
  <2>1. {k} \in SUBSET (1 .. Len(coef)) /\ {k} # {} /\ Len(coef) \in Nat
    BY <1>1, CoefElim
  <2> QED BY <2>1, GreatestIn
<1> QED BY <1>5, <1>6 DEF find

(* What find() shows is the map of the terms. *)
LEMMA ContentMaps == TableInv => Maps(coef, fortran, Content)
<1> SUFFICES ASSUME TableInv
             PROVE  Maps(coef, fortran, Content)
  OBVIOUS
<1> DEFINE At(c)  == find(c[1] + fortran, c[2] + fortran)
           stored == {c \in (0 .. n - 1) \X (0 .. m - 1) : At(c) # 0}
           places == {Place(coef[k], fortran) : k \in DOMAIN coef}
<1>1. /\ n \in Nat /\ m \in Nat /\ fortran \in Int /\ TypeOK
      /\ \A k \in DOMAIN coef : /\ coef[k].i \in fortran .. fortran + n - 1
                                /\ coef[k].j \in fortran .. fortran + m - 1
                                /\ k \in Nat /\ k # 0
  BY CoefElim, ConstantsAssumption DEF TypeOK, ShapeOK, TableInv
<1>2. Content = [c \in stored |-> coef[At(c)].a]
  BY DEF Content
<1>3. ASSUME NEW k \in DOMAIN coef
      PROVE  Place(coef[k], fortran) \in stored /\ At(Place(coef[k], fortran)) = k
  <2>1. Place(coef[k], fortran) \in (0 .. n - 1) \X (0 .. m - 1)
    BY <1>1 DEF Place
  <2>2. At(Place(coef[k], fortran)) = find(coef[k].i, coef[k].j)
    <3>1. Place(coef[k], fortran)[1] + fortran = coef[k].i /\ Place(coef[k], fortran)[2] + fortran = coef[k].j
      BY <1>1 DEF Place
    <3> QED BY <3>1
  <2>3. At(Place(coef[k], fortran)) = k
    BY <2>2, Found
  <2> QED BY <1>1, <2>1, <2>3
<1>4. ASSUME NEW c \in stored
      PROVE  c \in places
  <2>1. c[1] + fortran \in Int /\ c[2] + fortran \in Int /\ c = <<c[1], c[2]>> /\ c[1] \in Int /\ c[2] \in Int
    BY <1>1
  <2>2. At(c) \in DOMAIN coef /\ At(c) \in Matches(c[1] + fortran, c[2] + fortran)
    BY <1>1, <2>1, FindRange
  <2>3. Cell(coef[At(c)]) = <<c[1] + fortran, c[2] + fortran>>
    BY <2>2 DEF Matches
  <2>4. coef[At(c)].i - fortran = c[1] /\ coef[At(c)].j - fortran = c[2]
    BY <1>1, <2>1, <2>3 DEF Cell
  <2> QED BY <2>1, <2>2, <2>4 DEF Place
<1> HIDE DEF At, stored
<1>5. DOMAIN Content = places
  BY <1>2, <1>3, <1>4
<1>6. \A k \in DOMAIN coef : Content[Place(coef[k], fortran)] = coef[k].a
  BY <1>2, <1>3
<1>7. Content = [c \in DOMAIN Content |-> Content[c]]
  BY <1>2
<1> QED BY <1>5, <1>6, <1>7 DEF Maps

(* The same of the next state. *)
LEMMA NewContentMaps == TableInv' => Maps(coef', fortran', Content')
<1>1. (TableInv => Maps(coef, fortran, Content))'
  BY ContentMaps, PTL
<1> QED BY <1>1

(* Two lists of the same cells with the same values are the same map. *)
LEMMA SameMaps ==
  ASSUME NEW c, NEW f, NEW g, NEW d, NEW e, NEW h, Maps(c, f, g), Maps(d, e, h),
         \A k \in DOMAIN d : \E l \in DOMAIN c : Place(d[k], e) = Place(c[l], f) /\ d[k].a = c[l].a,
         \A l \in DOMAIN c : \E k \in DOMAIN d : Place(d[k], e) = Place(c[l], f)
  PROVE  h = g
<1>1. DOMAIN h = DOMAIN g
  BY DEF Maps
<1>2. \A x \in DOMAIN h : h[x] = g[x]
  <2> SUFFICES ASSUME NEW k \in DOMAIN d
               PROVE  h[Place(d[k], e)] = g[Place(d[k], e)]
    BY DEF Maps
  <2>1. PICK l \in DOMAIN c : Place(d[k], e) = Place(c[l], f) /\ d[k].a = c[l].a
    OBVIOUS
  <2> QED BY <2>1 DEF Maps
<1>3. h = [x \in DOMAIN h |-> h[x]] /\ g = [x \in DOMAIN g |-> g[x]]
  BY DEF Maps
<1> QED BY <1>1, <1>2, <1>3

(* Terms that stay, moved and in another base perhaps, leave the map.      *)
LEMMA SameContent ==
  ASSUME TableInv, TableInv',
         \A k \in DOMAIN coef' : \E l \in DOMAIN coef :
            Place(coef'[k], fortran') = Place(coef[l], fortran) /\ coef'[k].a = coef[l].a,
         \A l \in DOMAIN coef : \E k \in DOMAIN coef' :
            Place(coef'[k], fortran') = Place(coef[l], fortran)
  PROVE  Content' = Content
<1>1. Maps(coef, fortran, Content) /\ Maps(coef', fortran', Content')
  BY ContentMaps, NewContentMaps
<1> QED BY <1>1, SameMaps

(* A sort moves terms only. *)
LEMMA RearrangedContent ==
  ASSUME TableInv, TableInv', NEW f \in Permutations1(coef), coef' = Rearranged(coef, f),
         fortran' = fortran
  PROVE  Content' = Content
<1>1. /\ coef' = [k \in DOMAIN coef |-> coef[f[k]]]
      /\ \A k \in DOMAIN coef : f[k] \in DOMAIN coef
      /\ \A l \in DOMAIN coef : \E k \in DOMAIN coef : f[k] = l
  BY DEF Rearranged, Permutations1, Bijection, Injection, Surjection
<1>2. DOMAIN coef' = DOMAIN coef /\ \A k \in DOMAIN coef : coef'[k] = coef[f[k]]
  BY <1>1
<1>3. \A k \in DOMAIN coef' : \E l \in DOMAIN coef :
            Place(coef'[k], fortran') = Place(coef[l], fortran) /\ coef'[k].a = coef[l].a
  BY <1>1, <1>2
<1>4. \A l \in DOMAIN coef : \E k \in DOMAIN coef' :
            Place(coef'[k], fortran') = Place(coef[l], fortran)
  BY <1>1, <1>2
<1> QED BY <1>3, <1>4, SameContent

(* What has no part in find() does not change the map. *)
LEMMA UnchangedContent ==
  ASSUME TableInv, TableInv', coef' = coef, fortran' = fortran
  PROVE  Content' = Content
<1>1. \A k \in DOMAIN coef' : \E l \in DOMAIN coef :
            Place(coef'[k], fortran') = Place(coef[l], fortran) /\ coef'[k].a = coef[l].a
  OBVIOUS
<1>2. \A l \in DOMAIN coef : \E k \in DOMAIN coef' :
            Place(coef'[k], fortran') = Place(coef[l], fortran)
  OBVIOUS
<1> QED BY <1>1, <1>2, SameContent

(* The formats do not change the map. *)
LEMMA FormatContent ==
  ASSUME TableInv, TableInv', COO \/ CSR \/ CSC \/ CSC_U \/ HM
  PROVE  Content' = Content /\ n' = n /\ m' = m
<1>1. CASE UNCHANGED coef /\ UNCHANGED shape
  BY <1>1, UnchangedContent DEF shape
<1>2. CASE (\E f \in Permutations1(coef) : coef' = Rearranged(coef, f)) /\ UNCHANGED shape
  BY <1>2, RearrangedContent DEF shape
<1>3. CASE COO \/ CSR
  BY <1>1, <1>2, <1>3 DEF COO, CSR, Sortij
<1>4. CASE CSC
  BY <1>1, <1>2, <1>4 DEF CSC, Sortji
<1>5. CASE CSC_U
  <2>1. UNCHANGED shape
    BY <1>5 DEF CSC_U
  <2> QED BY <1>2, <1>5, <2>1, UpperPermutes
<1>6. CASE HM
  BY <1>1, <1>6 DEF HM
<1> QED BY <1>3, <1>4, <1>5, <1>6

(* Neither does a change of base. *)
LEMMA setfortranContent ==
  ASSUME TableInv, TableInv', NEW yes \in {0, 1}, setfortran(yes)
  PROVE  Content' = Content /\ n' = n /\ m' = m
<1> DEFINE shift == yes - fortran
<1>1. fortran \in Int /\ yes \in Int /\ fortran' = yes /\ shift \in Int /\ fortran' = fortran + shift
  <2>1. fortran \in Int /\ yes \in Int
    BY DEF TableInv, TypeOK, ShapeOK
  <2>2. fortran' = yes
    BY DEF setfortran
  <2> QED BY <2>1, <2>2
<1>2. coef' = [k \in DOMAIN coef |-> [coef[k] EXCEPT !.i = @ + shift, !.j = @ + shift]]
  BY DEF setfortran
<1> HIDE DEF shift
<1>3. \A k \in DOMAIN coef : coef[k] \in Term
  BY CoefElim DEF TableInv
<1>4. DOMAIN coef' = DOMAIN coef
  BY <1>2
<1>5. ASSUME NEW k \in DOMAIN coef
      PROVE  Place(coef'[k], fortran') = Place(coef[k], fortran) /\ coef'[k].a = coef[k].a
  <2>1. coef[k].i \in Int /\ coef[k].j \in Int /\ coef'[k].i = coef[k].i + shift
        /\ coef'[k].j = coef[k].j + shift /\ coef'[k].a = coef[k].a
    BY <1>2, <1>3 DEF Term
  <2>2. coef'[k].i - fortran' = coef[k].i - fortran /\ coef'[k].j - fortran' = coef[k].j - fortran
    BY <1>1, <2>1
  <2> QED BY <2>1, <2>2 DEF Place
<1>6. Content' = Content
  BY <1>4, <1>5, SameContent
<1> QED BY <1>6 DEF setfortran

(* In base 0 the place of a term is its cell. *)
LEMMA PlaceIsCell ==
  ASSUME TypeOK
  PROVE  \A k \in DOMAIN coef : Place(coef[k], 0) = Cell(coef[k])
<1> SUFFICES ASSUME NEW k \in DOMAIN coef
             PROVE  Place(coef[k], 0) = Cell(coef[k])
  OBVIOUS
<1>1. coef[k].i \in Int /\ coef[k].j \in Int
  BY CoefElim DEF Term
<1>2. coef[k].i - 0 = coef[k].i /\ coef[k].j - 0 = coef[k].j
  BY <1>1
<1> QED BY <1>2 DEF Place, Cell

(* The map in base 0. *)
LEMMA ContentOfCells ==
  ASSUME TableInv, fortran = 0
  PROVE  /\ Content = [d \in DOMAIN Content |-> Content[d]]
         /\ DOMAIN Content = {Cell(coef[k]) : k \in DOMAIN coef}
         /\ \A k \in DOMAIN coef : Content[Cell(coef[k])] = coef[k].a
<1>1. Maps(coef, 0, Content) /\ TypeOK
  BY ContentMaps DEF TableInv
<1>2. \A k \in DOMAIN coef : Place(coef[k], 0) = Cell(coef[k])
  BY <1>1, PlaceIsCell
<1> QED BY <1>1, <1>2 DEF Maps

(* The map in base 0. *)
LEMMA ContentInBaseZero ==
  TableInv /\ fortran = 0 =>
    /\ Content = [d \in DOMAIN Content |-> Content[d]]
    /\ DOMAIN Content = {Cell(coef[k]) : k \in DOMAIN coef}
    /\ \A k \in DOMAIN coef : Content[Cell(coef[k])] = coef[k].a
BY ContentOfCells

LEMMA NewContentInBaseZero ==
  TableInv' /\ fortran' = 0 =>
    /\ Content' = [d \in DOMAIN Content' |-> Content'[d]]
    /\ DOMAIN Content' = {Cell(coef'[k]) : k \in DOMAIN coef'}
    /\ \A k \in DOMAIN coef' : Content'[Cell(coef'[k])] = coef'[k].a
<1>1. (TableInv /\ fortran = 0 =>
         /\ Content = [d \in DOMAIN Content |-> Content[d]]
         /\ DOMAIN Content = {Cell(coef[k]) : k \in DOMAIN coef}
         /\ \A k \in DOMAIN coef : Content[Cell(coef[k])] = coef[k].a)'
  BY ContentInBaseZero, PTL
<1> QED BY <1>1

(* A write gives one cell a value. *)
LEMMA npijContent ==
  ASSUME TableInv, TableInv', fortran = 0, NEW ii, NEW jj, <<ii, jj>> \in Cells,
         NEW v \in Vals, npij(ii, jj, v)
  PROVE  Abstract!Put(<<ii, jj>>)
<1> DEFINE c == <<ii, jj>>
<1>1. TypeOK /\ HashInv /\ ii \in Int /\ jj \in Int
  BY ConstantsAssumption DEF TableInv, TypeOK, ShapeOK, Cells
<1>2. UNCHANGED <<n, m, fortran>>
  BY DEF npij, simpleinsert, WriteAt, shape
<1>3. /\ DOMAIN Content = {Cell(coef[k]) : k \in DOMAIN coef}
      /\ \A k \in DOMAIN coef : Content[Cell(coef[k])] = coef[k].a
  BY ContentInBaseZero
<1>4. /\ DOMAIN Content' = {Cell(coef'[k]) : k \in DOMAIN coef'}
      /\ \A k \in DOMAIN coef' : Content'[Cell(coef'[k])] = coef'[k].a
  BY <1>2, NewContentInBaseZero
<1>5. PICK q \in DOMAIN coef' :
        /\ Cell(coef'[q]) = c
        /\ coef'[q].a = v
        /\ DOMAIN coef' = DOMAIN coef \cup {q}
        /\ \A k \in DOMAIN coef \ {q} : coef'[k] = coef[k]
        /\ q \in DOMAIN coef => Cell(coef[q]) = c
  <2>1. CASE find(ii, jj) = 0
    <3>1. simpleinsert(ii, jj, v)
      BY <2>1 DEF npij
    <3>2. [i |-> ii, j |-> jj, a |-> v] \in Term
      BY <1>1 DEF Term
    <3>3. coef \in Seq(Term) /\ Len(coef) \in Nat /\ DOMAIN coef = 1 .. Len(coef)
      BY <1>1, CoefElim
    <3>4. /\ coef' \in Seq(Term)
          /\ Len(coef') = Len(coef) + 1
          /\ \A k \in 1 .. Len(coef) : coef'[k] = coef[k]
          /\ coef'[Len(coef) + 1] = [i |-> ii, j |-> jj, a |-> v]
      BY <3>1, <3>2, <3>3, AppendProperties DEF simpleinsert
    <3>5. DOMAIN coef' = 1 .. Len(coef) + 1
      BY <3>4, SeqElim
    <3>6. DOMAIN coef' = DOMAIN coef \cup {Len(coef) + 1} /\ Len(coef) + 1 \in DOMAIN coef'
          /\ Len(coef) + 1 \notin DOMAIN coef
      BY <3>3, <3>5
    <3>7. Cell(coef'[Len(coef) + 1]) = c /\ coef'[Len(coef) + 1].a = v
      BY <3>4 DEF Cell
    <3> QED BY <3>3, <3>4, <3>6, <3>7
  <2>2. CASE find(ii, jj) # 0
    <3> DEFINE q == find(ii, jj)
    <3>1. q \in DOMAIN coef /\ q \in Matches(ii, jj) /\ WriteAt(q, v)
      BY <1>1, <2>2, FindRange DEF npij
    <3>2. Cell(coef[q]) = c
      BY <3>1 DEF Matches
    <3>3. coef' = [coef EXCEPT ![q].a = v] /\ coef[q] \in Term
      BY <1>1, <3>1, CoefElim DEF WriteAt
    <3> HIDE DEF q
    <3>4. coef'[q] = [coef[q] EXCEPT !.a = v] /\ DOMAIN coef' = DOMAIN coef
          /\ \A k \in DOMAIN coef \ {q} : coef'[k] = coef[k]
      BY <3>1, <3>3
    <3>5. Cell(coef'[q]) = Cell(coef[q]) /\ coef'[q].a = v
      BY <3>3, <3>4 DEF Term, Cell
    <3> QED BY <3>1, <3>2, <3>4, <3>5
  <2> QED BY <2>1, <2>2
<1>6. DOMAIN Content' = DOMAIN Content \cup {c}
  BY <1>3, <1>4, <1>5
<1>7. Content'[c] \in Vals
  BY <1>4, <1>5
<1>8. ASSUME NEW d \in DOMAIN Content \ {c}
      PROVE  Content'[d] = Content[d]
  <2>1. PICK k \in DOMAIN coef : d = Cell(coef[k])
    BY <1>3
  <2>2. k # q /\ k \in DOMAIN coef' /\ coef'[k] = coef[k]
    BY <1>5, <1>8, <2>1
  <2> QED BY <1>3, <1>4, <2>1, <2>2
<1> QED BY <1>2, <1>6, <1>7, <1>8 DEF Abstract!Put

(* The calls on one cell. *)
LEMMA AccessContent ==
  ASSUME TableInv, TableInv', fortran = 0, Access
  PROVE  \/ \E c \in Abstract!Cells : Abstract!Put(c)
         \/ n' = n /\ m' = m /\ Content' = Content
<1>1. PICK ii \in 0 .. n - 1, jj \in 0 .. m - 1, v \in Vals :
        npij(ii, jj, v) \/ Accumulate(ii, jj, v) \/ pij(ii, jj, v)
  BY DEF Access
<1>2. <<ii, jj>> \in Cells /\ ii \in Int /\ jj \in Int /\ <<ii, jj>> \in Abstract!Cells
  BY DEF TableInv, TypeOK, ShapeOK, Cells, Abstract!Cells
<1>3. CASE npij(ii, jj, v)
  BY <1>2, <1>3, npijContent
<1>4. CASE Accumulate(ii, jj, v)
  BY <1>2, <1>4, npijContent DEF Accumulate
<1>5. CASE pij(ii, jj, v)
  <2>1. CASE find(ii, jj) # 0 /\ WriteAt(find(ii, jj), v)
    BY <1>2, <2>1, npijContent DEF npij
  <2>2. CASE UNCHANGED <<shape, coef, table, order, re_do_symbolic>>
    BY <2>2, UnchangedContent DEF shape
  <2> QED BY <1>5, <2>1, <2>2 DEF pij
<1> QED BY <1>1, <1>3, <1>4, <1>5

(* New values for the stored cells. *)
LEMMA ValuesContent ==
  ASSUME TableInv, TableInv', fortran = 0, Values
  PROVE  Abstract!Revalue
<1>1. /\ coef' \in [DOMAIN coef -> Term]
      /\ \A k \in DOMAIN coef : Cell(coef'[k]) = Cell(coef[k])
      /\ UNCHANGED <<n, m, fortran>>
  BY ValuesCells DEF TableInv, shape
<1>2. DOMAIN Content = {Cell(coef[k]) : k \in DOMAIN coef}
  BY ContentInBaseZero
<1>3. /\ Content' = [d \in DOMAIN Content' |-> Content'[d]]
      /\ DOMAIN Content' = {Cell(coef'[k]) : k \in DOMAIN coef'}
      /\ \A k \in DOMAIN coef' : Content'[Cell(coef'[k])] = coef'[k].a
  BY <1>1, NewContentInBaseZero
<1>4. DOMAIN coef' = DOMAIN coef /\ \A k \in DOMAIN coef : coef'[k].a \in Vals
  BY <1>1 DEF Term
<1>5. DOMAIN Content' = DOMAIN Content
  BY <1>1, <1>2, <1>3, <1>4
<1>6. \A d \in DOMAIN Content' : Content'[d] \in Vals
  BY <1>3, <1>4
<1>7. Content' \in [DOMAIN Content -> Vals]
  BY <1>3, <1>5, <1>6
<1> QED BY <1>1, <1>7 DEF Abstract!Revalue

(* The positions that are kept are all taken. *)
LEMMA PackedTakesAll ==
  ASSUME NEW R, NEW c \in Seq(R), NEW S \in SUBSET DOMAIN c, NEW f \in Increasing(S)
  PROVE  /\ DOMAIN Packed(c, f) = DOMAIN f
         /\ \A k \in DOMAIN f : f[k] \in S /\ Packed(c, f)[k] = c[f[k]]
         /\ \A q \in S : \E k \in DOMAIN f : f[k] = q
<1>1. /\ DOMAIN Packed(c, f) = DOMAIN f
      /\ \A k \in DOMAIN f : f[k] \in S /\ Packed(c, f)[k] = c[f[k]]
      /\ \A k, l \in DOMAIN f : k # l => f[k] # f[l]
  BY PackedType
<1>2. IsFiniteSet(S) /\ Cardinality(S) \in Nat
  BY PositionsFinite
<1>3. f \in [1 .. Cardinality(S) -> S] /\ DOMAIN f = 1 .. Cardinality(S)
  BY DEF Increasing
<1>4. Cardinality(1 .. Cardinality(S)) = Cardinality(S)
  <2>1. \A x \in Int : Cardinality(1 .. x) = IF 1 > x THEN 0 ELSE x - 1 + 1
    BY FS_Interval
  <2> QED BY <1>2, <2>1
<1>5. f \in Injection(1 .. Cardinality(S), S)
  BY <1>1, <1>3 DEF Injection, IsInjective
<1>6. f \in Surjection(1 .. Cardinality(S), S)
  BY <1>2, <1>4, <1>5, FS_Injection
<1>7. \A q \in S : \E k \in DOMAIN f : f[k] = q
  BY <1>3, <1>6 DEF Surjection
<1> QED BY <1>1, <1>7

(* Keeping some terms keeps the map on their cells. *)
LEMMA PackedContent ==
  ASSUME TableInv, TableInv', fortran = 0, fortran' = 0, NEW S \in SUBSET DOMAIN coef,
         NEW f \in Increasing(S), coef' = Packed(coef, f)
  PROVE  Content' = [c \in {Cell(coef[k]) : k \in S} |-> Content[c]]
<1>1. coef \in Seq(Term)
  BY CoefElim DEF TableInv
<1>2. /\ DOMAIN coef' = DOMAIN f
      /\ \A k \in DOMAIN f : f[k] \in S /\ coef'[k] = coef[f[k]]
      /\ \A q \in S : \E k \in DOMAIN f : f[k] = q
  BY <1>1, PackedTakesAll
<1>3. \A k \in DOMAIN coef : Content[Cell(coef[k])] = coef[k].a
  BY ContentInBaseZero
<1>4. /\ Content' = [d \in DOMAIN Content' |-> Content'[d]]
      /\ DOMAIN Content' = {Cell(coef'[k]) : k \in DOMAIN coef'}
      /\ \A k \in DOMAIN coef' : Content'[Cell(coef'[k])] = coef'[k].a
  BY NewContentInBaseZero
<1>5. DOMAIN Content' = {Cell(coef[k]) : k \in S}
  <2>1. ASSUME NEW k \in DOMAIN coef'
        PROVE  Cell(coef'[k]) \in {Cell(coef[q]) : q \in S}
    BY <1>2
  <2>2. ASSUME NEW q \in S
        PROVE  Cell(coef[q]) \in {Cell(coef'[k]) : k \in DOMAIN coef'}
    BY <1>2
  <2> QED BY <1>4, <2>1, <2>2
<1>6. \A k \in DOMAIN coef' : Content'[Cell(coef'[k])] = Content[Cell(coef'[k])]
  BY <1>2, <1>3, <1>4
<1>7. \A d \in DOMAIN Content' : Content'[d] = Content[d]
  BY <1>4, <1>6
<1> QED BY <1>4, <1>5, <1>7

(* Larger(x,-x) > tol is |x| > tol. *)
LEMMA AboveThreshold ==
  ASSUME NEW x \in Int, NEW tol \in Int
  PROVE  Larger(x, -x) > tol <=> x > tol \/ -x > tol
BY DEF Larger

(* What resize and RemoveHalf keep. *)
LEMMA KeptCells ==
  ASSUME TableInv, fortran = 0, NEW nn \in Int, NEW mm \in Int, NEW tol \in Int,
         NEW sym \in {0, 1}
  PROVE  {Cell(coef[k]) : k \in Kept(nn, mm, tol, sym)}
           = {c \in DOMAIN Content : /\ c[1] < nn
                                     /\ c[2] < mm
                                     /\ Content[c] > tol \/ -Content[c] > tol
                                     /\ sym = 1 => c[2] <= c[1]}
<1>1. /\ DOMAIN Content = {Cell(coef[k]) : k \in DOMAIN coef}
      /\ \A k \in DOMAIN coef : Content[Cell(coef[k])] = coef[k].a
  BY ContentInBaseZero
<1>2. \A k \in DOMAIN coef : coef[k].a \in Int /\ Cell(coef[k])[1] = coef[k].i
                             /\ Cell(coef[k])[2] = coef[k].j
  BY CoefElim, ConstantsAssumption DEF TableInv, Term, Cell
<1>3. \A k \in DOMAIN coef : Larger(coef[k].a, -coef[k].a) > tol
                               <=> coef[k].a > tol \/ -coef[k].a > tol
  BY <1>2, AboveThreshold
<1> QED BY <1>1, <1>2, <1>3 DEF Kept

LEMMA TriangleCells ==
  ASSUME TableInv, fortran = 0, NEW cas \in Int, NEW tol \in Int
  PROVE  {Cell(coef[k]) : k \in Triangle(cas, tol)}
           = {c \in DOMAIN Content : /\ c[1] < n
                                     /\ c[2] < m
                                     /\ Content[c] > tol \/ -Content[c] > tol
                                     /\ IF cas <= 0 THEN c[1] <= c[2] ELSE c[2] <= c[1]}
<1>1. /\ DOMAIN Content = {Cell(coef[k]) : k \in DOMAIN coef}
      /\ \A k \in DOMAIN coef : Content[Cell(coef[k])] = coef[k].a
  BY ContentInBaseZero
<1>2. ASSUME NEW k \in DOMAIN coef
      PROVE  /\ coef[k].a \in Int
             /\ Cell(coef[k])[1] = coef[k].i /\ Cell(coef[k])[2] = coef[k].j
             /\ coef[k].i < n /\ coef[k].j < m
  <2>1. n \in Int /\ m \in Int /\ TypeOK
    BY ConstantsAssumption DEF TableInv, TypeOK, ShapeOK
  <2>2. coef[k] \in Term /\ coef[k].i \in 0 .. 0 + n - 1 /\ coef[k].j \in 0 .. 0 + m - 1
    BY <2>1, CoefElim
  <2>3. coef[k].i < n /\ coef[k].j < m
    BY <2>1, <2>2
  <2>4. coef[k].a \in Int
    BY <2>2, ConstantsAssumption DEF Term
  <2> QED BY <2>3, <2>4 DEF Cell
<1>3. \A k \in DOMAIN coef : Larger(coef[k].a, -coef[k].a) > tol
                               <=> coef[k].a > tol \/ -coef[k].a > tol
  BY <1>2, AboveThreshold
<1> QED BY <1>1, <1>2, <1>3 DEF Triangle

LEMMA resizeContent ==
  ASSUME TableInv, TableInv', fortran = 0, NEW nn \in 1 .. MaxDim, NEW mm \in 1 .. MaxDim,
         NEW nnnz, NEW tol \in {-1, 0}, NEW sym \in {0, 1}, resize(nn, mm, nnnz, tol, sym)
  PROVE  Abstract!Next
<1>1. n' = nn /\ m' = mm /\ fortran' = 0 /\ nn \in Int /\ mm \in Int /\ tol \in Int
  BY ConstantsAssumption DEF resize
<1>2. PICK f \in Increasing(Kept(nn, mm, tol, sym)) : coef' = Packed(coef, f)
  BY DEF resize
<1>3. Kept(nn, mm, tol, sym) \in SUBSET DOMAIN coef
  BY DEF Kept
<1>4. Content' = [c \in {c \in DOMAIN Content :
                           /\ c[1] < nn
                           /\ c[2] < mm
                           /\ Content[c] > tol \/ -Content[c] > tol
                           /\ sym = 1 => c[2] <= c[1]} |-> Content[c]]
  <2>1. Content' = [c \in {Cell(coef[k]) : k \in Kept(nn, mm, tol, sym)} |-> Content[c]]
    BY <1>1, <1>2, <1>3, PackedContent
  <2>2. {Cell(coef[k]) : k \in Kept(nn, mm, tol, sym)}
          = {c \in DOMAIN Content : /\ c[1] < nn
                                    /\ c[2] < mm
                                    /\ Content[c] > tol \/ -Content[c] > tol
                                    /\ sym = 1 => c[2] <= c[1]}
    BY <1>1, KeptCells
  <2> QED BY <2>1, <2>2
<1>5. CASE sym = 1
  <2>1. Abstract!Restrict(nn, mm, tol, LAMBDA c : c[2] <= c[1])
    BY <1>1, <1>4, <1>5 DEF Abstract!Restrict
  <2> QED BY <2>1 DEF Abstract!Next, Abstract!Restrict
<1>6. CASE sym = 0
  <2>1. Abstract!Restrict(nn, mm, tol, LAMBDA c : TRUE)
    BY <1>1, <1>4, <1>6 DEF Abstract!Restrict
  <2> QED BY <2>1 DEF Abstract!Next, Abstract!Restrict
<1> QED BY <1>5, <1>6

LEMMA RemoveHalfContent ==
  ASSUME TableInv, TableInv', fortran = 0, NEW cas \in {-1, 0, 1}, NEW tol \in {-1, 0},
         RemoveHalf(cas, tol)
  PROVE  Abstract!Next
<1>1. n' = n /\ m' = m /\ fortran' = 0 /\ n \in 1 .. MaxDim /\ m \in 1 .. MaxDim
  BY DEF RemoveHalf, TableInv, TypeOK, ShapeOK
<1>2. PICK f \in Increasing(Triangle(cas, tol)) : coef' = Packed(coef, f)
  BY DEF RemoveHalf
<1>3. Triangle(cas, tol) \in SUBSET DOMAIN coef /\ cas \in Int /\ tol \in Int
  BY DEF Triangle
<1>4. Content' = [c \in {c \in DOMAIN Content :
                           /\ c[1] < n
                           /\ c[2] < m
                           /\ Content[c] > tol \/ -Content[c] > tol
                           /\ IF cas <= 0 THEN c[1] <= c[2] ELSE c[2] <= c[1]} |-> Content[c]]
  BY <1>1, <1>2, <1>3, PackedContent, TriangleCells
<1>5. CASE cas <= 0
  <2>1. Abstract!Restrict(n, m, tol, LAMBDA c : c[1] <= c[2])
    BY <1>1, <1>4, <1>5 DEF Abstract!Restrict
  <2> QED BY <1>1, <2>1 DEF Abstract!Next, Abstract!Restrict
<1>6. CASE ~(cas <= 0)
  <2>1. Abstract!Restrict(n, m, tol, LAMBDA c : c[2] <= c[1])
    BY <1>1, <1>4, <1>6 DEF Abstract!Restrict
  <2> QED BY <1>1, <2>1 DEF Abstract!Next, Abstract!Restrict
<1> QED BY <1>5, <1>6

LEMMA clearContent ==
  ASSUME TableInv, TableInv', clear
  PROVE  Abstract!Clear
<1>1. coef' = <<>> /\ DOMAIN coef' = {} /\ fortran' = 0 /\ n' = n /\ m' = m
  BY NoPDomain DEF clear, NoP
<1>2. /\ Content' = [d \in DOMAIN Content' |-> Content'[d]]
      /\ DOMAIN Content' = {Cell(coef'[k]) : k \in DOMAIN coef'}
  BY <1>1, NewContentInBaseZero
<1>3. DOMAIN Content' = {}
  BY <1>1, <1>2
<1>4. Content' = [c \in {} |-> 0]
  BY <1>2, <1>3
<1> QED BY <1>1, <1>4 DEF Abstract!Clear, Abstract!Empty

(* The map of a list of distinct terms. *)
LEMMA MapOfIs ==
  ASSUME NEW c, Distinct(c)
  PROVE  \A k \in DOMAIN c : MapOf(c)[Cell(c[k])] = c[k].a
<1> SUFFICES ASSUME NEW k \in DOMAIN c
             PROVE  MapOf(c)[Cell(c[k])] = c[k].a
  OBVIOUS
<1> DEFINE t == CHOOSE t \in {c[l] : l \in DOMAIN c} : Cell(t) = Cell(c[k])
<1>1. t \in {c[l] : l \in DOMAIN c} /\ Cell(t) = Cell(c[k])
  OBVIOUS
<1>2. t = c[k]
  BY <1>1 DEF Distinct
<1>3. MapOf(c)[Cell(c[k])] = t.a
  BY DEF MapOf
<1> QED BY <1>2, <1>3

LEMMA setContent ==
  ASSUME TableInv', NEW nn \in 1 .. MaxDim, NEW mm \in 1 .. MaxDim, NEW hhalf, NEW c \in Sources,
         \A k \in DOMAIN c : c[k].i < nn /\ c[k].j < mm, set(nn, mm, hhalf, c)
  PROVE  Abstract!Copy(nn, mm, MapOf(c))
<1>1. coef' = c /\ fortran' = 0 /\ n' = nn /\ m' = mm
  BY DEF set
<1>2. /\ Content' = [d \in DOMAIN Content' |-> Content'[d]]
      /\ DOMAIN Content' = {Cell(c[k]) : k \in DOMAIN c}
      /\ \A k \in DOMAIN c : Content'[Cell(c[k])] = c[k].a
  BY <1>1, NewContentInBaseZero
<1>3. Distinct(c) /\ c \in Seq(Terms)
  BY ConstantsAssumption
<1>4. /\ MapOf(c) = [d \in DOMAIN MapOf(c) |-> MapOf(c)[d]]
      /\ DOMAIN MapOf(c) = {Cell(c[k]) : k \in DOMAIN c}
      /\ \A k \in DOMAIN c : MapOf(c)[Cell(c[k])] = c[k].a
  BY <1>3, MapOfIs DEF MapOf
<1>5. \A d \in DOMAIN Content' : Content'[d] = MapOf(c)[d]
  BY <1>2, <1>4
<1>6. Content' = MapOf(c)
  BY <1>2, <1>4, <1>5
<1>7. ASSUME NEW k \in DOMAIN c
      PROVE  Cell(c[k]) \in (0 .. nn - 1) \X (0 .. mm - 1)
  <2>1. c[k] \in Terms
    BY <1>3, SeqElim
  <2>2. c[k].i \in Nat /\ c[k].j \in Nat /\ c[k].i < nn /\ c[k].j < mm
    BY <2>1 DEF Terms
  <2> QED BY <2>2, ConstantsAssumption DEF Cell
<1> QED BY <1>1, <1>4, <1>6, <1>7 DEF Abstract!Copy

LEMMA dotransposeContent ==
  ASSUME TableInv, TableInv', fortran = 0, dotranspose
  PROVE  Abstract!Transpose
<1>1. coef' = [k \in DOMAIN coef |-> [coef[k] EXCEPT !.i = coef[k].j, !.j = coef[k].i]]
      /\ fortran' = 0 /\ n' = m /\ m' = n
  BY DEF dotranspose
<1>2. /\ DOMAIN Content = {Cell(coef[k]) : k \in DOMAIN coef}
      /\ \A k \in DOMAIN coef : Content[Cell(coef[k])] = coef[k].a
  BY ContentInBaseZero
<1>3. /\ Content' = [d \in DOMAIN Content' |-> Content'[d]]
      /\ DOMAIN Content' = {Cell(coef'[k]) : k \in DOMAIN coef'}
      /\ \A k \in DOMAIN coef' : Content'[Cell(coef'[k])] = coef'[k].a
  BY <1>1, NewContentInBaseZero
<1>4. \A k \in DOMAIN coef : /\ coef'[k].i = coef[k].j
                             /\ coef'[k].j = coef[k].i
                             /\ coef'[k].a = coef[k].a
  BY <1>1, CoefElim DEF TableInv, Term
<1>5. \A k \in DOMAIN coef : /\ Cell(coef'[k]) = <<Cell(coef[k])[2], Cell(coef[k])[1]>>
                             /\ <<Cell(coef'[k])[2], Cell(coef'[k])[1]>> = Cell(coef[k])
  BY <1>4 DEF Cell
<1>6. DOMAIN coef' = DOMAIN coef
  BY <1>1
<1> DEFINE D == {<<d[2], d[1]>> : d \in DOMAIN Content}
<1>7. DOMAIN Content' = D
  <2>1. \A k \in DOMAIN coef : Cell(coef'[k]) \in D
    BY <1>2, <1>5
  <2>2. \A d \in DOMAIN Content : <<d[2], d[1]>> \in DOMAIN Content'
    BY <1>2, <1>3, <1>5, <1>6
  <2> QED BY <1>3, <1>6, <2>1, <2>2
<1>8. \A c \in DOMAIN Content' : Content'[c] = Content[<<c[2], c[1]>>]
  <2>1. \A k \in DOMAIN coef' : Content'[Cell(coef'[k])]
                                  = Content[<<Cell(coef'[k])[2], Cell(coef'[k])[1]>>]
    BY <1>2, <1>3, <1>4, <1>5, <1>6
  <2> QED BY <1>3, <2>1
<1>9. Content' = [c \in D |-> Content[<<c[2], c[1]>>]]
  BY <1>3, <1>7, <1>8
<1> QED BY <1>1, <1>9 DEF Abstract!Transpose

(* A change of shape is the one its name says. *)
LEMMA ReshapeContent ==
  ASSUME TableInv, TableInv', fortran = 0, Reshape
  PROVE  Abstract!Next
<1>1. ASSUME NEW nn \in 1 .. MaxDim, NEW mm \in 1 .. MaxDim, NEW hhalf \in {0, 1}, NEW c \in Sources,
             \A k \in DOMAIN c : c[k].i < nn /\ c[k].j < mm, set(nn, mm, hhalf, c)
      PROVE  Abstract!Next
  <2>1. Abstract!Copy(nn, mm, MapOf(c)) /\ MapOf(c) \in CopiedMaps
    BY <1>1, setContent DEF CopiedMaps
  <2> QED BY <2>1 DEF Abstract!Next
<1>2. CASE \E nn, mm \in 1 .. MaxDim, nnnz \in {0, Len(coef)}, tol \in {-1, 0}, sym \in {0, 1} :
             resize(nn, mm, nnnz, tol, sym)
  BY <1>2, resizeContent
<1>3. CASE \E cas \in {-1, 0, 1}, tol \in {-1, 0} : RemoveHalf(cas, tol)
  BY <1>3, RemoveHalfContent
<1>4. CASE clear
  <2>1. Abstract!Clear
    BY <1>4, clearContent
  <2> QED BY <2>1 DEF Abstract!Next
<1>5. CASE dotranspose
  <2>1. Abstract!Transpose
    BY <1>5, dotransposeContent
  <2> QED BY <2>1 DEF Abstract!Next
<1> QED BY <1>1, <1>2, <1>3, <1>4, <1>5 DEF Reshape

(* A new matrix is an empty map. *)
LEMMA InitContent ==
  ASSUME Init
  PROVE  Abstract!Init
<1>1. TableInv /\ fortran = 0 /\ DOMAIN coef = {}
  BY InitTable, NoPDomain DEF Init, NoP
<1>2. /\ Content = [d \in DOMAIN Content |-> Content[d]]
      /\ DOMAIN Content = {Cell(coef[k]) : k \in DOMAIN coef}
  BY <1>1, ContentInBaseZero
<1>3. DOMAIN Content = {}
  BY <1>1, <1>2
<1>4. Content = [c \in {} |-> 0]
  BY <1>2, <1>3
<1> QED BY <1>4 DEF Init, Abstract!Init, Abstract!Empty

(* Every call is a step of SparseMap or leaves the map alone. *)
LEMMA NextContent ==
  ASSUME TableInv, TableInv', [Next]_vars
  PROVE  /\ [Abstract!Next]_(Abstract!vars)
         /\ COO \/ CSR \/ CSC \/ CSC_U \/ HM \/ (\E yes \in {0, 1} : setfortran(yes))
              => Content' = Content
<1>1. ASSUME COO \/ CSR \/ CSC \/ CSC_U \/ HM \/ (\E yes \in {0, 1} : setfortran(yes))
      PROVE  UNCHANGED <<n, m, Content>>
  BY <1>1, FormatContent, setfortranContent
<1>2. CASE fortran = 0 /\ Access
  <2>1. Abstract!Next \/ UNCHANGED <<n, m, Content>>
    BY <1>2, AccessContent DEF Abstract!Next
  <2> QED BY <1>1, <2>1 DEF Abstract!vars
<1>3. CASE fortran = 0 /\ Values
  <2>1. Abstract!Next
    BY <1>3, ValuesContent DEF Abstract!Next
  <2> QED BY <1>1, <2>1
<1>4. CASE fortran = 0 /\ Reshape
  BY <1>1, <1>4, ReshapeContent
<1>5. CASE GetReDo \/ UNCHANGED vars
  <2>1. UNCHANGED <<n, m, fortran, coef>>
    BY <1>5 DEF GetReDo, vars, shape
  <2>2. Content' = Content
    BY <2>1, UnchangedContent
  <2> QED BY <2>1, <2>2 DEF Abstract!vars
<1>6. CASE COO \/ CSR \/ CSC \/ CSC_U \/ HM \/ (\E yes \in {0, 1} : setfortran(yes))
  BY <1>1, <1>6 DEF Abstract!vars
<1> QED BY <1>2, <1>3, <1>4, <1>5, <1>6 DEF Next

(* No other call asks for a format or changes the base. *)
LEMMA OthersKeepFormat ==
  ASSUME TypeOK, (fortran = 0 /\ (Access \/ Values \/ Reshape)) \/ GetReDo \/ UNCHANGED vars
  PROVE  /\ fortran' = fortran
         /\ type_state' = type_state \/ type_state' \in {type_HM, type_COO}
<1>1. ASSUME fortran = 0, Access
      PROVE  /\ fortran' = fortran
             /\ type_state' = type_state \/ type_state' = type_HM
  BY <1>1 DEF Access, npij, Accumulate, pij, simpleinsert, WriteAt, shape, order
<1>2. ASSUME Values
      PROVE  fortran' = fortran /\ type_state' = type_state
  BY <1>2, ValuesCells DEF shape, order
<1>3. ASSUME fortran = 0, Reshape
      PROVE  /\ fortran' = fortran
             /\ type_state' = type_state \/ type_state' \in {type_HM, type_COO}
  BY <1>3 DEF Reshape, resize, RemoveHalf, clear, set, dotranspose
<1>4. ASSUME GetReDo \/ UNCHANGED vars
      PROVE  fortran' = fortran /\ type_state' = type_state
  BY <1>4 DEF GetReDo, vars, shape, order
<1> QED BY <1>1, <1>2, <1>3, <1>4

LEMMA FormatStep ==
  ASSUME TableInv, TableInv', [Next]_vars
  PROVE  [ \/ type_state' # type_state /\ type_state' \in {type_CSR, type_CSC, upper_ji}
           \/ fortran' # fortran
           => Content' = Content ]_vars
<1>1. CASE COO \/ CSR \/ CSC \/ CSC_U \/ HM \/ (\E yes \in {0, 1} : setfortran(yes))
  BY <1>1, NextContent
<1>2. CASE (fortran = 0 /\ (Access \/ Values \/ Reshape)) \/ GetReDo \/ UNCHANGED vars
  <2>1. /\ fortran' = fortran
        /\ type_state' = type_state \/ type_state' \in {type_HM, type_COO}
    BY <1>2, OthersKeepFormat DEF TableInv
  <2>2. {type_HM, type_COO} \cap {type_CSR, type_CSC, upper_ji} = {}
    BY DEF type_HM, type_COO, type_CSR, type_CSC, upper_ji
  <2> QED BY <2>1, <2>2
<1> QED BY <1>1, <1>2 DEF Next

(* The matrix implements SparseMap: each call changes the map find() shows *)
(* as its name says, and a change of format or of base does not change it. *)
THEOREM ContentCorrect == Spec => ImplementsSparseMap
<1>1. Init => Abstract!Init
  BY InitContent
<1>2. TableInv /\ TableInv' /\ [Next]_vars => [Abstract!Next]_(Abstract!vars)
  BY NextContent
<1>3. TableInv /\ TableInv' /\ [Next]_vars
        => [ \/ type_state' # type_state /\ type_state' \in {type_CSR, type_CSC, upper_ji}
             \/ fortran' # fortran
             => Content' = Content ]_vars
  BY FormatStep
<1>4. Spec => Abstract!Spec
  BY <1>1, <1>2, TableCorrect, PTL DEF Spec, Abstract!Spec
<1>5. Spec => FormatKeepsContent
  BY <1>3, TableCorrect, PTL DEF Spec, FormatKeepsContent
<1> QED BY <1>4, <1>5 DEF ImplementsSparseMap

-----------------------------------------------------------------------------
(* Stages and codes. *)

(* The four outcomes of the comparison of the codes. *)
LEMMA SentBack ==
  ASSUME NEW s \in 0 .. 3, NEW old, NEW new
  PROVE  /\ ChangeCodeState(s, old, new) \in 0 .. 3
         /\ new.ini # old.ini => ChangeCodeState(s, old, new) = 0
         /\ new.ini = old.ini /\ new.sym # old.sym => ChangeCodeState(s, old, new) = 1
         /\ new.ini = old.ini /\ new.sym = old.sym /\ new.num # old.num
              => ChangeCodeState(s, old, new) = 2
         /\ new.ini = old.ini /\ new.sym = old.sym /\ new.num = old.num
              => ChangeCodeState(s, old, new) = s
  BY DEF ChangeCodeState

(* What the invariant adds to the property: a solver at stage 0 has no     *)
(* dimension yet, and Symbolic, when there is one, is of the dimension     *)
(* of the code.  It may still be missing at stage 2: a solver at stage 1   *)
(* is sent forward when the code of the pattern, never set, happens to be  *)
(* 0 and that of the values is not; UMFPACK then refuses.                  *)
StageInv ==
  /\ stage = 0 => code.ini = 0
  /\ stage <= 1 => symbolic = Null
  /\ symbolic = Null \/ (symbolic.kind = "factor" /\ symbolic.dim = code.ini)
  /\ stage = 3 => symbolic # Null

SolverInv ==
  /\ TypeOK
  /\ fortran = 0
  /\ CodesInv
  /\ StageInv

(* A fresh symbolic factorization is one of the present matrix. *)
LEMMA RefactoredFresh ==
  ASSUME TypeOK, UNCHANGED <<shape, nnzmax, nhash>>, Refactored(TRUE)
  PROVE  /\ held' = TRUE /\ type_state' = type_CSC
         /\ FromArrays' = [kind |-> "factor", dim |-> n, terms |-> MapOf(coef')]
         /\ symbolic' = [kind |-> "factor", dim |-> n, terms |-> DOMAIN MapOf(coef')]
<1>1. held' = TRUE /\ type_state' = type_CSC /\ symbolic' = Pattern(FromArrays') /\ n' = n
  BY DEF Refactored, shape
<1> DEFINE F == [kind |-> "factor", dim |-> n, terms |-> MapOf(coef')]
<1>2. FromArrays' = F
  BY <1>1 DEF FromArrays, Of
<1>3. Pattern(F) = [kind |-> "factor", dim |-> n, terms |-> DOMAIN MapOf(coef')]
  BY DEF Pattern
<1> QED BY <1>1, <1>2, <1>3

(* factorize keeps the types of the matrix. *)
LEMMA factorizeType ==
  ASSUME TypeOK, NEW st \in 0 .. 3, factorize(st)
  PROVE  TypeOK'
<1>1. UNCHANGED <<shape, nnzmax, nhash>> /\ re_do_numerics' = 0 /\ re_do_symbolic' = 0
  BY DEF factorize
<1>2. PICK d \in BOOLEAN : Refactored(d)
  <2>1. \A s : (s <= 1 /\ st >= 2) \in BOOLEAN
    OBVIOUS
  <2> QED BY <2>1 DEF factorize
<1>3. CASE d
  <2>1. ShapeOK' /\ TermsOK' /\ TableOK'
    BY <1>1, <1>2, <1>3, SortjiType DEF Refactored
  <2>2. OrderOK'
    BY <1>1, <1>2, <1>3, PointerDomain DEF Refactored, Buildp, TypeOK, ShapeOK, OrderOK
  <2> QED BY <1>1, <2>1, <2>2 DEF TypeOK, RedoOK
<1>4. CASE ~d
  <2>1. UNCHANGED <<shape, coef, table, order>>
    BY <1>1, <1>2, <1>4 DEF Refactored, table
  <2> QED BY <1>1, <2>1 DEF TypeOK, ShapeOK, TermsOK, TableOK, OrderOK, RedoOK, Cells, shape, table, order
<1> QED BY <1>3, <1>4

(* A call of factorize: from which stage it starts, and what it leaves. *)
LEMMA factorizeCodes ==
  ASSUME SolverInv, NEW st \in 0 .. 3, factorize(st), st = 3 \/ stage = 0
  PROVE  /\ CodesInv' /\ StageInv'
         /\ stage' = 3 => symbolic' # Null /\ symbolic'.dim = n
         /\ stage = 0 /\ stage' = 3 =>
              /\ Refactored(TRUE) /\ UNCHANGED <<shape, nnzmax, nhash>>
              /\ numeric' = FromArrays'
<1> DEFINE new == NewCodes(Seen)
           s0 == ChangeCodeState(stage, code, new)
           doSymbolic == s0 <= 1 /\ st >= 2
           doNumeric == s0 <= 2 /\ st >= 3
<1>1. /\ n \in 1 .. MaxDim /\ MaxDim \in Nat \ {0}
      /\ stage \in 0 .. 3 /\ code \in [ini : 0 .. MaxDim, sym : Int, num : Int]
      /\ codenew \in [ini : 0 .. MaxDim, sym : Int, num : Int]
      /\ changes \in [sym : BOOLEAN, num : BOOLEAN]
  BY ConstantsAssumption DEF SolverInv, TypeOK, ShapeOK, CodesInv, SolverTypeOK
<1>2. /\ UNCHANGED <<shape, nnzmax, nhash, attached>>
      /\ changes' = Seen /\ codenew' = new
      /\ Refactored(doSymbolic)
      /\ code' = [ini |-> IF s0 = 0 /\ st >= 1 THEN codenew'.ini ELSE code.ini,
                  sym |-> IF doSymbolic THEN codenew'.sym ELSE code.sym,
                  num |-> IF doNumeric THEN codenew'.num ELSE code.num]
      /\ IF doNumeric
         THEN \E refused \in Refused(FromArrays', symbolic') :
                /\ stage' = IF refused THEN 2 ELSE 3
                /\ numeric' = IF refused THEN Null ELSE FromArrays'
         ELSE /\ stage' = Larger(s0, st)
              /\ UNCHANGED numeric
  BY DEF factorize
<1>3. new = [ini |-> n, sym |-> new.sym, num |-> new.num] /\ new.sym \in Int /\ new.num \in Int
  BY <1>1 DEF NewCodes
<1>4. Seen \in [sym : BOOLEAN, num : BOOLEAN]
  BY <1>1 DEF Seen
<1>5. /\ s0 \in 0 .. 3
      /\ new.ini # code.ini => s0 = 0
      /\ new.ini = code.ini /\ new.sym # code.sym => s0 = 1
      /\ new.ini = code.ini /\ new.sym = code.sym /\ new.num # code.num => s0 = 2
      /\ new.ini = code.ini /\ new.sym = code.sym /\ new.num = code.num => s0 = stage
  BY <1>1, SentBack
<1>6. attached' \in BOOLEAN /\ held \in BOOLEAN
  BY <1>2 DEF SolverInv, CodesInv, SolverTypeOK
<1>7. stage = 0 => s0 = 0
  BY <1>1, <1>3, <1>5 DEF SolverInv, StageInv
<1> HIDE DEF s0, new
<1>8. stage' \in 0 .. 3
  BY <1>2, <1>5 DEF Larger
(* The matrix of a symbolic factorization. *)
<1>9. doSymbolic =>
        /\ Refactored(TRUE) /\ held' = TRUE
        /\ FromArrays' = [kind |-> "factor", dim |-> n, terms |-> MapOf(coef')]
        /\ symbolic'.kind = "factor" /\ symbolic'.dim = n
  <2>1. doSymbolic => Refactored(TRUE)
    <3> SUFFICES ASSUME doSymbolic PROVE Refactored(TRUE)
      OBVIOUS
    <3>1. doSymbolic = TRUE
      BY Zenon
    <3>2. Refactored(doSymbolic)
      BY <1>2
    <3> HIDE DEF doSymbolic
    <3> QED BY <3>1, <3>2, Zenon
  <2>2. TypeOK /\ UNCHANGED <<shape, nnzmax, nhash>>
    BY <1>2 DEF SolverInv
  <2> HIDE DEF doSymbolic, doNumeric
  <2> SUFFICES ASSUME doSymbolic
               PROVE  /\ Refactored(TRUE) /\ held' = TRUE
                      /\ FromArrays' = [kind |-> "factor", dim |-> n, terms |-> MapOf(coef')]
                      /\ symbolic'.kind = "factor" /\ symbolic'.dim = n
    OBVIOUS
  <2>3. Refactored(TRUE)
    BY <2>1
  <2>4. /\ held' = TRUE
        /\ FromArrays' = [kind |-> "factor", dim |-> n, terms |-> MapOf(coef')]
        /\ symbolic' = [kind |-> "factor", dim |-> n, terms |-> DOMAIN MapOf(coef')]
    BY <2>2, <2>3, RefactoredFresh
  <2> QED BY <2>3, <2>4
<1>10. ~doSymbolic => held' = held /\ symbolic' = symbolic
  BY <1>2 DEF Refactored
<1>11. FromArrays' # Null /\ FromArrays'.kind \in Factors
  <2>1. FromArrays' \in {Unknown, [kind |-> "factor", dim |-> n', terms |-> MapOf(coef')]}
    BY DEF FromArrays, Of
  <2> QED BY <2>1 DEF Unknown, Null, Factors
<1>12. Null.kind \in Factors
  BY DEF Null, Factors
<1>13. code' \in [ini : 0 .. MaxDim, sym : Int, num : Int]
  BY <1>1, <1>2, <1>3
<1>14. codenew' = new /\ new \in [ini : 0 .. MaxDim, sym : Int, num : Int]
  BY <1>1, <1>2, <1>3
<1>15. SolverTypeOK'
  <2>1. symbolic'.kind \in Factors
    BY <1>9, <1>10 DEF SolverInv, CodesInv, SolverTypeOK, Factors
  <2>2. numeric'.kind \in Factors
    BY <1>2, <1>11, <1>12 DEF SolverInv, CodesInv, SolverTypeOK
  <2>3. held' \in BOOLEAN
    BY <1>6, <1>9, <1>10
  <2> QED BY <1>2, <1>4, <1>6, <1>8, <1>13, <1>14, <2>1, <2>2, <2>3 DEF SolverTypeOK
(* The codes. *)
<1>16. /\ code'.ini = IF s0 = 0 /\ st >= 1 THEN n ELSE code.ini
       /\ code'.sym = IF doSymbolic THEN new.sym ELSE code.sym
       /\ code'.num = IF doNumeric THEN new.num ELSE code.num
  BY <1>2, <1>3
<1>17. stage' >= 1 => code'.ini = n
  <2>1. CASE s0 = 0 /\ st = 0
    BY <1>2, <2>1 DEF Larger
  <2>2. CASE s0 = 0 /\ st >= 1
    BY <1>16, <2>2
  <2>3. CASE s0 # 0
    BY <1>3, <1>5, <1>16, <2>3
  <2> QED BY <2>1, <2>2, <2>3
<1>18. s0 >= 2 => new.sym = code.sym /\ new.ini = code.ini
  BY <1>5
<1>19. stage' >= 2 => doSymbolic \/ s0 >= 2
  BY <1>2, <1>5 DEF Larger
<1>20. stage' >= 2 => code'.sym = new.sym
  BY <1>16, <1>18, <1>19
<1>21. s0 = 3 => stage = 3 /\ new.num = code.num
  BY <1>5
<1>22. stage' = 3 => code'.num = new.num /\ numeric' # Null
  <2>1. CASE doNumeric
    BY <1>2, <1>11, <1>16, <2>1
  <2>2. CASE ~doNumeric /\ stage' = 3
    <3>1. s0 = 3
      BY <1>2, <1>5, <2>2 DEF Larger
    <3> QED BY <1>2, <1>16, <1>21, <2>2, <3>1 DEF SolverInv, CodesInv
  <2> QED BY <2>1, <2>2
<1>23. CodesInv'
  BY <1>3, <1>14, <1>15, <1>17, <1>20, <1>22 DEF CodesInv
<1>24. symbolic' = Null \/ (symbolic'.kind = "factor" /\ symbolic'.dim = code'.ini)
  <2>1. CASE doSymbolic
    <3>1. stage' >= 1
      BY <1>2, <1>5, <2>1 DEF Larger
    <3> QED BY <1>9, <1>17, <2>1, <3>1
  <2>2. CASE ~doSymbolic /\ stage >= 2
    <3>1. code'.ini = code.ini
      BY <1>5, <1>16, <2>2
    <3> QED BY <1>10, <2>2, <3>1 DEF SolverInv, StageInv
  <2>3. CASE ~doSymbolic /\ stage <= 1
    BY <1>10, <2>3 DEF SolverInv, StageInv
  <2> QED BY <1>1, <2>1, <2>2, <2>3
<1>25. stage' = 3 => symbolic' # Null
  <2>1. CASE doNumeric /\ stage' = 3
    <3>1. PICK refused \in Refused(FromArrays', symbolic') :
            stage' = IF refused THEN 2 ELSE 3
      BY <1>2, <2>1
    <3> SUFFICES ASSUME symbolic' = Null PROVE FALSE
      OBVIOUS
    <3>2. refused = TRUE
      BY DEF Refused
    <3>3. stage' = IF TRUE THEN 2 ELSE 3
      BY <3>1, <3>2, Zenon
    <3> QED BY <2>1, <3>3
  <2>2. CASE ~doNumeric /\ stage' = 3
    <3>1. s0 = 3
      BY <1>2, <1>5, <2>2 DEF Larger
    <3>2. stage = 3
      BY <1>21, <3>1
    <3> QED BY <1>10, <3>1, <3>2 DEF SolverInv, StageInv
  <2> QED BY <2>1, <2>2
<1>26. stage' <= 1 => s0 <= 1 /\ st <= 1
  BY <1>2, <1>5 DEF Larger
<1>27. stage' <= 1 => symbolic' = Null
  BY <1>10, <1>26 DEF SolverInv, StageInv
<1>28. stage' = 0 => code'.ini = 0
  <2>1. stage' = 0 => s0 = 0 /\ st = 0
    BY <1>2, <1>5 DEF Larger
  <2>2. stage' = 0 => stage = 0
    BY <2>1
  <2> QED BY <1>16, <2>1, <2>2 DEF SolverInv, StageInv
<1>29. StageInv'
  BY <1>24, <1>25, <1>27, <1>28 DEF StageInv
<1>30. ASSUME stage = 0, stage' = 3
       PROVE  Refactored(TRUE) /\ numeric' = FromArrays'
  <2>1. s0 = 0 /\ st >= 3
    BY <1>2, <1>5, <1>7, <1>30 DEF Larger
  <2>2. doSymbolic /\ doNumeric
    BY <2>1
  <2>3. PICK refused \in Refused(FromArrays', symbolic') :
          /\ stage' = IF refused THEN 2 ELSE 3
          /\ numeric' = IF refused THEN Null ELSE FromArrays'
    BY <1>2, <2>2
  <2>4. refused = FALSE
    BY <1>30, <2>3 DEF Refused
  <2> QED BY <1>9, <2>2, <2>3, <2>4
<1>31. stage' = 3 => symbolic'.dim = n
  BY <1>17, <1>24, <1>25
<1> QED BY <1>2, <1>23, <1>25, <1>29, <1>30, <1>31

(* A solver just made, or none: nothing is factorized. *)
LEMMA AttachCodes ==
  ASSUME SolverInv, Attach
  PROVE  SolverInv'
<1>1. UNCHANGED vars /\ TypeOK' /\ fortran' = 0
  BY StutterType DEF SolverInv, Attach, vars, shape
<1>2. PICK g \in Garbage, h \in Garbage :
        codenew' = [ini |-> 0, sym |-> g, num |-> h]
  BY DEF Attach
<1>3. g \in Int /\ h \in Int /\ MaxDim \in Nat \ {0}
  BY SolverAssumption, ConstantsAssumption
<1>4. CodesInv'
  <2>1. /\ attached' = TRUE /\ held' = FALSE /\ stage' = 0
        /\ code' = [ini |-> 0, sym |-> 0, num |-> 0]
        /\ changes' = [sym |-> FALSE, num |-> FALSE]
        /\ symbolic' = Null /\ numeric' = Null
    BY DEF Attach
  <2>2. /\ code' \in [ini : 0 .. MaxDim, sym : Int, num : Int]
        /\ codenew' \in [ini : 0 .. MaxDim, sym : Int, num : Int]
    BY <1>2, <1>3, <2>1
  <2>3. attached' \in BOOLEAN /\ held' \in BOOLEAN /\ changes' \in [sym : BOOLEAN, num : BOOLEAN]
    BY <2>1
  <2>4. symbolic'.kind \in Factors /\ numeric'.kind \in Factors
    BY <2>1 DEF Null, Factors
  <2>5. code'.ini = codenew'.ini
    BY <1>2, <2>1
  <2> QED BY <2>1, <2>2, <2>3, <2>4, <2>5 DEF CodesInv, SolverTypeOK
<1>5. StageInv'
  BY DEF Attach, StageInv
<1> QED BY <1>1, <1>4, <1>5 DEF SolverInv

(* The calls on the matrix touch neither the stage nor the codes. *)
LEMMA MatrixStepCodes ==
  ASSUME SolverInv, MatrixStep
  PROVE  SolverInv'
<1>1. MaxDim \in Nat /\ TypeOK /\ fortran = 0
  BY ConstantsAssumption DEF SolverInv
<1>2. TypeOK'
  <2>1. CASE \E nn \in 1 .. MaxDim, tol \in {-1, 1} : resize(nn, nn, 0, tol, 0)
    BY <1>1, <2>1, resizeType
  <2> QED BY <1>1, <2>1, AccessType, ValuesType, clearType, FormatType DEF MatrixStep
<1>3. fortran' = 0
  <2>1. CASE Access
    BY <1>1, <2>1 DEF Access, Accumulate, npij, simpleinsert, pij, WriteAt, shape
  <2>2. CASE Values
    BY <1>1, <2>2 DEF Values, Overwrite, Scale, setcoef, shape
  <2>3. CASE COO \/ CSR \/ CSC \/ HM
    BY <1>1, <2>3 DEF COO, CSR, CSC, HM, shape
  <2>4. CASE clear
    BY <2>4 DEF clear
  <2>5. CASE \E nn \in 1 .. MaxDim, tol \in {-1, 1} : resize(nn, nn, 0, tol, 0)
    BY <1>1, <2>5 DEF resize
  <2> QED BY <2>1, <2>2, <2>3, <2>4, <2>5 DEF MatrixStep
<1>4. /\ UNCHANGED <<attached, stage, code, codenew, changes, symbolic, numeric>>
      /\ held' \in BOOLEAN
  BY DEF MatrixStep, SolverInv, CodesInv, SolverTypeOK
<1>5. CodesInv' /\ StageInv'
  BY <1>4 DEF SolverInv, CodesInv, SolverTypeOK, StageInv
<1> QED BY <1>2, <1>3, <1>5 DEF SolverInv

(* Every step of a script keeps the invariant. *)
LEMMA SolverNextInv ==
  ASSUME SolverInv, [SolverNext]_all
  PROVE  SolverInv'
<1>1. CASE Attach
  BY <1>1, AttachCodes
<1>2. ASSUME NEW st \in 0 .. 3, factorize(st), st = 3 \/ stage = 0
      PROVE  SolverInv'
  <2>1. TypeOK' /\ fortran' = 0
    BY <1>2, factorizeType DEF SolverInv, factorize, shape
  <2> QED BY <1>2, <2>1, factorizeCodes DEF SolverInv
<1>3. CASE EarlyFactorize
  BY <1>2, <1>3, SolverAssumption DEF EarlyFactorize
<1>4. CASE Solve
  BY <1>2, <1>4 DEF Solve
<1>5. CASE MatrixStep
  BY <1>5, MatrixStepCodes
<1>6. CASE UNCHANGED all
  <2>1. TypeOK' /\ fortran' = 0
    BY <1>6, StutterType DEF SolverInv, all, vars, shape
  <2>2. CodesInv' /\ StageInv'
    BY <1>6 DEF SolverInv, CodesInv, SolverTypeOK, StageInv, all, solver
  <2> QED BY <2>1, <2>2 DEF SolverInv
<1> QED BY <1>1, <1>3, <1>4, <1>5, <1>6 DEF SolverNext

(* A matrix nobody has used and no solver. *)
LEMMA SolverInitInv ==
  ASSUME SolverInit
  PROVE  SolverInv
<1>1. TypeOK /\ fortran = 0 /\ MaxDim \in Nat \ {0}
  BY InitType, ConstantsAssumption DEF SolverInit, Init
<1>2. /\ attached = FALSE /\ held = FALSE /\ stage = 0
      /\ code = [ini |-> 0, sym |-> 0, num |-> 0]
      /\ codenew = [ini |-> 0, sym |-> 0, num |-> 0]
      /\ changes = [sym |-> FALSE, num |-> FALSE]
      /\ symbolic = Null /\ numeric = Null
  BY DEF SolverInit, Detached
<1>3. code \in [ini : 0 .. MaxDim, sym : Int, num : Int]
  BY <1>1, <1>2
<1>4. attached \in BOOLEAN /\ held \in BOOLEAN /\ changes \in [sym : BOOLEAN, num : BOOLEAN]
  BY <1>2
<1>5. symbolic.kind \in Factors /\ numeric.kind \in Factors
  BY <1>2 DEF Null, Factors
<1>6. CodesInv /\ StageInv
  BY <1>2, <1>3, <1>4, <1>5 DEF CodesInv, SolverTypeOK, StageInv
<1> QED BY <1>1, <1>6 DEF SolverInv

(* The invariant holds for every number of steps. *)
LEMMA SolverInvCorrect == SolverSpec => []SolverInv
<1> QED BY SolverInitInv, SolverNextInv, PTL DEF SolverSpec

(* A stage that counts as done was done for the codes last seen: whatever  *)
(* the script does to the matrix between two solves, however often the     *)
(* solver is replaced, and whatever its two members that are never set     *)
(* hold, a solve that computes nothing again has codes that did not change.*)
THEOREM CodesCorrect == SolverSpec => []CodesInv
<1> QED BY SolverInvCorrect, PTL DEF SolverInv

(* No solve uses a symbolic factorization made for another number of rows, *)
(* whatever the sizes the matrix had since, and none is done without one.  *)
THEOREM SolveDimensionCorrect == SolverSpec => SolveDimension
<1>1. ASSUME SolverInv, Solved
      PROVE  symbolic' # Null /\ symbolic'.dim = n
  <2>1. factorize(3) /\ stage' = 3 /\ 3 \in 0 .. 3
    BY <1>1 DEF Solved, Solve
  <2> QED BY <1>1, <2>1, factorizeCodes
<1>2. SolverInv /\ [SolverNext]_all => [Solved => symbolic' # Null /\ symbolic'.dim = n]_all
  BY <1>1
<1> QED BY <1>2, SolverInvCorrect, PTL DEF SolverSpec, SolveDimension

-----------------------------------------------------------------------------
(* The first solve. *)

(* Sorting the terms does not change what they are a map of. *)
LEMMA SameMap ==
  ASSUME NEW c, NEW f \in Permutations1(c)
  PROVE  MapOf(Rearranged(c, f)) = MapOf(c)
<1> DEFINE d == Rearranged(c, f)
<1>1. DOMAIN d = DOMAIN c /\ \A k \in DOMAIN c : d[k] = c[f[k]] /\ f[k] \in DOMAIN c
  BY DEF Rearranged, Permutations1, Bijection, Injection, Surjection
<1>2. \A k \in DOMAIN c : \E l \in DOMAIN c : f[l] = k
  BY DEF Permutations1, Bijection, Injection, Surjection
<1> HIDE DEF d
<1>3. {d[k] : k \in DOMAIN d} = {c[k] : k \in DOMAIN c}
  BY <1>1, <1>2
<1>4. {Cell(d[k]) : k \in DOMAIN d} = {Cell(c[k]) : k \in DOMAIN c}
  BY <1>1, <1>2
<1> DEFINE M(A, V) == [x \in A |-> (CHOOSE t \in V : Cell(t) = x).a]
<1>5. /\ MapOf(d) = M({Cell(d[k]) : k \in DOMAIN d}, {d[k] : k \in DOMAIN d})
      /\ MapOf(c) = M({Cell(c[k]) : k \in DOMAIN c}, {c[k] : k \in DOMAIN c})
  BY DEF MapOf
<1> HIDE DEF M
<1>6. MapOf(d) = MapOf(c)
  BY <1>3, <1>4, <1>5
<1> QED BY <1>6 DEF d

LEMMA SortjiMap ==
  ASSUME Sortji
  PROVE  MapOf(coef') = MapOf(coef)
<1>1. CASE state = sorted_ji
  BY <1>1 DEF Sortji
<1>2. CASE \E f \in Permutations1(coef) : coef' = Rearranged(coef, f)
  BY <1>2, SameMap
<1> QED BY <1>1, <1>2 DEF Sortji

(* The first solve after a solver is attached is a solve of the matrix as  *)
(* it is: the flags an earlier solver lowered and the order it left cannot *)
(* make the new one pass over a stage.                                     *)
THEOREM FirstSolveIsCurrentCorrect == SolverSpec => FirstSolveIsCurrent
<1>1. ASSUME SolverInv, Solved, stage = 0
      PROVE  numeric' = Of(coef)
  <2>1. factorize(3) /\ stage' = 3 /\ 3 \in 0 .. 3
    BY <1>1 DEF Solved, Solve
  <2>2. Refactored(TRUE) /\ UNCHANGED <<shape, nnzmax, nhash>> /\ numeric' = FromArrays'
    BY <1>1, <2>1, factorizeCodes
  <2>3. FromArrays' = [kind |-> "factor", dim |-> n, terms |-> MapOf(coef')]
    BY <1>1, <2>2, RefactoredFresh DEF SolverInv
  <2>4. MapOf(coef') = MapOf(coef)
    BY <2>2, SortjiMap DEF Refactored
  <2> QED BY <2>2, <2>3, <2>4 DEF Of
<1>2. SolverInv /\ [SolverNext]_all => [Solved /\ attached /\ stage = 0 => numeric' = Of(coef)]_all
  BY <1>1
<1> QED BY <1>2, SolverInvCorrect, PTL DEF SolverSpec, FirstSolveIsCurrent
================================================================================
