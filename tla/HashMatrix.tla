------------------------------ MODULE HashMatrix ------------------------------
(***************************************************************************)
(* The storage of one sparse matrix: femlib/HashMatrix.{hpp,cpp}.          *)
(*                                                                         *)
(* A matrix is the list of its terms (arrays i, j, aij) together with a    *)
(* hash table over (i,j) (arrays head, next), a record of how the list is  *)
(* ordered (state), of the format last asked for (type_state), of the row  *)
(* or column pointer p of that format, and the two flags that tell a       *)
(* solver what has to be computed again.  Every method keeps these parts   *)
(* in step by hand: the invariants below say what "in step" means.         *)
(***************************************************************************)
EXTENDS Integers, Sequences, FiniteSets, Functions

CONSTANTS
  MaxDim,   (* the largest number of rows or columns                       *)
  MaxNnz,   (* bound: no term is added to a matrix that holds this many    *)
  Vals,     (* the values a coefficient can take                           *)
  Sources,  (* the term lists of the matrices copied by operator=          *)
  TransposeFrom  (* the formats a matrix may be in when it is transposed   *)

(* A term (i[k],j[k],aij[k]), indices starting at 0 or, in fortran mode, 1 *)
Terms == [i : Nat, j : Nat, a : Vals]

Cell(t) == <<t.i, t.j>>

Distinct(c) == \A k, l \in DOMAIN c : k # l => Cell(c[k]) # Cell(c[l])

ASSUME ConstantsAssumption ==
  /\ MaxDim \in Nat \ {0}
  /\ MaxNnz \in Nat
  /\ Vals \subseteq Int
  /\ TransposeFrom \subseteq {0, 1, 2, 3, 7}
  /\ \A c \in Sources : /\ c \in Seq(Terms)
                        /\ Distinct(c)
                        /\ \A k \in DOMAIN c : c[k].i < MaxDim /\ c[k].j < MaxDim

VARIABLES
  n, m,             (* number of rows, of columns                          *)
  half,             (* 1: only one triangle of a symmetric matrix is kept  *)
  fortran,          (* the index of the first row and column               *)
  coef,             (* the nnz terms, in storage order                     *)
  nnzmax, nhash,    (* the allocated lengths of i,j,aij,next and of head   *)
  head,             (* head[h]: the positions linked in bucket h           *)
  state,            (* the order of coef                                   *)
  type_state,       (* the format p is for                                 *)
  p,                (* the row or column pointer, NoP when not allocated   *)
  re_do_numerics, re_do_symbolic

shape == <<n, m, half, fortran>>
table == <<nnzmax, nhash, head>>
order == <<state, type_state, p>>
redo  == <<re_do_numerics, re_do_symbolic>>
vars  == <<shape, coef, table, order, redo>>

type_HM  == 0
type_COO == 1
type_CSR == 2
type_CSC == 3
unsorted  == 0
sorted_ij == type_CSR
sorted_ji == type_CSC
upper_ji  == type_CSC + 4   (* addstateLU(1): the order SortLU(1) leaves *)

NoP == <<>>

Larger(x, y)  == IF x >= y THEN x ELSE y
Smaller(x, y) == IF x <= y THEN x ELSE y
Least(S)      == CHOOSE x \in S : \A y \in S : x <= y
Greatest(S)   == CHOOSE x \in S : \A y \in S : y <= x

-----------------------------------------------------------------------------
(* The hash table. *)

hash(ii, jj, f, nn, nh) == ((ii - f) + (jj - f) * nn) % nh

(* ReHash: every term is linked in the bucket of its cell.  Both ReHash    *)
(* and simpleinsert link the later term in front, so a bucket is walked    *)
(* from its greatest position down and the set is all there is to keep.    *)
ReHash(c, f, nn, nh) ==
  [h \in 0 .. nh - 1 |-> {k \in 1 .. Len(c) : hash(c[k].i, c[k].j, f, nn, nh) = h}]

(* find: the position of the term at (ii,jj), 0 when there is none. *)
Matches(ii, jj) ==
  {k \in head[hash(ii, jj, fortran, n, nhash)] : Cell(coef[k]) = <<ii, jj>>}
find(ii, jj) == IF Matches(ii, jj) = {} THEN 0 ELSE Greatest(Matches(ii, jj))

(* Mutant of IncreazeMax: only the factor 1.2, no 2*max(n,m) below it. *)
IncreazeMax_ByFactorOnly(asked, nz, mnx, old) ==
  IF asked = 0 THEN Larger(Larger(1, nz), (old * 6) \div 5) ELSE asked

(* The two lengths Increaze(nnzxnew) allocates for nz terms.  The length   *)
(* of head is computed in floating point, max(n,m) * min(max(1,len/max(n,  *)
(* m)),50), which is the integer below up to rounding.                     *)
IncreazeMax(asked, nz, mnx, old) ==
  IF asked = 0 THEN Larger(Larger(2 * mnx, nz), (old * 6) \div 5) ELSE asked
IncreazeHash(mnx, len) == Smaller(Larger(mnx, len), 50 * mnx)

(* Increaze(nnzxnew), for the terms c of a matrix of nn by mm. *)
Increaze(asked, c, f, nn, mm) ==
  LET mnx == Larger(nn, mm)
      len == IncreazeMax(asked, Len(c), mnx, nnzmax)
      nh  == IncreazeHash(mnx, len)
  IN  /\ nnzmax' = len
      /\ nhash' = nh
      /\ head' = ReHash(c, f, nn, nh)

(* ReHash() in place: the table keeps its length. *)
ReHashed(c, f, nn) ==
  /\ head' = ReHash(c, f, nn, nhash)
  /\ UNCHANGED <<nnzmax, nhash>>

-----------------------------------------------------------------------------
(* The order of the terms and the pointer array. *)

Rows(c) == [k \in DOMAIN c |-> c[k].i]
Cols(c) == [k \in DOMAIN c |-> c[k].j]

(* HeapSort(key,other,aij): lexicographic in (key,other). *)
Ordered(key, other) ==
  \A k, l \in DOMAIN key :
    k < l => key[k] < key[l] \/ (key[k] = key[l] /\ other[k] <= other[l])
SortedIJ(c) == Ordered(Rows(c), Cols(c))
SortedJI(c) == Ordered(Cols(c), Rows(c))

(* HeapSort is not stable, so any ordered rearrangement of c may result. *)
Rearranged(c, f) == [k \in DOMAIN c |-> c[f[k]]]
Permutations1(c) == Bijection(DOMAIN c, DOMAIN c)

(* Mutant of Packed: the indices move, the values stay. *)
Packed_ValuesStay(c, f) == [k \in DOMAIN f |-> [c[f[k]] EXCEPT !.a = c[k].a]]

(* The positions S of c, moved to the front in their order. *)
Increasing(S) ==
  {f \in [1 .. Cardinality(S) -> S] : \A x, y \in DOMAIN f : x < y => f[x] < f[y]}
Packed(c, f) == [k \in DOMAIN f |-> c[f[k]]]

(* SortLU(1): terms with i <= j first and in their order, the others after *)
(* them; these move only when a term with i <= j takes their place.        *)
IsUpper(t) == t.i <= t.j
nnzUpper(c) == Cardinality({k \in DOMAIN c : IsUpper(c[k])})
UpperFirst(c, f) ==
  /\ \A k, l \in DOMAIN c :
       /\ IsUpper(c[f[l]]) /\ k < l => IsUpper(c[f[k]])
       /\ IsUpper(c[f[l]]) /\ k < l => f[k] < f[l]
  /\ nnzUpper(c) = 0 => \A k \in DOMAIN c : f[k] = k

(* The array Buildp(nn,key,..,nnzz) writes over the first nnzz keys: where *)
(* each row (or column) starts, an empty one starting where the next does. *)
Pointer(key, f, nn, nnzz) ==
  LET starts(r) == {k \in 1 .. nnzz : key[k] - f = r}
      next(r)   == {q \in r .. nn - 1 : starts(q) # {}}
  IN  [r \in 0 .. nn |-> IF next(r) = {} THEN nnzz + f
                         ELSE Least(starts(Least(next(r)))) - 1 + f]

-----------------------------------------------------------------------------
(* HashMatrix(nn,mm,nnnz,halff): an empty matrix with room for nnnz terms, *)
(* here the default room (nnnz = 0) or that of one term.                   *)
Init ==
  /\ n \in 1 .. MaxDim
  /\ m \in 1 .. MaxDim
  /\ half \in {0, 1}
  /\ fortran = 0
  /\ coef = <<>>
  /\ \E asked \in {0, 1} :
       /\ nnzmax = IncreazeMax(asked, 0, Larger(n, m), 0)
       /\ nhash = IncreazeHash(Larger(n, m), nnzmax)
  /\ head = ReHash(<<>>, 0, n, nhash)
  /\ state = unsorted
  /\ type_state = type_HM
  /\ p = NoP
  /\ re_do_numerics = 0
  /\ re_do_symbolic = 0

(* The cells of the matrix, in the base the indices are kept in. *)
Cells == (fortran .. fortran + n - 1) \X (fortran .. fortran + m - 1)

(* Mutant of simpleinsert: h is not computed again after Increaze(). *)
simpleinsert_OldBucket(ii, jj, v) ==
  LET mnx == Larger(n, m)
      len == IncreazeMax(0, Len(coef), mnx, nnzmax)
      nh  == IncreazeHash(mnx, len)
  IN  /\ IF Len(coef) = nnzmax
         THEN /\ nnzmax' = len
              /\ nhash' = nh
              /\ head' = [ReHash(coef, fortran, n, nh) EXCEPT
                            ![hash(ii, jj, fortran, n, nhash)] = @ \cup {Len(coef) + 1}]
         ELSE /\ head' = [head EXCEPT
                            ![hash(ii, jj, fortran, n, nhash)] = @ \cup {Len(coef) + 1}]
              /\ UNCHANGED <<nnzmax, nhash>>
      /\ coef' = Append(coef, [i |-> ii, j |-> jj, a |-> v])
      /\ state' = unsorted
      /\ type_state' = type_HM
      /\ re_do_numerics' = 1
      /\ re_do_symbolic' = 1
      /\ UNCHANGED <<shape, p>>

(* Mutant of simpleinsert: type_state is not set back to type_HM. *)
simpleinsert_KeepsFormat(ii, jj, v) ==
  /\ Len(coef) < nnzmax
  /\ head' = [head EXCEPT
                ![hash(ii, jj, fortran, n, nhash)] = @ \cup {Len(coef) + 1}]
  /\ coef' = Append(coef, [i |-> ii, j |-> jj, a |-> v])
  /\ state' = unsorted
  /\ re_do_numerics' = 1
  /\ re_do_symbolic' = 1
  /\ UNCHANGED <<shape, nnzmax, nhash, type_state, p>>

(* simpleinsert(ii,jj,h), then the caller's write of v through the pointer *)
simpleinsert(ii, jj, v) ==
  LET t == [i |-> ii, j |-> jj, a |-> v] IN
  /\ IF Len(coef) = nnzmax
     THEN LET mnx == Larger(n, m)
              len == IncreazeMax(0, Len(coef), mnx, nnzmax)
              nh  == IncreazeHash(mnx, len)
          IN  /\ nnzmax' = len
              /\ nhash' = nh
              /\ head' = [ReHash(coef, fortran, n, nh) EXCEPT
                            ![hash(ii, jj, fortran, n, nh)] = @ \cup {Len(coef) + 1}]
     ELSE /\ head' = [head EXCEPT
                        ![hash(ii, jj, fortran, n, nhash)] = @ \cup {Len(coef) + 1}]
          /\ UNCHANGED <<nnzmax, nhash>>
  /\ coef' = Append(coef, t)
  /\ state' = unsorted
  /\ type_state' = type_HM
  /\ re_do_numerics' = 1
  /\ re_do_symbolic' = 1
  /\ UNCHANGED <<shape, p>>

(* The write of v through the pointer find() returned for position k. *)
WriteAt(k, v) ==
  /\ coef' = [coef EXCEPT ![k].a = v]
  /\ re_do_numerics' = 1
  /\ UNCHANGED <<shape, table, order, re_do_symbolic>>

(* operator()(ii,jj) = v and operator()(ii,jj) += v, through npij: a term  *)
(* that is missing is created with the value 0.                            *)
npij(ii, jj, v) ==
  IF find(ii, jj) = 0
  THEN Len(coef) < MaxNnz /\ simpleinsert(ii, jj, v)
  ELSE WriteAt(find(ii, jj), v)

Accumulate(ii, jj, v) ==
  LET old == IF find(ii, jj) = 0 THEN 0 ELSE coef[find(ii, jj)].a
  IN  old + v \in Vals /\ npij(ii, jj, old + v)

(* pij(ii,jj): a pointer to an existing term, written or only read; the    *)
(* flag is raised in both cases, and also when there is no such term.      *)
pij(ii, jj, v) ==
  \/ find(ii, jj) # 0 /\ WriteAt(find(ii, jj), v)
  \/ /\ re_do_numerics' = 1
     /\ UNCHANGED <<shape, coef, table, order, re_do_symbolic>>

(* operator*=(v) and operator=(v), on every stored term. *)
Overwrite(v) ==
  /\ coef' = [k \in DOMAIN coef |-> [coef[k] EXCEPT !.a = v]]
  /\ re_do_numerics' = 1
  /\ UNCHANGED <<shape, table, order, re_do_symbolic>>

Scale(v) ==
  /\ \A k \in DOMAIN coef : v * coef[k].a \in Vals
  /\ coef' = [k \in DOMAIN coef |-> [coef[k] EXCEPT !.a = v * @]]
  /\ re_do_numerics' = 1
  /\ UNCHANGED <<shape, table, order, re_do_symbolic>>

(* setcoef(x): new values for all the terms, in storage order. *)
setcoef(x) ==
  /\ coef' = [k \in DOMAIN coef |-> [coef[k] EXCEPT !.a = x[k]]]
  /\ UNCHANGED <<shape, table, order, redo>>

-----------------------------------------------------------------------------
(* The formats. *)

(* Sortij, Sortji: nothing when state already says so. *)
Sortij ==
  IF state = sorted_ij
  THEN UNCHANGED <<coef, head>>
  ELSE \E f \in Permutations1(coef) :
         /\ coef' = Rearranged(coef, f)
         /\ SortedIJ(coef')
         /\ head' = ReHash(coef', fortran, n, nhash)

Sortji ==
  IF state = sorted_ji
  THEN UNCHANGED <<coef, head>>
  ELSE \E f \in Permutations1(coef) :
         /\ coef' = Rearranged(coef, f)
         /\ SortedJI(coef')
         /\ head' = ReHash(coef', fortran, n, nhash)

(* Buildp(nn,key,type_m,nnzz): only when the format changes. *)
Buildp(key, nn, type_m, nnzz) ==
  p' = IF type_state = type_m THEN p ELSE Pointer(key, fortran, nn, nnzz)

COO ==
  /\ Sortij
  /\ state' = sorted_ij
  /\ p' = NoP
  /\ type_state' = type_COO
  /\ UNCHANGED <<shape, nnzmax, nhash, redo>>

CSR ==
  /\ Sortij
  /\ state' = sorted_ij
  /\ Buildp(Rows(coef'), n, type_CSR, Len(coef))
  /\ type_state' = type_CSR
  /\ UNCHANGED <<shape, nnzmax, nhash, redo>>

CSC ==
  /\ Sortji
  /\ state' = sorted_ji
  /\ Buildp(Cols(coef'), m, type_CSC, Len(coef))
  /\ type_state' = type_CSC
  /\ UNCHANGED <<shape, nnzmax, nhash, redo>>

(* CSC_U: column order unless the format says so, then the upper triangle  *)
(* in front and a pointer over it alone (over all when it is empty).       *)
CSC_U ==
  LET nnzu == nnzUpper(coef)
      nnzz == IF nnzu = 0 THEN Len(coef) ELSE nnzu
  IN  \E f \in IF type_state = type_CSC THEN {[k \in DOMAIN coef |-> k]}
               ELSE Permutations1(coef) :
      \E g \in Permutations1(coef) :
        LET byColumn == Rearranged(coef, f) IN
        /\ type_state # type_CSC => SortedJI(byColumn)
        /\ UpperFirst(byColumn, g)
        /\ coef' = Rearranged(byColumn, g)
        /\ head' = ReHash(coef', fortran, n, nhash)
        /\ state' = upper_ji
        /\ Buildp(Cols(coef'), m, upper_ji, nnzz)
        /\ type_state' = upper_ji
        /\ UNCHANGED <<shape, nnzmax, nhash, redo>>

(* HM(): back to the default format, with both flags raised. *)
HM ==
  /\ re_do_numerics' = 1
  /\ re_do_symbolic' = 1
  /\ p' = NoP
  /\ type_state' = type_HM
  /\ UNCHANGED <<shape, coef, table, state>>

-----------------------------------------------------------------------------
(* Changes of shape. *)

(* resize(nn,mm,nnnz,tol,sym): the terms inside the new bounds, above the  *)
(* threshold and, when sym, in the lower triangle.                         *)
Kept(nn, mm, tol, sym) ==
  {k \in DOMAIN coef : /\ coef[k].i < nn
                       /\ coef[k].j < mm
                       /\ Larger(coef[k].a, -coef[k].a) > tol
                       /\ sym = 1 => coef[k].j <= coef[k].i}

resize(nn, mm, nnnz, tol, sym) ==
  /\ ~ /\ nn = n /\ mm = m /\ nnnz = Len(coef) /\ tol < 0
       /\ sym * half > 0 \/ (sym = 0 /\ half = 0)
  /\ n' = nn
  /\ m' = mm
  /\ half' = IF half # 0 THEN half ELSE sym
  /\ \E f \in Increasing(Kept(nn, mm, tol, sym)) :
       LET room == Larger(nnnz, Len(coef')) IN
       /\ coef' = Packed(coef, f)
       /\ IF 5 * room < 4 * Len(coef) \/ 5 * room > 6 * Len(coef)
          THEN Increaze(room, coef', fortran, nn, mm)
          ELSE ReHashed(coef', fortran, nn)
  /\ state' = unsorted
  /\ type_state' = type_COO
  /\ UNCHANGED <<fortran, p, redo>>

(* RemoveHalf(cas,tol): cas <= 0 keeps the upper triangle, else the lower; *)
(* the result is symmetric only for cas = 0.                               *)
Triangle(cas, tol) ==
  {k \in DOMAIN coef : /\ Larger(coef[k].a, -coef[k].a) > tol
                       /\ IF cas <= 0 THEN coef[k].i <= coef[k].j
                                      ELSE coef[k].j <= coef[k].i}

RemoveHalf(cas, tol) ==
  /\ half = 0
  /\ half' = IF cas = 0 THEN 1 ELSE 0
  /\ \E f \in Increasing(Triangle(cas, tol)) :
       /\ coef' = Packed(coef, f)
       /\ IF Len(coef') < Len(coef)
          THEN Increaze(Len(coef'), coef', fortran, n, m)
          ELSE ReHashed(coef', fortran, n)
  /\ state' = unsorted
  /\ type_state' = type_COO
  /\ UNCHANGED <<n, m, fortran, p, redo>>

(* clear(): no term, the default format, both flags; the arrays stay. *)
clear ==
  /\ re_do_numerics' = 1
  /\ re_do_symbolic' = 1
  /\ half' = 0
  /\ fortran' = 0
  /\ state' = unsorted
  /\ type_state' = type_HM
  /\ p' = NoP
  /\ coef' = <<>>
  /\ head' = IF coef = <<>> THEN head ELSE [h \in DOMAIN head |-> {}]
  /\ UNCHANGED <<n, m, nnzmax, nhash>>

(* operator=(A): clear, then set() with the terms c of another matrix. *)
set(nn, mm, hhalf, c) ==
  /\ re_do_numerics' = 1
  /\ re_do_symbolic' = 1
  /\ n' = nn
  /\ m' = mm
  /\ half' = hhalf
  /\ fortran' = 0
  /\ state' = unsorted
  /\ type_state' = type_HM
  /\ p' = NoP
  /\ coef' = c
  /\ LET mnx == Larger(nn, mm)
         len == IncreazeMax(Len(c), 0, mnx, nnzmax)
         nh  == IncreazeHash(mnx, len)
     IN  /\ nnzmax' = len
         /\ nhash' = nh
         /\ head' = ReHash(c, 0, nn, nh)

(* setfortran(yes): the indices, and the pointer of a CSR or CSC matrix,   *)
(* are shifted; the table is not touched.                                  *)
setfortran(yes) ==
  LET shift == yes - fortran IN
  /\ shift # 0
  /\ coef' = [k \in DOMAIN coef |->
                [coef[k] EXCEPT !.i = @ + shift, !.j = @ + shift]]
  /\ p' = IF type_state \in {type_CSR, type_CSC}
          THEN [r \in DOMAIN p |->
                  IF r <= (IF type_state = type_CSR THEN n ELSE m)
                  THEN p[r] + shift ELSE p[r]]
          ELSE p
  /\ fortran' = yes
  /\ UNCHANGED <<n, m, half, table, state, type_state, redo>>

(* dotranspose(): i and j, n and m change places; the format is kept. *)
dotranspose ==
  /\ n' = m
  /\ m' = n
  /\ coef' = [k \in DOMAIN coef |-> [coef[k] EXCEPT !.i = coef[k].j, !.j = coef[k].i]]
  /\ ReHashed(coef', fortran, m)
  /\ state' = unsorted
  /\ UNCHANGED <<half, fortran, type_state, p, redo>>

(* GetReDoNumerics(), GetReDoSymbolic(): read and lower the flags. *)
GetReDo ==
  /\ re_do_numerics' = 0
  /\ re_do_symbolic' = 0
  /\ UNCHANGED <<shape, coef, table, order>>
-----------------------------------------------------------------------------
(* The calls.  Only the formats are asked for, and the base changed back,  *)
(* while the indices start at 1: setfortran(1) is called by a solver or a  *)
(* writer that takes CSR or CSC arrays, and undone by setfortran(0).       *)

Access ==
  \E ii \in 0 .. n - 1, jj \in 0 .. m - 1, v \in Vals :
    npij(ii, jj, v) \/ Accumulate(ii, jj, v) \/ pij(ii, jj, v)

Values ==
  \/ \E v \in Vals : Overwrite(v) \/ Scale(v)
  \/ \E x \in [DOMAIN coef -> Vals] : setcoef(x)

Reshape ==
  \/ \E nn, mm \in 1 .. MaxDim, nnnz \in {0, Len(coef)}, tol \in {-1, 0}, sym \in {0, 1} :
       resize(nn, mm, nnnz, tol, sym)
  \/ \E cas \in {-1, 0, 1}, tol \in {-1, 0} : RemoveHalf(cas, tol)
  \/ clear
  \/ \E nn, mm \in 1 .. MaxDim, hhalf \in {0, 1}, c \in Sources :
       /\ \A k \in DOMAIN c : c[k].i < nn /\ c[k].j < mm
       /\ set(nn, mm, hhalf, c)
  \/ type_state \in TransposeFrom /\ dotranspose

Next ==
  \/ fortran = 0 /\ Access
  \/ fortran = 0 /\ Values
  \/ fortran = 0 /\ Reshape
  \/ fortran = 0 /\ COO
  \/ fortran = 0 /\ half = 0 /\ CSC_U
  \/ CSR
  \/ CSC
  \/ HM
  \/ \E yes \in {0, 1} : setfortran(yes)
  \/ GetReDo

Spec == Init /\ [][Next]_vars

-----------------------------------------------------------------------------
(* Every variable has its type, the links are positions of the list and    *)
(* the indices of every term lie in the matrix.                            *)
ShapeOK ==
  /\ n \in 1 .. MaxDim
  /\ m \in 1 .. MaxDim
  /\ half \in {0, 1}
  /\ fortran \in {0, 1}
TermsOK ==
  /\ coef \in Seq([i : Int, j : Int, a : Vals])
  /\ \A k \in DOMAIN coef : Cell(coef[k]) \in Cells
TableOK ==
  /\ nnzmax \in Nat \ {0}
  /\ nhash \in Nat \ {0}
  /\ head \in [0 .. nhash - 1 -> SUBSET (1 .. Len(coef))]
OrderOK ==
  /\ state \in {unsorted, sorted_ij, sorted_ji, upper_ji}
  /\ type_state \in {type_HM, type_COO, type_CSR, type_CSC, upper_ji}
  /\ DOMAIN p = {} \/ \E r \in 1 .. MaxDim : DOMAIN p = 0 .. r
RedoOK ==
  /\ re_do_numerics \in {0, 1}
  /\ re_do_symbolic \in {0, 1}
TypeOK == ShapeOK /\ TermsOK /\ TableOK /\ OrderOK /\ RedoOK

(* After any calls, each term is linked in the bucket of its own cell and  *)
(* nothing else is: sorting, packing, shifting, transposing and growing    *)
(* the arrays all move terms or change the hash function, and each must    *)
(* leave the table as a fresh ReHash would.                                *)
HashInv == head = ReHash(coef, fortran, n, nhash)

(* No cell is stored twice: npij creates a term only when find() cannot    *)
(* see one, so this is what the table is kept for.  Sums over the terms    *)
(* (products, norms, factorizations) count on it.                          *)
NoDuplicate == Distinct(coef)

(* The table and the terms, which only hold together: an insertion is safe *)
(* because find() cannot miss a term.                                      *)
TableInv == TypeOK /\ HashInv /\ NoDuplicate

(* The arrays always have room for the terms: in particular the growth by  *)
(* Increaze() inside simpleinsert makes room for one more, although the    *)
(* factor 1.2 alone does not enlarge an array of less than five terms.     *)
RoomInv == Len(coef) <= nnzmax

(* state never claims an order the terms do not have: Sortij and Sortji    *)
(* are skipped on its word.                                                *)
OrderInv ==
  /\ state = sorted_ij => SortedIJ(coef)
  /\ state = sorted_ji => SortedJI(coef)
  /\ state = upper_ji  =>
       \A k, l \in DOMAIN coef :
         /\ IsUpper(coef[l]) /\ k < l => IsUpper(coef[k])
         /\ IsUpper(coef[l]) /\ k < l =>
              \/ coef[k].j < coef[l].j
              \/ coef[k].j = coef[l].j /\ coef[k].i <= coef[l].i

(* A matrix in CSR, CSC or upper format has the terms in that order and p  *)
(* is the pointer of exactly these terms: Buildp is skipped when           *)
(* type_state already names the format, so every call that moves terms     *)
(* has to give the format up.                                              *)
PointerInv ==
  /\ type_state = type_CSR =>
       state = sorted_ij /\ p = Pointer(Rows(coef), fortran, n, Len(coef))
  /\ type_state = type_CSC =>
       state = sorted_ji /\ p = Pointer(Cols(coef), fortran, m, Len(coef))
  /\ type_state = upper_ji =>
       /\ state = upper_ji
       /\ fortran = 0 =>
            p = Pointer(Cols(coef), 0, m,
                        IF nnzUpper(coef) = 0 THEN Len(coef) ELSE nnzUpper(coef))

(* The two together: the order and the pointer a format stands for.        *)
FormatInv == OrderInv /\ PointerInv

(* The assertion of the sparse product AddMul (HashMatrix.hpp:402): in the *)
(* rows of a square matrix just put in CSR format, the terms from p[r] to  *)
(* p[r+1] are terms of the list, of row r.                                 *)
RowPointerAssertion ==
  type_state = type_CSR /\ state = sorted_ij /\ n = m =>
    \A r \in 0 .. n - 1 :
      /\ r + 1 \in DOMAIN p
      /\ \A ll \in p[r] .. p[r + 1] - 1 :
           /\ ll - fortran + 1 \in DOMAIN coef
           /\ coef[ll - fortran + 1].i = r + fortran

-----------------------------------------------------------------------------
(* What a matrix promises: a map from cells to values, reached by find().  *)
Content ==
  LET At(c)  == find(c[1] + fortran, c[2] + fortran)
      stored == {c \in (0 .. n - 1) \X (0 .. m - 1) : At(c) # 0}
  IN  [c \in stored |-> coef[At(c)].a]

MapOf(c) == [d \in {Cell(c[k]) : k \in DOMAIN c} |->
               (CHOOSE t \in {c[k] : k \in DOMAIN c} : Cell(t) = d).a]

CopiedMaps == {MapOf(c) : c \in Sources}

Abstract == INSTANCE SparseMap
              WITH rows <- n, cols <- m, map <- Content, Others <- CopiedMaps

(* Asking for a format, or changing the base of the indices, moves terms   *)
(* and rebuilds the table, but every cell reads as it did before.          *)
FormatKeepsContent ==
  [][ \/ type_state' # type_state /\ type_state' \in {type_CSR, type_CSC, upper_ji}
      \/ fortran' # fortran
      => Content' = Content ]_vars

(* Every call changes the map find() shows as its name says and as nothing *)
(* else: a change of format, of base or of size of the arrays is no change *)
ImplementsSparseMap == Abstract!Spec /\ FormatKeepsContent
==============================================================================
