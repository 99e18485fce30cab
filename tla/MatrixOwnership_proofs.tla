------------------------ MODULE MatrixOwnership_proofs ------------------------
(***************************************************************************)
(* Proofs about MatrixOwnership, for any variables, any memory for         *)
(* matrices and solvers, and any spaces.                                   *)
(***************************************************************************)
EXTENDS MatrixOwnership, FiniteSetTheorems, TLAPS

-----------------------------------------------------------------------------
(* Heaps. *)

Heap == [mat : [Matrices -> MatrixRecord \cup {Dead}],
         sol : [Solvers -> SolverRecord \cup {Dead}]]

LiveIn(h)    == {a \in Matrices : h.mat[a] # Dead}
SolvingIn(h) == {s \in Solvers : h.sol[s] # Dead}
Users(h, s)  == {a \in LiveIn(h) : h.mat[a].vsolver = s}

(* The counters of the solvers are right, and no matrix holds a deleted    *)
(* one, or, unless removeHalf made it, one that was made for another.      *)
HeapOK(h) ==
  /\ h \in Heap
  /\ \A a \in LiveIn(h) : h.mat[a].vsolver # None =>
       /\ h.mat[a].vsolver \in SolvingIn(h)
       /\ ~h.mat[a].halved => h.sol[h.mat[a].vsolver].of = a
  /\ \A s \in SolvingIn(h) : h.sol[s].count + 1 = Cardinality(Users(h, s))

(* The heap k is h but for the memory of a, which holds r.                 *)
OnlyAt(h, k, a, r) ==
  k.mat[a] = r /\ \A b \in Matrices \ {a} : k.mat[b] = h.mat[b]

(* Solvers and matrices are records, never Dead.                           *)
LEMMA Kinds ==
  ASSUME NEW h \in Heap
  PROVE  /\ \A a \in LiveIn(h) : a \in Matrices /\ h.mat[a] \in MatrixRecord
         /\ \A s \in SolvingIn(h) : s \in Solvers /\ h.sol[s] \in SolverRecord
         /\ \A r \in MatrixRecord \cup SolverRecord : r # Dead
         /\ None \notin Matrices \cup Solvers
BY OwnershipAssumption DEF Heap, LiveIn, SolvingIn

(* The users of a solver are finitely many.                                *)
LEMMA UsersFinite ==
  ASSUME NEW h, NEW s
  PROVE  IsFiniteSet(Users(h, s)) /\ Cardinality(Users(h, s)) \in Nat
<1>1. Users(h, s) \subseteq Matrices
  BY DEF Users, LiveIn
<1> QED
  BY <1>1, OwnershipAssumption, FS_Subset, FS_CardinalityType

(* A matrix that holds a solver gives it up: the last one deletes it.      *)
LEMMA DropSolver ==
  ASSUME NEW h, HeapOK(h), NEW a \in LiveIn(h), NEW k \in Heap, NEW r, OnlyAt(h, k, a, r),
         r = Dead \/ (r \in MatrixRecord /\ r.vsolver = None),
         k.sol = destroySolver(h, h.mat[a].vsolver).sol
  PROVE  HeapOK(k)
<1> DEFINE s == h.mat[a].vsolver
<1>0. h \in Heap
  BY DEF HeapOK
<1>1. LiveIn(k) \subseteq LiveIn(h) /\ \A b \in LiveIn(k) \ {a} : k.mat[b] = h.mat[b]
  BY DEF LiveIn, OnlyAt
<1>2. a \in LiveIn(k) => k.mat[a].vsolver = None
  BY DEF LiveIn, OnlyAt
<1>3. \A t \in Solvers \ {s} : Users(k, t) = Users(h, t)
  BY <1>1, <1>2, OwnershipAssumption DEF Users, OnlyAt, LiveIn
<1>4. ASSUME NEW b \in LiveIn(k), k.mat[b].vsolver # None
      PROVE  /\ k.mat[b] = h.mat[b] /\ h.mat[b].vsolver \in SolvingIn(h)
             /\ h.mat[b].vsolver \in Solvers
             /\ ~h.mat[b].halved => h.sol[h.mat[b].vsolver].of = b
  <2>1. b # a /\ b \in LiveIn(h) /\ k.mat[b] = h.mat[b]
    BY <1>1, <1>2, <1>4
  <2> QED
    BY <1>4, <2>1 DEF HeapOK, SolvingIn
<1>5. CASE s = None
  <2>1. k.sol = h.sol
    BY <1>5 DEF destroySolver
  <2>2. \A t \in Solvers : Users(k, t) = Users(h, t)
    BY <1>3, <1>5, OwnershipAssumption
  <2>3. \A b \in LiveIn(k) : k.mat[b].vsolver # None =>
          /\ k.mat[b].vsolver \in SolvingIn(k)
          /\ ~k.mat[b].halved => k.sol[k.mat[b].vsolver].of = b
    BY <1>4, <2>1 DEF SolvingIn
  <2> QED
    BY <2>1, <2>2, <2>3 DEF HeapOK, SolvingIn
<1>6. CASE s # None
  <2>1. s \in SolvingIn(h) /\ s \in Solvers /\ h.sol[s] \in SolverRecord /\ h.sol[s].count \in Nat
    BY <1>0, <1>6, Kinds DEF HeapOK, SolverRecord
  <2>2. Users(k, s) = Users(h, s) \ {a} /\ a \in Users(h, s)
    BY <1>1, <1>2, <1>6 DEF Users, OnlyAt, LiveIn
  <2>3. /\ Cardinality(Users(k, s)) = Cardinality(Users(h, s)) - 1
        /\ Cardinality(Users(h, s)) = h.sol[s].count + 1
    <3>0. IsFiniteSet(Users(h, s))
      BY UsersFinite
    <3>1. Cardinality(Users(h, s) \ {a}) = Cardinality(Users(h, s)) - 1
      <4> HIDE DEF s
      <4> QED
        BY <2>2, <3>0, FS_RemoveElement
    <3>2. Cardinality(Users(h, s)) = h.sol[s].count + 1
      BY <2>1 DEF HeapOK
    <3> QED
      BY <2>2, <3>1, <3>2
  <2>4. k.sol = [h.sol EXCEPT ![s] = IF h.sol[s].count = 0 THEN Dead
                                     ELSE [h.sol[s] EXCEPT !.count = @ - 1]]
    BY <1>0, <1>6, <2>1 DEF destroySolver, Heap
  <2>5. \A t \in Solvers \ {s} : k.sol[t] = h.sol[t]
    BY <2>4
  <2>6. CASE h.sol[s].count = 0
    <3>1. Users(k, s) = {}
      BY <2>1, <2>3, <2>6, UsersFinite, FS_EmptySet
    <3>2. \A b \in LiveIn(k) : k.mat[b].vsolver # s
      BY <3>1 DEF Users
    <3>3. s \notin SolvingIn(k)
      BY <1>0, <2>1, <2>4, <2>6 DEF SolvingIn, Heap
    <3>4. \A b \in LiveIn(k) : k.mat[b].vsolver # None =>
            /\ k.mat[b].vsolver \in SolvingIn(k)
            /\ ~k.mat[b].halved => k.sol[k.mat[b].vsolver].of = b
      BY <1>4, <2>5, <3>2 DEF SolvingIn
    <3>5. ASSUME NEW t \in SolvingIn(k) PROVE k.sol[t].count + 1 = Cardinality(Users(k, t))
      <4>1. t \in Solvers \ {s} /\ k.sol[t] = h.sol[t] /\ t \in SolvingIn(h)
        BY <2>5, <3>3, <3>5 DEF SolvingIn
      <4> QED
        BY <1>3, <4>1 DEF HeapOK
    <3> QED
      BY <3>4, <3>5 DEF HeapOK
  <2>7. CASE h.sol[s].count # 0
    <3>1. /\ k.sol[s].count = h.sol[s].count - 1 /\ k.sol[s].of = h.sol[s].of
          /\ k.sol[s] \in SolverRecord /\ k.sol[s] # Dead
      <4>1. k.sol[s] = [h.sol[s] EXCEPT !.count = @ - 1]
        BY <1>0, <2>1, <2>4, <2>7 DEF Heap
      <4>2. k.sol[s].count = h.sol[s].count - 1 /\ k.sol[s].of = h.sol[s].of /\ k.sol[s] \in SolverRecord
        BY <2>1, <2>7, <4>1 DEF SolverRecord
      <4> QED
        BY <4>2, OwnershipAssumption
    <3>2. \A b \in LiveIn(k) : k.mat[b].vsolver # None =>
            /\ k.mat[b].vsolver \in SolvingIn(k)
            /\ ~k.mat[b].halved => k.sol[k.mat[b].vsolver].of = b
      <4>1. s \in SolvingIn(k) /\ k.sol[s].of = h.sol[s].of
        BY <2>1, <3>1 DEF SolvingIn
      <4>2. ASSUME NEW t \in SolvingIn(h), t \in Solvers
            PROVE  t \in SolvingIn(k) /\ k.sol[t].of = h.sol[t].of
        BY <2>5, <4>1, <4>2 DEF SolvingIn
      <4> QED
        BY <1>4, <4>2
    <3>3. ASSUME NEW t \in SolvingIn(k) PROVE k.sol[t].count + 1 = Cardinality(Users(k, t))
      <4>1. CASE t = s
        BY <2>1, <2>3, <3>1, <4>1
      <4>2. CASE t # s
        BY <1>3, <2>5, <4>2 DEF HeapOK, SolvingIn
      <4> QED
        BY <4>1, <4>2
    <3> QED
      BY <3>2, <3>3 DEF HeapOK
  <2> QED
    BY <2>6, <2>7
<1> QED
  BY <1>5, <1>6

(* A matrix without a solver takes a new one.                              *)
LEMMA TakeSolver ==
  ASSUME NEW h, HeapOK(h), NEW a \in LiveIn(h), h.mat[a].vsolver = None,
         NEW s \in Solvers, s \notin SolvingIn(h),
         NEW k \in Heap, NEW r \in MatrixRecord, OnlyAt(h, k, a, r), r.vsolver = s,
         k.sol = [h.sol EXCEPT ![s] = [count |-> 0, of |-> a]]
  PROVE  HeapOK(k)
<1>0. h \in Heap /\ s # None /\ r # Dead
  BY OwnershipAssumption DEF HeapOK
<1>1. LiveIn(k) = LiveIn(h) /\ \A b \in LiveIn(k) \ {a} : k.mat[b] = h.mat[b]
  BY <1>0 DEF LiveIn, OnlyAt
<1>2. a \in LiveIn(k) /\ k.mat[a].vsolver = s
  BY <1>1 DEF OnlyAt
<1>3. \A b \in LiveIn(h) : h.mat[b].vsolver # s
  BY <1>0 DEF HeapOK
<1>4. /\ \A t \in Solvers \ {s} : k.sol[t] = h.sol[t] /\ Users(k, t) = Users(h, t)
      /\ Users(k, s) = {a}
  BY <1>0, <1>1, <1>2, <1>3, OwnershipAssumption DEF Users, Heap
<1>5. k.sol[s] = [count |-> 0, of |-> a] /\ k.sol[s] # Dead
  <2>1. k.sol[s] = [count |-> 0, of |-> a]
    BY <1>0 DEF Heap
  <2>2. k.sol[s] \in SolverRecord
    BY <2>1 DEF LiveIn, SolverRecord
  <2> QED
    BY <2>1, <2>2, OwnershipAssumption
<1>6. \A b \in LiveIn(k) : k.mat[b].vsolver # None =>
        /\ k.mat[b].vsolver \in SolvingIn(k)
        /\ ~k.mat[b].halved => k.sol[k.mat[b].vsolver].of = b
  <2>1. ASSUME NEW b \in LiveIn(k), b # a, k.mat[b].vsolver # None
        PROVE  /\ k.mat[b].vsolver \in SolvingIn(k)
               /\ ~k.mat[b].halved => k.sol[k.mat[b].vsolver].of = b
    BY <1>1, <1>3, <1>4, <2>1 DEF HeapOK, SolvingIn
  <2>2. s \in SolvingIn(k) /\ k.sol[s].of = a
    BY <1>5 DEF SolvingIn
  <2> QED
    BY <1>2, <2>1, <2>2
<1>7. ASSUME NEW t \in SolvingIn(k) PROVE k.sol[t].count + 1 = Cardinality(Users(k, t))
  <2>1. CASE t = s
    BY <1>4, <1>5, <2>1, FS_Singleton
  <2>2. CASE t # s
    BY <1>4, <1>7, <2>2 DEF HeapOK, SolvingIn
  <2> QED
    BY <2>1, <2>2
<1> QED
  BY <1>6, <1>7 DEF HeapOK

(* A copy by the copy constructor shares the solver.                       *)
LEMMA ShareSolver ==
  ASSUME NEW h, HeapOK(h), NEW a \in Matrices \ LiveIn(h), NEW b \in LiveIn(h),
         NEW k \in Heap, NEW r \in MatrixRecord, OnlyAt(h, k, a, r),
         r.vsolver = h.mat[b].vsolver, r.halved,
         k.sol = IF r.vsolver = None THEN h.sol
                 ELSE [h.sol EXCEPT ![r.vsolver].count = @ + 1]
  PROVE  HeapOK(k)
<1> DEFINE s == r.vsolver
<1>0. h \in Heap /\ r # Dead
  BY OwnershipAssumption DEF HeapOK
<1>1. LiveIn(k) = LiveIn(h) \cup {a} /\ \A c \in LiveIn(h) : k.mat[c] = h.mat[c]
  BY <1>0 DEF LiveIn, OnlyAt
<1>2. k.mat[a].vsolver = s /\ k.mat[a].halved
  BY DEF OnlyAt
<1>3. \A t \in Solvers \ {s} : Users(k, t) = Users(h, t)
  BY <1>1, <1>2 DEF Users
<1>4. CASE s = None
  <2>1. k.sol = h.sol /\ \A t \in Solvers : Users(k, t) = Users(h, t)
    BY <1>3, <1>4, OwnershipAssumption
  <2>2. \A c \in LiveIn(k) : k.mat[c].vsolver # None =>
          /\ k.mat[c].vsolver \in SolvingIn(k)
          /\ ~k.mat[c].halved => k.sol[k.mat[c].vsolver].of = c
    BY <1>1, <1>2, <1>4, <2>1 DEF HeapOK, SolvingIn
  <2> QED
    BY <2>1, <2>2 DEF HeapOK, SolvingIn
<1>5. CASE s # None
  <2>1. s \in SolvingIn(h) /\ s \in Solvers /\ h.sol[s] \in SolverRecord /\ h.sol[s].count \in Nat
    BY <1>0, <1>5, Kinds DEF HeapOK, SolverRecord
  <2>2. k.sol[s] = [h.sol[s] EXCEPT !.count = @ + 1] /\ \A t \in Solvers \ {s} : k.sol[t] = h.sol[t]
    <3>1. h.sol \in [Solvers -> SolverRecord \cup {Dead}]
      BY <1>0 DEF Heap
    <3>2. k.sol = [h.sol EXCEPT ![s].count = @ + 1]
      BY <1>5
    <3> HIDE DEF s
    <3> QED
      BY <2>1, <3>1, <3>2
  <2>3. /\ k.sol[s].count = h.sol[s].count + 1 /\ k.sol[s].of = h.sol[s].of
        /\ k.sol[s] \in SolverRecord
    <3> DEFINE o == h.sol[s]
    <3>1. o \in SolverRecord /\ k.sol[s] = [o EXCEPT !.count = @ + 1]
      BY <2>1, <2>2
    <3> HIDE DEF o
    <3>2. [o EXCEPT !.count = @ + 1] \in SolverRecord
      BY <3>1 DEF SolverRecord
    <3>3. [o EXCEPT !.count = @ + 1].count = o.count + 1 /\ [o EXCEPT !.count = @ + 1].of = o.of
      BY <3>1 DEF SolverRecord
    <3> QED
      BY <3>1, <3>2, <3>3 DEF o
  <2>4. k.sol[s] # Dead
    BY <2>3, OwnershipAssumption
  <2>5. Users(k, s) = Users(h, s) \cup {a} /\ a \notin Users(h, s)
    BY <1>1, <1>2 DEF Users
  <2>6. Cardinality(Users(k, s)) = k.sol[s].count + 1
    <3>1. Cardinality(Users(h, s) \cup {a}) = Cardinality(Users(h, s)) + 1
      BY <2>5, UsersFinite, FS_AddElement
    <3>2. Cardinality(Users(h, s)) = h.sol[s].count + 1
      BY <2>1 DEF HeapOK
    <3> QED
      BY <2>1, <2>3, <2>5, <3>1, <3>2
  <2>7. \A c \in LiveIn(k) : k.mat[c].vsolver # None =>
          /\ k.mat[c].vsolver \in SolvingIn(k)
          /\ ~k.mat[c].halved => k.sol[k.mat[c].vsolver].of = c
    <3>1. ASSUME NEW c \in LiveIn(h), h.mat[c].vsolver # None
          PROVE  /\ h.mat[c].vsolver \in SolvingIn(k)
                 /\ ~h.mat[c].halved => k.sol[h.mat[c].vsolver].of = c
      <4>1. /\ h.mat[c].vsolver \in SolvingIn(h) /\ h.mat[c].vsolver \in Solvers
            /\ ~h.mat[c].halved => h.sol[h.mat[c].vsolver].of = c
        BY <3>1 DEF HeapOK, SolvingIn
      <4>2. CASE h.mat[c].vsolver = s
        BY <2>1, <2>3, <2>4, <4>1, <4>2 DEF SolvingIn
      <4>3. CASE h.mat[c].vsolver # s
        BY <2>2, <4>1, <4>3 DEF SolvingIn
      <4> QED
        BY <4>2, <4>3
    <3>2. s \in SolvingIn(k)
      BY <2>1, <2>4 DEF SolvingIn
    <3> QED
      BY <1>1, <1>2, <3>1, <3>2
  <2>8. \A t \in SolvingIn(k) : k.sol[t].count + 1 = Cardinality(Users(k, t))
    BY <1>3, <2>2, <2>6 DEF HeapOK, SolvingIn
  <2> QED
    BY <2>7, <2>8 DEF HeapOK
<1> QED
  BY <1>4, <1>5

(* A new matrix has no solver, and a change of its rows, of its space or   *)
(* of its counter leaves its solver alone.                                 *)
LEMMA SameSolvers ==
  ASSUME NEW h, HeapOK(h), NEW a \in Matrices, NEW k \in Heap, NEW r \in MatrixRecord,
         OnlyAt(h, k, a, r), k.sol = h.sol,
         IF a \in LiveIn(h) THEN r.vsolver = h.mat[a].vsolver /\ r.halved = h.mat[a].halved
         ELSE r.vsolver = None
  PROVE  HeapOK(k)
<1>0. h \in Heap /\ r # Dead
  BY OwnershipAssumption DEF HeapOK
<1>1. LiveIn(k) = LiveIn(h) \cup {a} /\ \A b \in LiveIn(h) \ {a} : k.mat[b] = h.mat[b]
  BY <1>0 DEF LiveIn, OnlyAt
<1>2. \A s \in Solvers : Users(k, s) = Users(h, s)
  BY <1>1, OwnershipAssumption DEF Users, OnlyAt
<1>3. \A c \in LiveIn(k) : k.mat[c].vsolver # None =>
        /\ k.mat[c].vsolver \in SolvingIn(k)
        /\ ~k.mat[c].halved => k.sol[k.mat[c].vsolver].of = c
  BY <1>1 DEF HeapOK, SolvingIn, OnlyAt
<1> QED
  BY <1>2, <1>3 DEF HeapOK, SolvingIn

-----------------------------------------------------------------------------
(* Operations on a heap. *)

(* VSolver::destroy leaves the matrices alone.                             *)
LEMMA destroySolverOK ==
  ASSUME NEW h \in Heap, NEW s, s = None \/ s \in SolvingIn(h)
  PROVE  /\ destroySolver(h, s) \in Heap /\ destroySolver(h, s).mat = h.mat
         /\ FreeSolvers(h) \subseteq FreeSolvers(destroySolver(h, s))
<1>1. CASE s = None
  BY <1>1 DEF destroySolver
<1>2. CASE s # None
  <2>1. h.sol[s] \in SolverRecord /\ s \in Solvers
    BY <1>2, Kinds
  <2>2. CASE h.sol[s].count = 0
    BY <1>2, <2>1, <2>2 DEF destroySolver, Heap, FreeSolvers
  <2>3. CASE h.sol[s].count # 0
    <3>1. [h.sol[s] EXCEPT !.count = @ - 1] \in SolverRecord
      BY <2>1, <2>3 DEF SolverRecord
    <3>2. destroySolver(h, s) = [h EXCEPT !.sol[s] = [h.sol[s] EXCEPT !.count = @ - 1]]
      BY <1>2, <2>1, <2>3 DEF destroySolver, Heap
    <3>3. s \notin FreeSolvers(h)
      BY <2>1, OwnershipAssumption DEF FreeSolvers
    <3> QED
      BY <2>1, <3>1, <3>2, <3>3 DEF Heap, FreeSolvers
  <2> QED
    BY <2>2, <2>3
<1> QED
  BY <1>1, <1>2

(* RefCounter::destroy: the last owner deletes the matrix.                 *)
LEMMA destroyOK ==
  ASSUME NEW h, HeapOK(h), NEW a \in LiveIn(h)
  PROVE  /\ HeapOK(destroy(h, a))
         /\ \A b \in Matrices \ {a} : destroy(h, a).mat[b] = h.mat[b]
         /\ h.mat[a].count = 0 => destroy(h, a).mat[a] = Dead
         /\ h.mat[a].count # 0 =>
              /\ destroy(h, a).mat[a] \in MatrixRecord
              /\ destroy(h, a).mat[a].count = h.mat[a].count - 1
         /\ FreeSolvers(h) \subseteq FreeSolvers(destroy(h, a))
<1> DEFINE k == destroy(h, a)
           s == h.mat[a].vsolver
           g == destroySolver(h, s)
<1>0. /\ h \in Heap /\ a \in Matrices /\ a # None /\ h.mat[a] \in MatrixRecord
      /\ s = None \/ s \in SolvingIn(h)
  BY Kinds DEF HeapOK
<1>1. CASE h.mat[a].count = 0
  <2>1. k = [g EXCEPT !.mat[a] = Dead]
    BY <1>0, <1>1 DEF destroy, DeleteMatrix
  <2>2. g \in Heap /\ g.mat = h.mat /\ FreeSolvers(h) \subseteq FreeSolvers(g)
    BY <1>0, destroySolverOK
  <2> HIDE DEF g
  <2>3. k \in Heap /\ OnlyAt(h, k, a, Dead) /\ k.sol = g.sol
    BY <1>0, <2>1, <2>2 DEF Heap, OnlyAt
  <2>4. HeapOK(k)
    BY <2>3, DropSolver DEF g
  <2> QED
    BY <1>1, <2>2, <2>3, <2>4 DEF OnlyAt, FreeSolvers
<1>2. CASE h.mat[a].count # 0
  <2> DEFINE r == [h.mat[a] EXCEPT !.count = @ - 1]
  <2>1. k = [h EXCEPT !.mat[a] = r]
    BY <1>0, <1>2 DEF destroy, Heap
  <2>2. r \in MatrixRecord /\ r.vsolver = s /\ r.halved = h.mat[a].halved /\ r.count = h.mat[a].count - 1
    BY <1>0, <1>2 DEF MatrixRecord
  <2> HIDE DEF r
  <2>3. k \in Heap /\ OnlyAt(h, k, a, r) /\ k.sol = h.sol
    BY <1>0, <2>1, <2>2 DEF Heap, OnlyAt
  <2>4. HeapOK(k)
    BY <2>2, <2>3, <1>0, SameSolvers
  <2> QED
    BY <1>2, <2>2, <2>3, <2>4 DEF OnlyAt, FreeSolvers
<1> QED
  BY <1>1, <1>2

(* A new matrix.                                                           *)
LEMMA NewMatrixOK ==
  ASSUME NEW h, HeapOK(h), NEW a \in FreeMatrices(h), NEW d \in Nat
  PROVE  /\ HeapOK(NewMatrix(h, a, d))
         /\ \A b \in Matrices \ {a} : NewMatrix(h, a, d).mat[b] = h.mat[b]
         /\ NewMatrix(h, a, d).mat[a] = [count |-> 0, n |-> d, vsolver |-> None, space |-> None,
                                         halved |-> FALSE]
         /\ NewMatrix(h, a, d).mat[a] \in MatrixRecord
         /\ NewMatrix(h, a, d).sol = h.sol
         /\ LiveIn(NewMatrix(h, a, d)) = LiveIn(h) \cup {a}
<1> DEFINE r == [count |-> 0, n |-> d, vsolver |-> None, space |-> None, halved |-> FALSE]
           k == NewMatrix(h, a, d)
<1>0. h \in Heap /\ a \in Matrices /\ a \notin LiveIn(h)
  BY DEF HeapOK, FreeMatrices, LiveIn
<1>1. r \in MatrixRecord /\ r.vsolver = None
  BY DEF MatrixRecord
<1>2. k = [h EXCEPT !.mat[a] = r]
  BY DEF NewMatrix
<1>3. r # Dead
  BY <1>1, OwnershipAssumption
<1> HIDE DEF r, k
<1>4. k \in Heap /\ OnlyAt(h, k, a, r) /\ k.sol = h.sol
  BY <1>0, <1>1, <1>2 DEF Heap, OnlyAt
<1>5. HeapOK(k)
  BY <1>0, <1>1, <1>4, SameSolvers
<1>6. LiveIn(k) = LiveIn(h) \cup {a}
  BY <1>0, <1>3, <1>4 DEF LiveIn, OnlyAt
<1> QED
  BY <1>1, <1>4, <1>5, <1>6 DEF OnlyAt, r, k

(* The copy of removeHalf.                                                 *)
LEMMA HalvedOK ==
  ASSUME NEW h, HeapOK(h), NEW a \in FreeMatrices(h), NEW b \in LiveIn(h)
  PROVE  /\ HeapOK(Halved(h, a, b))
         /\ \A c \in Matrices \ {a} : Halved(h, a, b).mat[c] = h.mat[c]
         /\ Halved(h, a, b).mat[a] \in MatrixRecord
         /\ Halved(h, a, b).mat[a].count = 0
         /\ LiveIn(Halved(h, a, b)) = LiveIn(h) \cup {a}
<1> DEFINE s == h.mat[b].vsolver
           d == h.mat[b].n
           g == NewMatrix(h, a, d)
           r == [[g.mat[a] EXCEPT !.vsolver = s] EXCEPT !.halved = TRUE]
           k == Halved(h, a, b)
<1>0. /\ h \in Heap /\ a \in Matrices /\ a \notin LiveIn(h) /\ b \in Matrices
      /\ h.mat[b] \in MatrixRecord
  BY Kinds DEF HeapOK, FreeMatrices, LiveIn
<1>1. d \in Nat /\ s \in Solvers \cup {None}
  BY <1>0 DEF MatrixRecord
<1>2. /\ g \in Heap /\ g.sol = h.sol /\ \A c \in Matrices \ {a} : g.mat[c] = h.mat[c]
      /\ g.mat[a] = [count |-> 0, n |-> d, vsolver |-> None, space |-> None, halved |-> FALSE]
      /\ g.mat[a] \in MatrixRecord
  BY <1>1, NewMatrixOK DEF HeapOK
<1>3. k = [CopyMatrix(h, a, b) EXCEPT !.mat[a].halved = TRUE]
  BY DEF Halved
<1>4. CopyMatrix(h, a, b) = IF s = None THEN [g EXCEPT !.mat[a].vsolver = s]
                            ELSE [[g EXCEPT !.mat[a].vsolver = s] EXCEPT !.sol[s].count = @ + 1]
  BY DEF CopyMatrix
<1> HIDE DEF g, k, s, d
<1>5. k.mat = [g.mat EXCEPT ![a] = r]
  <2>1. CopyMatrix(h, a, b).mat = [g.mat EXCEPT ![a] = [@ EXCEPT !.vsolver = s]]
    BY <1>2, <1>4 DEF Heap
  <2>2. k.mat = [CopyMatrix(h, a, b).mat EXCEPT ![a] = [@ EXCEPT !.halved = TRUE]]
    BY <1>2, <1>3, <1>4 DEF Heap
  <2>4. a \in DOMAIN g.mat
    BY <1>0, <1>2 DEF Heap
  <2> QED
    BY <2>1, <2>2, <2>4
<1>6. k.sol = IF s = None THEN h.sol ELSE [h.sol EXCEPT ![s].count = @ + 1]
  BY <1>2, <1>3, <1>4 DEF Heap
<1>7. s # None => [h.sol EXCEPT ![s].count = @ + 1] \in [Solvers -> SolverRecord \cup {Dead}]
  <2> SUFFICES ASSUME s # None
               PROVE  [h.sol EXCEPT ![s].count = @ + 1] \in [Solvers -> SolverRecord \cup {Dead}]
    OBVIOUS
  <2>1. s \in SolvingIn(h)
    BY DEF HeapOK, s
  <2>2. s \in Solvers /\ h.sol[s] \in SolverRecord
    BY <1>0, <2>1, Kinds
  <2>3. [h.sol[s] EXCEPT !.count = @ + 1] \in SolverRecord
    BY <2>2 DEF SolverRecord
  <2> QED
    BY <1>0, <2>2, <2>3 DEF Heap
<1>8. r \in MatrixRecord /\ r.vsolver = s /\ r.halved /\ r.count = 0
  <2>1. g.mat[a] \in MatrixRecord /\ g.mat[a].count = 0
    BY <1>2
  <2> QED
    BY <1>1, <2>1 DEF MatrixRecord
<1> HIDE DEF r
<1>9. k \in Heap
  <2>1. k.mat \in [Matrices -> MatrixRecord \cup {Dead}] /\ k.sol \in [Solvers -> SolverRecord \cup {Dead}]
    BY <1>0, <1>8, <1>2, <1>5, <1>6, <1>7 DEF Heap
  <2>2. k = [mat |-> k.mat, sol |-> k.sol]
    BY <1>2, <1>3, <1>4 DEF Heap
  <2> QED
    BY <2>1, <2>2 DEF Heap
<1>10. OnlyAt(h, k, a, r)
  BY <1>0, <1>2, <1>5 DEF OnlyAt, Heap
<1>11. HeapOK(k)
  BY <1>0, <1>8, <1>6, <1>9, <1>10, ShareSolver DEF s
<1>12. r # Dead
  BY <1>8, OwnershipAssumption
<1> QED
  BY <1>0, <1>8, <1>10, <1>11, <1>12 DEF OnlyAt, LiveIn, k

(* SetSolver(null).                                                        *)
LEMMA SetNoSolverOK ==
  ASSUME NEW h, HeapOK(h), NEW a \in LiveIn(h)
  PROVE  /\ HeapOK(SetSolver(h, a, None))
         /\ \A b \in Matrices \ {a} : SetSolver(h, a, None).mat[b] = h.mat[b]
         /\ SetSolver(h, a, None).mat[a] \in MatrixRecord
         /\ SetSolver(h, a, None).mat[a].count = h.mat[a].count
         /\ SetSolver(h, a, None).mat[a].vsolver = None
         /\ SetSolver(h, a, None).sol = destroySolver(h, h.mat[a].vsolver).sol
<1> DEFINE g == destroySolver(h, h.mat[a].vsolver)
           r == [h.mat[a] EXCEPT !.vsolver = None]
           k == SetSolver(h, a, None)
<1>0. h \in Heap /\ a \in Matrices /\ h.mat[a] \in MatrixRecord
  BY Kinds DEF HeapOK
<1>1. g \in Heap /\ g.mat = h.mat
  BY <1>0, destroySolverOK DEF HeapOK
<1>2. k = [g EXCEPT !.mat[a].vsolver = None]
  BY DEF SetSolver
<1>3. r \in MatrixRecord /\ r.vsolver = None /\ r.count = h.mat[a].count
  BY <1>0 DEF MatrixRecord
<1> HIDE DEF g, k
<1>4. k.mat = [h.mat EXCEPT ![a] = r] /\ k.sol = g.sol /\ k = [mat |-> k.mat, sol |-> k.sol]
  BY <1>0, <1>1, <1>2 DEF Heap
<1> HIDE DEF r
<1>5. k \in Heap /\ OnlyAt(h, k, a, r)
  BY <1>0, <1>1, <1>3, <1>4 DEF Heap, OnlyAt
<1>6. HeapOK(k)
  BY <1>3, <1>4, <1>5, DropSolver DEF g
<1> QED
  BY <1>3, <1>4, <1>5, <1>6 DEF OnlyAt, g, k

(* SetSolver with a new solver.                                            *)
LEMMA AttachedOK ==
  ASSUME NEW h, HeapOK(h), NEW a \in LiveIn(h), NEW t \in FreeSolvers(h)
  PROVE  /\ HeapOK(Attached(h, a, t))
         /\ \A b \in Matrices \ {a} : Attached(h, a, t).mat[b] = h.mat[b]
         /\ Attached(h, a, t).mat[a] \in MatrixRecord
         /\ Attached(h, a, t).mat[a].count = h.mat[a].count
<1> DEFINE s == h.mat[a].vsolver
           new == [count |-> 0, of |-> a]
           h1 == [h EXCEPT !.sol[t] = new]
           g1 == destroySolver(h1, s)
           k0 == SetSolver(h, a, None)
           r == [k0.mat[a] EXCEPT !.vsolver = t]
           k == Attached(h, a, t)
<1>0. /\ h \in Heap /\ a \in Matrices /\ h.mat[a] \in MatrixRecord /\ t \in Solvers
      /\ t \notin SolvingIn(h)
      /\ s = None \/ s \in SolvingIn(h)
  BY Kinds DEF HeapOK, FreeSolvers, SolvingIn
<1>1. new \in SolverRecord
  BY <1>0 DEF SolverRecord
<1>2. h1 \in Heap /\ h1.mat = h.mat /\ h1.sol = [h.sol EXCEPT ![t] = new]
  BY <1>0, <1>1 DEF Heap
<1>3. s = None \/ (s \in SolvingIn(h1) /\ s \in SolvingIn(h) /\ s # t /\ h1.sol[s] = h.sol[s])
  <2> SUFFICES ASSUME s # None
               PROVE  s \in SolvingIn(h1) /\ s \in SolvingIn(h) /\ s # t /\ h1.sol[s] = h.sol[s]
    OBVIOUS
  <2> HIDE DEF s, h1, new
  <2>1. s \in SolvingIn(h) /\ s # t
    BY <1>0
  <2>2. s \in Solvers
    BY <2>1 DEF SolvingIn
  <2>3. h1.sol[s] = h.sol[s]
    BY <1>0, <1>2, <2>1, <2>2 DEF Heap
  <2> QED
    BY <2>1, <2>2, <2>3 DEF SolvingIn
<1>4. g1 \in Heap /\ g1.mat = h1.mat
  BY <1>2, <1>3, destroySolverOK
<1>5. g1.sol = [destroySolver(h, s).sol EXCEPT ![t] = new]
  <2>1. CASE s = None
    BY <1>2, <2>1 DEF destroySolver
  <2>2. CASE s # None /\ h.sol[s].count = 0
    <3>1. g1.sol = [h1.sol EXCEPT ![s] = Dead] /\ destroySolver(h, s).sol = [h.sol EXCEPT ![s] = Dead]
      BY <1>0, <1>2, <1>3, <2>2 DEF destroySolver, Heap
    <3> QED
      BY <1>0, <1>2, <1>3, <2>2, <3>1 DEF Heap
  <2>3. CASE s # None /\ h.sol[s].count # 0
    <3> DEFINE q == [h.sol[s] EXCEPT !.count = @ - 1]
    <3>1. g1.sol = [h1.sol EXCEPT ![s] = q] /\ destroySolver(h, s).sol = [h.sol EXCEPT ![s] = q]
      BY <1>0, <1>2, <1>3, <2>3 DEF destroySolver, Heap
    <3> HIDE DEF q
    <3> QED
      BY <1>0, <1>2, <1>3, <2>3, <3>1 DEF Heap
  <2> QED
    BY <2>1, <2>2, <2>3
<1>6. /\ HeapOK(k0) /\ k0.sol = destroySolver(h, s).sol /\ k0.mat[a].vsolver = None
      /\ k0.mat[a] \in MatrixRecord /\ k0.mat[a].count = h.mat[a].count
      /\ \A b \in Matrices \ {a} : k0.mat[b] = h.mat[b]
  BY SetNoSolverOK
<1>7. k0 \in Heap /\ a \in LiveIn(k0) /\ t \notin SolvingIn(k0)
  <2>1. a \in LiveIn(k0)
    BY <1>0, <1>6, OwnershipAssumption DEF LiveIn
  <2>2. k0 \in Heap
    BY <1>6 DEF HeapOK
  <2>3. k0.sol[t] = h.sol[t]
    <3>1. CASE s = None
      BY <1>6, <3>1 DEF destroySolver
    <3>2. CASE s # None
      <4>1. \E x : destroySolver(h, s).sol = [h.sol EXCEPT ![s] = x]
        <5>1. CASE h.sol[s].count = 0
          BY <1>0, <3>2, <5>1 DEF destroySolver, Heap
        <5>2. CASE h.sol[s].count # 0
          BY <1>0, <3>2, <5>2 DEF destroySolver, Heap
        <5> QED
          BY <5>1, <5>2
      <4> QED
        BY <1>0, <1>3, <1>6, <3>2, <4>1 DEF Heap
    <3> QED
      BY <3>1, <3>2
  <2> HIDE DEF k0
  <2> QED
    BY <1>0, <2>1, <2>2, <2>3 DEF SolvingIn
<1>8. r \in MatrixRecord /\ r.vsolver = t /\ r.count = h.mat[a].count
  BY <1>0, <1>6 DEF MatrixRecord
<1>9. k = [g1 EXCEPT !.mat[a].vsolver = t]
  BY <1>2, <1>3 DEF Attached, SetSolver
<1> HIDE DEF k0, g1, k
<1>10. k.mat = [g1.mat EXCEPT ![a] = [h.mat[a] EXCEPT !.vsolver = t]] /\ k.sol = g1.sol
       /\ k = [mat |-> k.mat, sol |-> k.sol]
  BY <1>0, <1>2, <1>4, <1>9 DEF Heap
<1>11. [h.mat[a] EXCEPT !.vsolver = t] = r
  <2>1. k0.mat[a] = [h.mat[a] EXCEPT !.vsolver = None]
    <3>1. destroySolver(h, s) \in Heap /\ destroySolver(h, s).mat = h.mat
      BY <1>0, destroySolverOK
    <3>2. k0 = [destroySolver(h, s) EXCEPT !.mat[a].vsolver = None]
      BY DEF k0, SetSolver
    <3> DEFINE g == destroySolver(h, s)
    <3> HIDE DEF g
    <3>3. g \in Heap /\ g.mat = h.mat /\ k0 = [g EXCEPT !.mat[a].vsolver = None]
      BY <3>1, <3>2 DEF g
    <3> QED
      BY <1>0, <3>3 DEF Heap
  <2> QED
    BY <1>0, <2>1 DEF MatrixRecord
<1> HIDE DEF r
<1>12. k \in Heap /\ OnlyAt(k0, k, a, r)
  <2>1. k.mat = [h.mat EXCEPT ![a] = r]
    BY <1>2, <1>4, <1>10, <1>11
  <2>2. h.mat \in [Matrices -> MatrixRecord \cup {Dead}] /\ g1.sol \in [Solvers -> SolverRecord \cup {Dead}]
    BY <1>0, <1>2, <1>4 DEF Heap
  <2>3. k \in Heap
    BY <1>0, <1>8, <1>10, <2>1, <2>2 DEF Heap
  <2>4. OnlyAt(k0, k, a, r)
    BY <1>0, <1>6, <2>1, <2>2 DEF OnlyAt
  <2> QED
    BY <2>3, <2>4
<1>13. HeapOK(k)
  <2>1. k.sol = [k0.sol EXCEPT ![t] = [count |-> 0, of |-> a]]
    BY <1>5, <1>6, <1>10
  <2>2. k0.mat[a].vsolver = None /\ r \in MatrixRecord /\ r.vsolver = t
    BY <1>6, <1>8
  <2> QED
    BY <1>0, <1>6, <1>7, <1>12, <2>1, <2>2, TakeSolver
<1> QED
  BY <1>6, <1>8, <1>12, <1>13 DEF OnlyAt, k

(* A change of the rows, of the space or of the counter of a matrix.       *)
LEMMA UpdatedOK ==
  ASSUME NEW h, HeapOK(h), NEW a \in LiveIn(h), NEW k, NEW r \in MatrixRecord,
         r.vsolver = h.mat[a].vsolver, r.halved = h.mat[a].halved,
         k = [h EXCEPT !.mat[a] = r]
  PROVE  /\ HeapOK(k) /\ k.mat[a] = r /\ k.sol = h.sol
         /\ \A b \in Matrices \ {a} : k.mat[b] = h.mat[b]
<1>0. h \in Heap /\ a \in Matrices
  BY Kinds DEF HeapOK
<1>1. k \in Heap /\ OnlyAt(h, k, a, r) /\ k.sol = h.sol
  BY <1>0 DEF Heap, OnlyAt
<1>2. HeapOK(k)
  BY <1>0, <1>1, SameSolvers
<1> QED
  BY <1>1, <1>2 DEF OnlyAt

-----------------------------------------------------------------------------
(* Owners.  B says what the variables hold, T are the matrices with an     *)
(* owner of another kind: a temporary, or an exception that lost them.     *)

Held(B, a)   == \E w \in Wrappers : B[w] = a
Due(B, T, a) == (IF Held(B, a) THEN 1 ELSE 0) + (IF a \in T THEN 1 ELSE 0)

(* Every counter but that of x is right, and no matrix has two variables.  *)
OwnersBut(h, B, T, x) ==
  /\ B \in [Wrappers -> Matrices \cup {None}]
  /\ \A w, u \in Wrappers : w # u /\ B[w] # None => B[w] # B[u]
  /\ \A w \in Wrappers : B[w] # None => B[w] \in LiveIn(h)
  /\ T \subseteq LiveIn(h)
  /\ \A a \in LiveIn(h) \ {x} : h.mat[a].count + 1 = Due(B, T, a)

(* A new matrix has no owner.                                              *)
LEMMA FreshOwners ==
  ASSUME NEW h, NEW B, NEW T, OwnersBut(h, B, T, None), NEW k, NEW a \in FreeMatrices(h),
         LiveIn(k) = LiveIn(h) \cup {a}, \A b \in Matrices \ {a} : k.mat[b] = h.mat[b]
  PROVE  OwnersBut(k, B, T, a) /\ ~Held(B, a) /\ a \notin T
<1>1. a \notin LiveIn(h) /\ a \in Matrices /\ a # None
  BY OwnershipAssumption DEF FreeMatrices, LiveIn
<1>2. ~Held(B, a) /\ a \notin T
  BY <1>1 DEF OwnersBut, Held
<1>3. \A b \in LiveIn(k) \ {a} : b \in LiveIn(h) \ {None} /\ k.mat[b] = h.mat[b]
  BY OwnershipAssumption DEF LiveIn
<1> QED
  BY <1>2, <1>3 DEF OwnersBut

(* What leaves the counters alone leaves the owners right.                 *)
LEMMA SameOwners ==
  ASSUME NEW h, NEW B, NEW T, NEW x, OwnersBut(h, B, T, x), NEW k,
         LiveIn(k) = LiveIn(h), \A a \in LiveIn(h) : k.mat[a].count = h.mat[a].count
  PROVE  OwnersBut(k, B, T, x)
BY DEF OwnersBut

(* A variable gives its matrix up.                                         *)
LEMMA GiveUp ==
  ASSUME NEW h, HeapOK(h), NEW B, NEW T, NEW x, OwnersBut(h, B, T, x), NEW w \in Wrappers,
         x # None => ~Held(B, x)
  PROVE  /\ HeapOK(destroy(h, B[w]))
         /\ OwnersBut(destroy(h, B[w]), [B EXCEPT ![w] = None], T, x)
         /\ \A a \in Matrices : a # B[w] => destroy(h, B[w]).mat[a] = h.mat[a]
         /\ x # None => ~Held([B EXCEPT ![w] = None], x)
         /\ FreeSolvers(h) \subseteq FreeSolvers(destroy(h, B[w]))
<1> DEFINE o == B[w]
           k == destroy(h, o)
           C == [B EXCEPT ![w] = None]
<1>0. /\ B \in [Wrappers -> Matrices \cup {None}] /\ C \in [Wrappers -> Matrices \cup {None}]
      /\ C[w] = None /\ \A u \in Wrappers \ {w} : C[u] = B[u]
  BY DEF OwnersBut
<1>1. CASE o = None
  <2>1. k = h /\ C = B
    BY <1>0, <1>1 DEF destroy
  <2> QED
    BY <2>1
<1>2. CASE o # None
  <2>1. o \in LiveIn(h) /\ o # x /\ o \in Matrices /\ h.mat[o].count \in Nat
    BY <1>2, Kinds DEF OwnersBut, Held, HeapOK, MatrixRecord
  <2>2. Held(B, o) /\ ~Held(C, o)
    BY <1>0, <1>2, OwnershipAssumption DEF OwnersBut, Held
  <2>3. \A a \in Matrices \ {o} : Held(C, a) <=> Held(B, a)
    BY <1>0, OwnershipAssumption DEF Held
  <2>4. h.mat[o].count = IF o \in T THEN 1 ELSE 0
    BY <2>1, <2>2 DEF OwnersBut, Due
  <2>5. /\ HeapOK(k) /\ \A a \in Matrices \ {o} : k.mat[a] = h.mat[a]
        /\ h.mat[o].count = 0 => k.mat[o] = Dead
        /\ h.mat[o].count # 0 => k.mat[o] \in MatrixRecord /\ k.mat[o].count = h.mat[o].count - 1
        /\ FreeSolvers(h) \subseteq FreeSolvers(k)
    BY <2>1, destroyOK
  <2> HIDE DEF C, k, o
  <2>6. \A u, v \in Wrappers : u # v /\ C[u] # None => C[u] # C[v]
    BY <1>0 DEF OwnersBut
  <2>7. \A u \in Wrappers : C[u] # None => C[u] \in LiveIn(h) /\ C[u] # o
    BY <1>0, <2>2 DEF OwnersBut, Held
  <2>8. x # None => ~Held(C, x)
    BY <1>0 DEF Held
  <2>9. CASE o \in T
    <3>1. k.mat[o].count = 0 /\ k.mat[o] # Dead
      BY <2>4, <2>5, <2>9, OwnershipAssumption
    <3>2. LiveIn(k) = LiveIn(h)
      BY <2>1, <2>5, <3>1 DEF LiveIn
    <3>3. \A a \in LiveIn(k) \ {x} : k.mat[a].count + 1 = Due(C, T, a)
      <4>1. k.mat[o].count + 1 = Due(C, T, o)
        BY <2>2, <2>9, <3>1 DEF Due
      <4>2. ASSUME NEW a \in LiveIn(k) \ {x}, a # o PROVE k.mat[a].count + 1 = Due(C, T, a)
        BY <2>3, <2>5, <3>2, <4>2 DEF Due, OwnersBut, LiveIn
      <4> QED
        BY <4>1, <4>2
    <3>4. OwnersBut(k, C, T, x)
      BY <1>0, <2>6, <2>7, <3>2, <3>3 DEF OwnersBut
    <3> QED
      BY <2>5, <2>8, <3>4 DEF C, k, o
  <2>10. CASE o \notin T
    <3>1. k.mat[o] = Dead
      BY <2>4, <2>5, <2>10
    <3>2. LiveIn(k) = LiveIn(h) \ {o}
      BY <2>1, <2>5, <3>1 DEF LiveIn
    <3>3. ASSUME NEW a \in LiveIn(k) \ {x} PROVE k.mat[a].count + 1 = Due(C, T, a)
      BY <2>3, <2>5, <3>2 DEF Due, OwnersBut, LiveIn
    <3>4. T \subseteq LiveIn(k)
      BY <2>10, <3>2 DEF OwnersBut
    <3>5. OwnersBut(k, C, T, x)
      BY <1>0, <2>6, <2>7, <3>2, <3>3, <3>4 DEF OwnersBut
    <3> QED
      BY <2>5, <2>8, <3>5 DEF C, k, o
  <2> QED
    BY <2>9, <2>10
<1> QED
  BY <1>1, <1>2

(* A variable takes a matrix no variable holds.                            *)
LEMMA TakeOwner ==
  ASSUME NEW k, NEW C, NEW T, NEW x \in LiveIn(k), OwnersBut(k, C, T, x), NEW w \in Wrappers,
         C[w] = None, ~Held(C, x), k.mat[x].count = IF x \in T THEN 1 ELSE 0
  PROVE  OwnersBut(k, [C EXCEPT ![w] = x], T, None)
<1> DEFINE B == [C EXCEPT ![w] = x]
<1>0. x # None /\ x \in Matrices
  BY OwnershipAssumption DEF LiveIn
<1>1. /\ B \in [Wrappers -> Matrices \cup {None}]
      /\ B[w] = x /\ \A u \in Wrappers \ {w} : B[u] = C[u] /\ C[u] # x
  BY <1>0 DEF OwnersBut, Held
<1> HIDE DEF B
<1>2. Held(B, x) /\ \A a \in Matrices \ {x} : Held(B, a) <=> Held(C, a)
  BY <1>1, OwnershipAssumption DEF Held
<1>3. \A u, v \in Wrappers : u # v /\ B[u] # None => B[u] # B[v]
  BY <1>1 DEF OwnersBut
<1>4. \A u \in Wrappers : B[u] # None => B[u] \in LiveIn(k)
  BY <1>1 DEF OwnersBut
<1>5. ASSUME NEW a \in LiveIn(k) PROVE k.mat[a].count + 1 = Due(B, T, a)
  <2>1. CASE a = x
    BY <1>2, <2>1 DEF Due
  <2>2. CASE a # x
    BY <1>2, <2>2 DEF Due, OwnersBut, LiveIn
  <2> QED
    BY <2>1, <2>2
<1> QED
  BY <1>1, <1>3, <1>4, <1>5 DEF OwnersBut, B

(* CountPointer::master.                                                   *)
LEMMA masterOK ==
  ASSUME NEW h, HeapOK(h), NEW B, NEW T, NEW x \in LiveIn(h), OwnersBut(h, B, T, x),
         NEW w \in Wrappers, ~Held(B, x), h.mat[x].count = IF x \in T THEN 1 ELSE 0
  PROVE  /\ HeapOK(destroy(h, B[w]))
         /\ OwnersBut(destroy(h, B[w]), [B EXCEPT ![w] = x], T, None)
         /\ FreeSolvers(h) \subseteq FreeSolvers(destroy(h, B[w]))
<1> DEFINE k == destroy(h, B[w])
           C == [B EXCEPT ![w] = None]
<1>0. x # None /\ x # B[w] /\ x \in Matrices /\ B \in [Wrappers -> Matrices \cup {None}]
  BY OwnershipAssumption DEF LiveIn, Held, OwnersBut
<1>1. /\ HeapOK(k) /\ OwnersBut(k, C, T, x) /\ ~Held(C, x) /\ k.mat[x] = h.mat[x]
  <2>1. /\ HeapOK(k) /\ OwnersBut(k, C, T, x)
        /\ \A a \in Matrices : a # B[w] => k.mat[a] = h.mat[a]
        /\ x # None => ~Held(C, x)
    BY GiveUp
  <2> HIDE DEF k, C
  <2> QED
    BY <1>0, <2>1
<1>2. C[w] = None /\ [C EXCEPT ![w] = x] = [B EXCEPT ![w] = x]
  BY <1>0
<1>3. x \in LiveIn(k)
  BY <1>1 DEF LiveIn
<1> HIDE DEF C, k
<1>4. OwnersBut(k, [C EXCEPT ![w] = x], T, None)
  BY <1>1, <1>2, <1>3, TakeOwner
<1>5. FreeSolvers(h) \subseteq FreeSolvers(k)
  BY <1>0, GiveUp DEF k
<1> QED
  BY <1>1, <1>2, <1>4, <1>5 DEF k

-----------------------------------------------------------------------------
(* Steps. *)

(* The inductive invariant.  A matrix that an exception lost, or that can  *)
(* still be assigned, has no variable: master takes it without looking.    *)
Core ==
  /\ HeapOK(heap) /\ OwnersBut(heap, A, temps \cup lost, None)
  /\ temps \cap lost = {} /\ pending \subseteq temps
  /\ \A a \in pending \cup lost : ~Held(A, a)
  /\ Uh \in [Wrappers -> Spaces \cup {None}]
  /\ \A w \in Wrappers : Uh[w] # None => A[w] # None
Inv == Core /\ cleaning \in BOOLEAN /\ (cleaning => pending = {})

(* What follows when one variable takes x.                                 *)
LEMMA VariableStep ==
  ASSUME Core, NEW w \in Wrappers, NEW x \in Matrices, x \notin pending' \cup lost,
         HeapOK(heap'), OwnersBut(heap', A', temps \cup lost, None),
         A' = [A EXCEPT ![w] = x], UNCHANGED <<temps, lost>>, pending' \subseteq pending,
         Uh' = Uh \/ \E d \in Spaces : Uh' = [Uh EXCEPT ![w] = d]
  PROVE  Core'
<1>1. A'[w] = x /\ x # None /\ \A u \in Wrappers \ {w} : A'[u] = A[u]
  BY OwnershipAssumption DEF Core, OwnersBut
<1>2. \A a \in pending' \cup lost' : ~Held(A', a)
  BY <1>1 DEF Core, Held
<1>3. Uh' \in [Wrappers -> Spaces \cup {None}] /\ \A u \in Wrappers \ {w} : Uh'[u] = Uh[u]
  BY DEF Core
<1>4. \A u \in Wrappers : Uh'[u] # None => A'[u] # None
  BY <1>1, <1>3 DEF Core
<1> QED
  BY <1>2, <1>3, <1>4 DEF Core

(* A free place is in no list.                                             *)
LEMMA FreePlace ==
  ASSUME Core, NEW a \in FreeMatrices(heap)
  PROVE  a \in Matrices /\ a \notin pending \cup temps \cup lost
BY DEF Core, OwnersBut, FreeMatrices, LiveIn

(* A new matrix h makes at a is assigned to w.                             *)
LEMMA NewMaster ==
  ASSUME Core, NEW w \in Wrappers, NEW a \in FreeMatrices(heap), NEW h, HeapOK(h),
         LiveIn(h) = LiveIn(heap) \cup {a}, \A b \in Matrices \ {a} : h.mat[b] = heap.mat[b],
         h.mat[a].count = 0
  PROVE  /\ HeapOK(destroy(h, A[w]))
         /\ OwnersBut(destroy(h, A[w]), [A EXCEPT ![w] = a], temps \cup lost, None)
         /\ FreeSolvers(h) \subseteq FreeSolvers(destroy(h, A[w]))
<1>1. OwnersBut(h, A, temps \cup lost, a) /\ ~Held(A, a) /\ a \notin temps \cup lost
  BY FreshOwners DEF Core
<1>2. a \in LiveIn(h)
  OBVIOUS
<1> QED
  BY <1>1, <1>2, masterOK

(* The instructions that assign a new matrix.                              *)
LEMMA NewMasterStep ==
  ASSUME Core, NEW w \in Wrappers, NEW a \in FreeMatrices(heap), NEW h, HeapOK(h),
         LiveIn(h) = LiveIn(heap) \cup {a}, \A b \in Matrices \ {a} : h.mat[b] = heap.mat[b],
         h.mat[a].count = 0,
         master(h, w, a), UNCHANGED <<Uh, temps, pending, lost>>
  PROVE  Core'
<1>1. HeapOK(heap') /\ OwnersBut(heap', [A EXCEPT ![w] = a], temps \cup lost, None)
  BY NewMaster DEF master
<1>2. A' = [A EXCEPT ![w] = a]
  BY DEF master
<1>3. a \in Matrices /\ a \notin pending' \cup lost
  BY FreePlace
<1> QED
  BY <1>1, <1>2, <1>3, VariableStep

(* A new matrix h makes at a is a temporary, or lost.                      *)
LEMMA NewOwnerStep ==
  ASSUME Core, NEW a \in FreeMatrices(heap), NEW h, HeapOK(h),
         LiveIn(h) = LiveIn(heap) \cup {a}, \A b \in Matrices \ {a} : h.mat[b] = heap.mat[b],
         h.mat[a].count = 0, heap' = h, UNCHANGED <<A, Uh>>,
         \/ temps' = temps \cup {a} /\ pending' = pending \cup {a} /\ lost' = lost
         \/ lost' = lost \cup {a} /\ UNCHANGED <<temps, pending>>
  PROVE  Core'
<1> DEFINE T == temps \cup lost
<1>1. OwnersBut(h, A, T, a) /\ ~Held(A, a) /\ a \notin T
  BY FreshOwners DEF Core
<1>2. temps' \cup lost' = T \cup {a} /\ temps' \cap lost' = {} /\ pending' \subseteq temps'
  BY <1>1 DEF Core
<1> HIDE DEF T
<1>3. OwnersBut(h, A, T \cup {a}, None)
  <2>1. \A b \in LiveIn(h) : h.mat[b].count + 1 = Due(A, T \cup {a}, b)
    <3>1. h.mat[a].count + 1 = Due(A, T \cup {a}, a)
      BY <1>1 DEF Due
    <3>2. ASSUME NEW b \in LiveIn(h) \ {a} PROVE h.mat[b].count + 1 = Due(A, T \cup {a}, b)
      BY <1>1, <3>2 DEF Due, OwnersBut
    <3> QED
      BY <3>1, <3>2
  <2> QED
    BY <1>1, <2>1 DEF OwnersBut
<1>4. \A b \in pending' \cup lost' : ~Held(A, b)
  BY <1>1 DEF Core
<1> QED
  BY <1>2, <1>3, <1>4 DEF Core

(* Updates of the matrix of a variable.                                    *)
LEMMA UpdateStep ==
  ASSUME Core, NEW w \in Wrappers, A[w] # None, NEW d \in Nat, NEW sp \in Spaces \cup {None}
  PROVE  LET r == [heap.mat[A[w]] EXCEPT !.n = d, !.space = sp]
             k == [heap EXCEPT !.mat[A[w]] = r]
         IN  /\ HeapOK(k) /\ OwnersBut(k, A, temps \cup lost, None)
             /\ A[w] \in LiveIn(k)
<1> DEFINE a == A[w]
           r == [heap.mat[a] EXCEPT !.n = d, !.space = sp]
           k == [heap EXCEPT !.mat[a] = r]
<1>1. a \in LiveIn(heap) /\ heap.mat[a] \in MatrixRecord /\ heap \in Heap
  BY Kinds DEF Core, OwnersBut, HeapOK
<1>2. /\ r \in MatrixRecord /\ r.vsolver = heap.mat[a].vsolver /\ r.halved = heap.mat[a].halved
      /\ r.count = heap.mat[a].count
  BY <1>1 DEF MatrixRecord
<1> HIDE DEF r
<1>3. /\ HeapOK(k) /\ k.mat[a] = r /\ \A b \in Matrices \ {a} : k.mat[b] = heap.mat[b]
  BY <1>1, <1>2, UpdatedOK DEF Core
<1>4. r # Dead
  BY <1>2, OwnershipAssumption
<1> HIDE DEF k
<1>5. LiveIn(k) = LiveIn(heap) /\ \A b \in LiveIn(heap) : k.mat[b].count = heap.mat[b].count
  BY <1>1, <1>2, <1>3, <1>4 DEF LiveIn
<1>6. OwnersBut(k, A, temps \cup lost, None)
  BY <1>5, SameOwners DEF Core
<1> QED
  BY <1>1, <1>3, <1>5, <1>6 DEF k, r

(* What the instructions use of NewMatrixOK.                               *)
LEMMA NewMatrixFacts ==
  ASSUME NEW h, HeapOK(h), NEW a \in FreeMatrices(h), NEW d \in Nat
  PROVE  /\ HeapOK(NewMatrix(h, a, d))
         /\ LiveIn(NewMatrix(h, a, d)) = LiveIn(h) \cup {a}
         /\ NewMatrix(h, a, d).mat[a].count = 0
         /\ \A b \in Matrices \ {a} : NewMatrix(h, a, d).mat[b] = h.mat[b]
<1> DEFINE k == NewMatrix(h, a, d)
<1>1. /\ HeapOK(k) /\ \A b \in Matrices \ {a} : k.mat[b] = h.mat[b]
      /\ k.mat[a] = [count |-> 0, n |-> d, vsolver |-> None, space |-> None, halved |-> FALSE]
      /\ LiveIn(k) = LiveIn(h) \cup {a}
  BY NewMatrixOK
<1> HIDE DEF k
<1>2. k.mat[a].count = 0
  BY <1>1
<1> QED
  BY <1>1, <1>2 DEF k

(* The space of the terms of a matrix changes.                             *)
LEMMA SpacedOK ==
  ASSUME NEW h, HeapOK(h), NEW a \in LiveIn(h), NEW d \in Spaces
  PROVE  LET k == [h EXCEPT !.mat[a].space = d]
         IN  /\ HeapOK(k) /\ LiveIn(k) = LiveIn(h) /\ k.mat[a].count = h.mat[a].count
             /\ \A b \in Matrices \ {a} : k.mat[b] = h.mat[b]
<1> DEFINE r == [h.mat[a] EXCEPT !.space = d]
           k == [h EXCEPT !.mat[a] = r]
<1>1. a \in Matrices /\ h.mat[a] \in MatrixRecord /\ h \in Heap
  BY Kinds DEF HeapOK
<1>2. /\ r \in MatrixRecord /\ r.vsolver = h.mat[a].vsolver /\ r.halved = h.mat[a].halved
      /\ r.count = h.mat[a].count
  BY <1>1 DEF MatrixRecord
<1>3. k = [h EXCEPT !.mat[a].space = d]
  BY <1>1 DEF Heap
<1> HIDE DEF r
<1>4. HeapOK(k) /\ k.mat[a] = r /\ \A b \in Matrices \ {a} : k.mat[b] = h.mat[b]
  BY <1>1, <1>2, UpdatedOK
<1> HIDE DEF k
<1>5. LiveIn(k) = LiveIn(h)
  BY <1>1, <1>2, <1>4, OwnershipAssumption DEF LiveIn
<1> QED
  BY <1>2, <1>3, <1>4, <1>5

(* NewVSolver and SetSolver leave the owners alone.                        *)
LEMMA AttachedOwners ==
  ASSUME NEW h, HeapOK(h), NEW B, NEW T, OwnersBut(h, B, T, None), NEW a \in LiveIn(h),
         NEW t \in FreeSolvers(h)
  PROVE  HeapOK(Attached(h, a, t)) /\ OwnersBut(Attached(h, a, t), B, T, None)
<1> DEFINE k == Attached(h, a, t)
<1>1. /\ HeapOK(k) /\ \A b \in Matrices \ {a} : k.mat[b] = h.mat[b]
      /\ k.mat[a] \in MatrixRecord /\ k.mat[a].count = h.mat[a].count
  BY AttachedOK
<1> HIDE DEF k
<1>2. LiveIn(k) = LiveIn(h) /\ \A b \in LiveIn(h) : k.mat[b].count = h.mat[b].count
  BY <1>1, OwnershipAssumption DEF LiveIn
<1> QED
  BY <1>1, <1>2, SameOwners DEF k

(* The matrix of a variable is in no list of matrices without one.         *)
LEMMA Variable ==
  ASSUME Core, NEW w \in Wrappers, A[w] # None
  PROVE  /\ A[w] \in LiveIn(heap) /\ A[w] \in Matrices /\ A[w] \notin pending \cup lost
         /\ heap.mat[A[w]] \in MatrixRecord /\ [A EXCEPT ![w] = A[w]] = A
BY Kinds DEF Core, OwnersBut, Held, HeapOK

(* A declaration with sizes, and resize.                                   *)
LEMMA resizeStep ==
  ASSUME Core, NEW w \in Wrappers, NEW d \in Spaces, resize(w, d)
  PROVE  Core'
<1>0. d \in Nat
  BY OwnershipAssumption
<1>1. CASE A[w] = None
  <2>1. PICK a \in FreeMatrices(heap) : master(NewMatrix(heap, a, d), w, a)
    BY <1>1 DEF resize
  <2> DEFINE h == NewMatrix(heap, a, d)
  <2>2. /\ HeapOK(h) /\ LiveIn(h) = LiveIn(heap) \cup {a} /\ h.mat[a].count = 0
        /\ \A b \in Matrices \ {a} : h.mat[b] = heap.mat[b]
    BY <1>0, NewMatrixFacts DEF Core
  <2>3. master(h, w, a) /\ UNCHANGED <<Uh, temps, pending, lost>>
    BY <2>1 DEF resize
  <2> HIDE DEF h
  <2> QED
    BY <2>2, <2>3, NewMasterStep
<1>2. CASE A[w] # None
  <2> DEFINE r == [heap.mat[A[w]] EXCEPT !.n = d, !.space = None]
             k == [heap EXCEPT !.mat[A[w]] = r]
  <2>1. HeapOK(k) /\ OwnersBut(k, A, temps \cup lost, None)
    BY <1>0, <1>2, UpdateStep
  <2>2. heap' = k
    <3>1. heap' = [heap EXCEPT !.mat[A[w]].n = d, !.mat[A[w]].space = None]
      BY <1>2 DEF resize
    <3>2. A[w] \in Matrices /\ heap \in Heap
      BY <1>2, Variable DEF Core, HeapOK
    <3> QED
      BY <3>1, <3>2 DEF Heap
  <2>3. UNCHANGED <<A, Uh, temps, pending, lost>>
    BY <1>2 DEF resize
  <2> HIDE DEF k
  <2>4. HeapOK(heap') /\ OwnersBut(heap', A', temps' \cup lost', None)
    BY <2>1, <2>2, <2>3
  <2> QED
    BY <2>3, <2>4 DEF Core, Held
<1> QED
  BY <1>1, <1>2

(* w = an expression that makes a new matrix.                              *)
LEMMA AssignStep ==
  ASSUME Core, NEW w \in Wrappers, NEW d \in Nat,
         NEW a \in FreeMatrices(heap), master(NewMatrix(heap, a, d), w, a),
         UNCHANGED <<Uh, temps, pending, lost>>
  PROVE  Core'
<1> DEFINE h == NewMatrix(heap, a, d)
<1>1. /\ HeapOK(h) /\ LiveIn(h) = LiveIn(heap) \cup {a} /\ h.mat[a].count = 0
      /\ \A b \in Matrices \ {a} : h.mat[b] = heap.mat[b]
  BY NewMatrixFacts DEF Core
<1>2. master(h, w, a)
  OBVIOUS
<1> HIDE DEF h
<1> QED
  BY <1>1, <1>2, NewMasterStep

(* The copy of an assignment, which has no solver.                         *)
LEMMA CopyMatStep ==
  ASSUME Core, NEW w \in Wrappers, NEW u \in Wrappers, CopyMat(w, u)
  PROVE  Core'
<1>1. heap.mat[A[u]] \in MatrixRecord
  BY Variable DEF CopyMat
<1>2. heap.mat[A[u]].n \in Nat
  BY <1>1 DEF MatrixRecord
<1> QED
  BY <1>2, AssignStep DEF CopyMat

(* removeHalf into a variable: the copy shares the solver.                 *)
LEMMA removeHalfStep ==
  ASSUME Core, NEW w \in Wrappers, NEW u \in Wrappers, removeHalf(w, u)
  PROVE  Core'
<1>1. PICK a \in FreeMatrices(heap) : master(Halved(heap, a, A[u]), w, a)
  BY DEF removeHalf
<1> DEFINE h == Halved(heap, a, A[u])
<1>2. A[u] \in LiveIn(heap)
  BY Variable DEF removeHalf
<1>3. /\ HeapOK(h) /\ LiveIn(h) = LiveIn(heap) \cup {a} /\ h.mat[a].count = 0
      /\ \A b \in Matrices \ {a} : h.mat[b] = heap.mat[b]
  BY <1>2, HalvedOK DEF Core
<1>4. master(h, w, a) /\ UNCHANGED <<Uh, temps, pending, lost>>
  BY <1>1 DEF removeHalf
<1> HIDE DEF h
<1> QED
  BY <1>3, <1>4, NewMasterStep

(* removeHalf as an expression.                                            *)
LEMMA RemovedHalfStep ==
  ASSUME Core, NEW u \in Wrappers, RemovedHalf(u)
  PROVE  Core'
<1>1. PICK a \in FreeMatrices(heap) :
         /\ heap' = Halved(heap, a, A[u])
         /\ temps' = temps \cup {a}
         /\ pending' = pending \cup {a}
         /\ UNCHANGED <<A, Uh, lost>>
  BY DEF RemovedHalf
<1> DEFINE h == Halved(heap, a, A[u])
<1>2. A[u] \in LiveIn(heap)
  BY Variable DEF RemovedHalf
<1>3. /\ HeapOK(h) /\ LiveIn(h) = LiveIn(heap) \cup {a} /\ h.mat[a].count = 0
      /\ \A b \in Matrices \ {a} : h.mat[b] = heap.mat[b]
  BY <1>2, HalvedOK DEF Core
<1>4. heap' = h
  BY <1>1
<1> HIDE DEF h
<1> QED
  BY <1>1, <1>3, <1>4, NewOwnerStep

(* A new matrix that is a temporary, or that an exception loses.           *)
LEMMA NewOwnedStep ==
  ASSUME Core, NEW d \in Spaces, NewTemporary(d) \/ Lost(d)
  PROVE  Core'
<1>1. PICK a \in FreeMatrices(heap) :
         /\ heap' = NewMatrix(heap, a, d)
         /\ UNCHANGED <<A, Uh>>
         /\ \/ temps' = temps \cup {a} /\ pending' = pending \cup {a} /\ lost' = lost
            \/ lost' = lost \cup {a} /\ UNCHANGED <<temps, pending>>
  BY DEF NewTemporary, Lost
<1> DEFINE h == NewMatrix(heap, a, d)
<1>2. d \in Nat
  BY OwnershipAssumption
<1>3. /\ HeapOK(h) /\ LiveIn(h) = LiveIn(heap) \cup {a} /\ h.mat[a].count = 0
      /\ \A b \in Matrices \ {a} : h.mat[b] = heap.mat[b]
  BY <1>2, NewMatrixFacts DEF Core
<1>4. heap' = h
  BY <1>1
<1> HIDE DEF h
<1> QED
  BY <1>1, <1>3, <1>4, NewOwnerStep

(* A temporary becomes the matrix of a variable.                           *)
LEMMA setStep ==
  ASSUME Core, NEW w \in Wrappers, set(w)
  PROVE  Core'
<1>1. PICK a \in pending :
         /\ master([heap EXCEPT !.mat[a].count = @ + 1], w, a)
         /\ pending' = pending \ {a} /\ UNCHANGED <<Uh, temps, lost>>
  BY DEF set
<1> DEFINE r == [heap.mat[a] EXCEPT !.count = @ + 1]
           h == [heap EXCEPT !.mat[a] = r]
           T == temps \cup lost
<1>2. /\ heap \in Heap /\ a \in LiveIn(heap) /\ a \in Matrices /\ heap.mat[a] \in MatrixRecord
      /\ ~Held(A, a) /\ a \in T /\ a \notin lost /\ heap.mat[a].count = 0
  <2>1. heap \in Heap /\ a \in LiveIn(heap) /\ ~Held(A, a) /\ a \in T /\ a \notin lost
    BY DEF Core, HeapOK, OwnersBut
  <2>2. a # None /\ heap.mat[a] \in MatrixRecord /\ a \in Matrices
    BY <2>1, Kinds
  <2>3. heap.mat[a].count + 1 = Due(A, T, a)
    BY <2>1, <2>2 DEF Core, OwnersBut
  <2>4. heap.mat[a].count = 0
    BY <2>1, <2>2, <2>3 DEF Due, MatrixRecord
  <2> QED
    BY <2>1, <2>2, <2>4
<1>3. /\ r \in MatrixRecord /\ r.vsolver = heap.mat[a].vsolver /\ r.halved = heap.mat[a].halved
      /\ r.count = 1
  BY <1>2 DEF MatrixRecord
<1>4. h = [heap EXCEPT !.mat[a].count = @ + 1]
  BY <1>2 DEF Heap
<1> HIDE DEF r
<1>5. HeapOK(h) /\ h.mat[a] = r /\ \A b \in Matrices \ {a} : h.mat[b] = heap.mat[b]
  BY <1>2, <1>3, UpdatedOK DEF Core
<1> HIDE DEF h
<1>6. LiveIn(h) = LiveIn(heap)
  BY <1>2, <1>3, <1>5, OwnershipAssumption DEF LiveIn
<1>7. OwnersBut(h, A, T, a)
  <2>1. \A b \in LiveIn(h) \ {a} : h.mat[b].count + 1 = Due(A, T, b)
    BY <1>5, <1>6, OwnershipAssumption DEF Core, OwnersBut, LiveIn
  <2> QED
    BY <1>6, <2>1 DEF Core, OwnersBut
<1> HIDE DEF T
<1>8. HeapOK(destroy(h, A[w])) /\ OwnersBut(destroy(h, A[w]), [A EXCEPT ![w] = a], T, None)
  BY <1>2, <1>3, <1>5, <1>6, <1>7, masterOK
<1>9. heap' = destroy(h, A[w]) /\ A' = [A EXCEPT ![w] = a]
  BY <1>1, <1>4 DEF master
<1> QED
  BY <1>1, <1>2, <1>8, <1>9, VariableStep DEF T

(* set(w,solver=..).                                                       *)
LEMMA SetMatrixStep ==
  ASSUME Core, NEW w \in Wrappers, NEW raises \in BOOLEAN, SetMatrix_Op(w, raises)
  PROVE  Core'
<1> DEFINE T == temps \cup lost
           hh(a) == IF A[w] = None THEN NewMatrix(heap, a, 0) ELSE heap
<1>1. PICK a \in (IF A[w] = None THEN FreeMatrices(heap) ELSE {A[w]}) :
         /\ A' = [A EXCEPT ![w] = a]
         /\ IF raises THEN heap' = hh(a)
            ELSE \E s \in FreeSolvers(hh(a)) : heap' = Attached(hh(a), a, s)
         /\ UNCHANGED <<Uh, temps, pending, lost>>
  BY DEF SetMatrix_Op
<1> DEFINE h == hh(a)
<1>2. /\ HeapOK(h) /\ OwnersBut(h, A', T, None) /\ a \in LiveIn(h)
      /\ a \in Matrices /\ a \notin pending \cup lost
  <2>1. CASE A[w] = None
    <3>1. a \in FreeMatrices(heap) /\ h = NewMatrix(heap, a, 0)
      BY <1>1, <2>1
    <3>2. a \in Matrices /\ a \notin pending \cup lost
      BY <3>1, FreePlace
    <3>3. /\ HeapOK(h) /\ LiveIn(h) = LiveIn(heap) \cup {a} /\ h.mat[a].count = 0
          /\ \A b \in Matrices \ {a} : h.mat[b] = heap.mat[b]
      BY <3>1, NewMatrixFacts DEF Core
    <3> HIDE DEF h, hh
    <3>4. OwnersBut(destroy(h, A[w]), [A EXCEPT ![w] = a], T, None)
      BY <3>1, <3>3, NewMaster
    <3>5. destroy(h, A[w]) = h
      BY <2>1 DEF destroy
    <3> QED
      BY <1>1, <3>2, <3>3, <3>4, <3>5
  <2>2. CASE A[w] # None
    <3>1. a = A[w] /\ h = heap
      BY <1>1, <2>2
    <3>2. A' = A
      BY <1>1, <2>2, <3>1, Variable
    <3> QED
      BY <2>2, <3>1, <3>2, Variable DEF Core
  <2> QED
    BY <2>1, <2>2
<1>3. heap' = h \/ \E s \in FreeSolvers(h) : heap' = Attached(h, a, s)
  BY <1>1
<1> HIDE DEF h, hh, T
<1>4. HeapOK(heap') /\ OwnersBut(heap', A', T, None)
  BY <1>2, <1>3, AttachedOwners
<1> QED
  BY <1>1, <1>2, <1>4, VariableStep DEF T

(* An assembly, which raises or attaches a solver.                         *)
LEMMA AssembleStep ==
  ASSUME Core, NEW w \in Wrappers, NEW d \in Spaces, NEW raises \in BOOLEAN,
         Assemble(w, d, raises)
  PROVE  Core'
<1> DEFINE T == temps \cup lost
           C == [A EXCEPT ![w] = None]
           g == IF Reused(w, d) THEN heap ELSE destroy(heap, A[w])
           h0(a) == IF Reused(w, d) THEN g ELSE NewMatrix(g, a, d)
           hh(a) == [h0(a) EXCEPT !.mat[a].space = d]
<1>0. d \in Nat /\ d # None
  BY OwnershipAssumption
<1>1. PICK a \in (IF Reused(w, d) THEN {A[w]} ELSE FreeMatrices(g)) :
         /\ A' = [A EXCEPT ![w] = a]
         /\ Uh' = [Uh EXCEPT ![w] = d]
         /\ IF raises THEN heap' = hh(a)
            ELSE \E s \in FreeSolvers(hh(a)) : heap' = Attached(hh(a), a, s)
         /\ UNCHANGED <<temps, pending, lost>>
  BY DEF Assemble
<1> DEFINE k == h0(a)
           h == hh(a)
<1>2. /\ HeapOK(h) /\ OwnersBut(h, A', T, None) /\ a \in LiveIn(h)
      /\ a \in Matrices /\ a \notin pending \cup lost
  <2>1. CASE Reused(w, d)
    <3>1. A[w] # None /\ a = A[w] /\ k = heap
      BY <1>0, <1>1, <2>1 DEF Reused, Core
    <3>2. /\ a \in LiveIn(heap) /\ a \in Matrices /\ a \notin pending \cup lost
          /\ A' = A
      BY <1>1, <3>1, Variable
    <3>3. h = [heap EXCEPT !.mat[a].space = d]
      BY <3>1
    <3> HIDE DEF h, hh, h0, k
    <3>4. /\ HeapOK(h) /\ LiveIn(h) = LiveIn(heap) /\ h.mat[a].count = heap.mat[a].count
          /\ \A b \in Matrices \ {a} : h.mat[b] = heap.mat[b]
      BY <3>2, <3>3, SpacedOK DEF Core
    <3>5. \A b \in LiveIn(heap) : h.mat[b].count = heap.mat[b].count
      BY <3>4 DEF LiveIn
    <3>6. OwnersBut(h, A', T, None)
      BY <3>2, <3>4, <3>5, SameOwners DEF Core
    <3> QED
      BY <3>2, <3>4, <3>6
  <2>2. CASE ~Reused(w, d)
    <3>1. HeapOK(g) /\ OwnersBut(g, C, T, None)
      <4>1. HeapOK(destroy(heap, A[w])) /\ OwnersBut(destroy(heap, A[w]), C, T, None)
        BY GiveUp DEF Core
      <4> QED
        BY <2>2, <4>1
    <3>2. a \in FreeMatrices(g) /\ k = NewMatrix(g, a, d) /\ h = [k EXCEPT !.mat[a].space = d]
      BY <1>1, <2>2
    <3> HIDE DEF g, h, hh, h0, k
    <3>3. /\ HeapOK(k) /\ LiveIn(k) = LiveIn(g) \cup {a} /\ k.mat[a].count = 0
          /\ \A b \in Matrices \ {a} : k.mat[b] = g.mat[b]
      BY <1>0, <3>1, <3>2, NewMatrixFacts
    <3> HIDE DEF C, T
    <3>4. OwnersBut(k, C, T, a) /\ ~Held(C, a) /\ a \notin T
      BY <3>1, <3>2, <3>3, FreshOwners
    <3>5. a \in LiveIn(k)
      BY <3>3
    <3>6. /\ HeapOK(h) /\ LiveIn(h) = LiveIn(k) /\ h.mat[a].count = 0
          /\ \A b \in Matrices \ {a} : h.mat[b] = k.mat[b]
      BY <3>2, <3>3, <3>5, SpacedOK
    <3>7. OwnersBut(h, C, T, a) /\ a \in LiveIn(h)
      <4>1. \A b \in LiveIn(k) : h.mat[b].count = k.mat[b].count
        BY <3>3, <3>6 DEF LiveIn
      <4> QED
        BY <3>4, <3>5, <3>6, <4>1, SameOwners
    <3>8. C[w] = None /\ [C EXCEPT ![w] = a] = A'
      BY <1>1 DEF C, Core, OwnersBut
    <3>9. OwnersBut(h, A', T, None)
      BY <3>4, <3>6, <3>7, <3>8, TakeOwner
    <3>10. a \in Matrices /\ a \notin pending \cup lost
      BY <3>2, <3>4 DEF FreeMatrices, T, Core
    <3> QED
      BY <3>6, <3>7, <3>9, <3>10
  <2> QED
    BY <2>1, <2>2
<1>3. heap' = h \/ \E s \in FreeSolvers(h) : heap' = Attached(h, a, s)
  BY <1>1
<1> HIDE DEF g, h, hh, h0, k, T
<1>4. HeapOK(heap') /\ OwnersBut(heap', A', T, None)
  BY <1>2, <1>3, AttachedOwners
<1> QED
  BY <1>1, <1>2, <1>4, VariableStep DEF T

(* An assembly with integrals on other meshes.                             *)
LEMMA AssembleOnOtherStep ==
  ASSUME Core, NEW w \in Wrappers, NEW d \in Spaces, AssembleOnOther(w, d)
  PROVE  Core'
<1> DEFINE T == temps \cup lost
           k(a) == NewMatrix(heap, a, d)
           hh(a) == [k(a) EXCEPT !.mat[a].space = d]
<1>0. d \in Nat
  BY OwnershipAssumption
<1>1. PICK a \in FreeMatrices(heap) :
         /\ \E s \in FreeSolvers(hh(a)) : heap' = Attached(destroy(hh(a), A[w]), a, s)
         /\ A' = [A EXCEPT ![w] = a]
         /\ UNCHANGED <<Uh, temps, pending, lost>>
  BY DEF AssembleOnOther
<1> DEFINE g == k(a)
           h == hh(a)
<1>2. a \in Matrices /\ a \notin pending \cup lost
  BY FreePlace
<1>3. /\ HeapOK(g) /\ LiveIn(g) = LiveIn(heap) \cup {a} /\ g.mat[a].count = 0
      /\ \A b \in Matrices \ {a} : g.mat[b] = heap.mat[b]
  BY <1>0, NewMatrixFacts DEF Core
<1>4. h = [g EXCEPT !.mat[a].space = d]
  OBVIOUS
<1>5. PICK s \in FreeSolvers(h) : heap' = Attached(destroy(h, A[w]), a, s)
  BY <1>1
<1> HIDE DEF g, h, hh, k, T
<1>6. /\ HeapOK(h) /\ LiveIn(h) = LiveIn(heap) \cup {a} /\ h.mat[a].count = 0
      /\ \A b \in Matrices \ {a} : h.mat[b] = heap.mat[b]
  <2>1. a \in LiveIn(g)
    BY <1>3
  <2> QED
    BY <1>3, <1>4, <2>1, SpacedOK
<1> DEFINE f == destroy(h, A[w])
<1>7. HeapOK(f) /\ OwnersBut(f, A', T, None) /\ s \in FreeSolvers(f)
  BY <1>1, <1>5, <1>6, NewMaster DEF T
<1> HIDE DEF f
<1>8. a \in LiveIn(f)
  <2>1. A'[w] = a /\ a # None
    BY <1>1, <1>2, OwnershipAssumption DEF Core, OwnersBut
  <2> QED
    BY <1>7, <2>1 DEF OwnersBut
<1>9. HeapOK(heap') /\ OwnersBut(heap', A', T, None)
  BY <1>5, <1>7, <1>8, AttachedOwners DEF f
<1> QED
  BY <1>1, <1>2, <1>9, VariableStep DEF T

(* The end of the scope of a variable.                                     *)
LEMMA EndScopeStep ==
  ASSUME Core, NEW w \in Wrappers, EndScope(w)
  PROVE  Core'
<1> DEFINE T == temps \cup lost
<1>1. A' = [A EXCEPT ![w] = None] /\ Uh' = [Uh EXCEPT ![w] = None] /\ UNCHANGED <<temps, pending, lost>>
  BY DEF EndScope
<1>2. /\ A \in [Wrappers -> Matrices \cup {None}] /\ Uh \in [Wrappers -> Spaces \cup {None}]
      /\ HeapOK(heap) /\ OwnersBut(heap, A, T, None)
  BY DEF Core, OwnersBut
<1>3. HeapOK(heap') /\ OwnersBut(heap', A', T, None)
  <2>1. CASE A[w] = None
    <3>1. heap' = heap /\ A' = A
      BY <1>1, <1>2, <2>1 DEF EndScope
    <3> QED
      BY <1>2, <3>1
  <2>2. CASE A[w] # None
    <3> DEFINE h == SetSolver(heap, A[w], None)
    <3>1. heap' = destroy(h, A[w])
      BY <2>2 DEF EndScope
    <3>2. A[w] \in LiveIn(heap)
      BY <2>2, Variable
    <3>3. /\ HeapOK(h) /\ \A b \in Matrices \ {A[w]} : h.mat[b] = heap.mat[b]
          /\ h.mat[A[w]] \in MatrixRecord /\ h.mat[A[w]].count = heap.mat[A[w]].count
      BY <1>2, <3>2, SetNoSolverOK
    <3> HIDE DEF h
    <3>4. LiveIn(h) = LiveIn(heap) /\ \A b \in LiveIn(heap) : h.mat[b].count = heap.mat[b].count
      BY <3>2, <3>3, OwnershipAssumption DEF LiveIn
    <3>5. OwnersBut(h, A, T, None)
      BY <1>2, <3>4, SameOwners
    <3> HIDE DEF T
    <3>6. HeapOK(destroy(h, A[w])) /\ OwnersBut(destroy(h, A[w]), [A EXCEPT ![w] = None], T, None)
      BY <3>3, <3>5, GiveUp
    <3> QED
      BY <1>1, <3>1, <3>6
  <2> QED
    BY <2>1, <2>2
<1>4. \A a \in Matrices : Held(A', a) => Held(A, a)
  BY <1>1, <1>2, OwnershipAssumption DEF Held
<1>5. \A a \in pending' \cup lost' : ~Held(A', a)
  BY <1>1, <1>2, <1>4 DEF Core, OwnersBut, LiveIn
<1>6. Uh' \in [Wrappers -> Spaces \cup {None}] /\ \A u \in Wrappers : Uh'[u] # None => A'[u] # None
  BY <1>1, <1>2 DEF Core
<1> QED
  BY <1>1, <1>3, <1>5, <1>6 DEF Core

(* The end of the life of a temporary.                                     *)
LEMMA cleanStep ==
  ASSUME Core, pending = {}, clean
  PROVE  Core'
<1>1. PICK a \in temps : /\ heap' = destroy(heap, a) /\ temps' = temps \ {a}
                         /\ UNCHANGED <<A, Uh, pending, lost>>
  BY DEF clean
<1> DEFINE T == temps \cup lost
           S == temps' \cup lost'
<1>2. a \in T /\ S = T \ {a} /\ a \in LiveIn(heap) /\ HeapOK(heap) /\ OwnersBut(heap, A, T, None)
  BY <1>1 DEF Core, OwnersBut
<1>3. a \in Matrices /\ heap.mat[a] \in MatrixRecord /\ a # None /\ heap.mat[a].count \in Nat
  BY <1>2, Kinds DEF HeapOK, MatrixRecord
<1>4. heap.mat[a].count = IF Held(A, a) THEN 1 ELSE 0
  <2>1. heap.mat[a].count + 1 = Due(A, T, a)
    BY <1>2, <1>3 DEF OwnersBut
  <2> QED
    BY <1>2, <1>3, <2>1 DEF Due
<1>5. /\ HeapOK(heap') /\ \A b \in Matrices \ {a} : heap'.mat[b] = heap.mat[b]
      /\ heap.mat[a].count = 0 => heap'.mat[a] = Dead
      /\ heap.mat[a].count # 0 =>
           heap'.mat[a] \in MatrixRecord /\ heap'.mat[a].count = heap.mat[a].count - 1
  BY <1>1, <1>2, destroyOK
<1> HIDE DEF S, T
<1>6. OwnersBut(heap', A, S, None)
  <2>1. CASE Held(A, a)
    <3>1. heap'.mat[a].count = 0 /\ heap'.mat[a] # Dead
      BY <1>4, <1>5, <2>1, OwnershipAssumption
    <3>2. LiveIn(heap') = LiveIn(heap)
      BY <1>2, <1>3, <1>5, <3>1 DEF LiveIn
    <3>3. heap'.mat[a].count + 1 = Due(A, S, a)
      BY <1>2, <2>1, <3>1 DEF Due
    <3>4. ASSUME NEW b \in LiveIn(heap') \ {None}, b # a PROVE heap'.mat[b].count + 1 = Due(A, S, b)
      BY <1>2, <1>5, <3>2, <3>4 DEF Due, OwnersBut, LiveIn
    <3>5. /\ A \in [Wrappers -> Matrices \cup {None}]
          /\ \A w, u \in Wrappers : w # u /\ A[w] # None => A[w] # A[u]
          /\ \A w \in Wrappers : A[w] # None => A[w] \in LiveIn(heap')
          /\ S \subseteq LiveIn(heap')
      BY <1>2, <3>2 DEF OwnersBut
    <3> QED
      BY <3>3, <3>4, <3>5 DEF OwnersBut
  <2>2. CASE ~Held(A, a)
    <3>1. LiveIn(heap') = LiveIn(heap) \ {a}
      BY <1>3, <1>4, <1>5, <2>2 DEF LiveIn
    <3>2. ASSUME NEW b \in LiveIn(heap') \ {None} PROVE heap'.mat[b].count + 1 = Due(A, S, b)
      BY <1>2, <1>5, <3>1, <3>2 DEF Due, OwnersBut, LiveIn
    <3>3. \A w \in Wrappers : A[w] # None => A[w] \in LiveIn(heap')
      BY <1>2, <2>2, <3>1 DEF OwnersBut, Held
    <3> QED
      BY <1>2, <3>1, <3>2, <3>3 DEF OwnersBut
  <2> QED
    BY <2>1, <2>2
<1> QED
  BY <1>1, <1>5, <1>6 DEF Core, S

(* The invariant holds at the start.                                       *)
LEMMA InvInit == Init => Inv
<1> SUFFICES ASSUME Init PROVE Inv
  OBVIOUS
<1>1. LiveIn(heap) = {} /\ SolvingIn(heap) = {} /\ heap \in Heap
  BY DEF Init, LiveIn, SolvingIn, Heap
<1> QED
  BY <1>1 DEF Init, Inv, Core, HeapOK, OwnersBut, Held

(* Every instruction keeps the invariant.                                  *)
LEMMA InstructionStep ==
  ASSUME Core, Instruction
  PROVE  Core'
<1>1. ASSUME NEW w \in Wrappers, NEW d \in Spaces, Assign(w, d) PROVE Core'
  <2>1. d \in Nat
    BY OwnershipAssumption
  <2> QED
    BY <1>1, <2>1, AssignStep DEF Assign
<1> QED
  BY <1>1, resizeStep, CopyMatStep, removeHalfStep, RemovedHalfStep, NewOwnedStep, setStep,
     SetMatrixStep, AssembleStep, AssembleOnOtherStep, EndScopeStep DEF Instruction

(* Every step keeps the invariant.                                         *)
LEMMA InvNext == Inv /\ [Next]_vars => Inv'
<1> SUFFICES ASSUME Inv, [Next]_vars PROVE Inv'
  OBVIOUS
<1>1. CASE ~cleaning /\ Instruction /\ UNCHANGED cleaning
  BY <1>1, InstructionStep DEF Inv
<1>2. CASE ~cleaning /\ EndInstruction
  BY <1>2 DEF Inv, Core, EndInstruction, Held
<1>3. CASE cleaning /\ clean
  <2>1. Core'
    BY <1>3, cleanStep DEF Inv
  <2> QED
    BY <1>3, <2>1 DEF Inv, clean
<1>4. CASE UNCHANGED vars
  BY <1>4 DEF Inv, Core, vars, Held
<1> QED
  BY <1>1, <1>2, <1>3, <1>4 DEF Next

(* The invariant says what the runs check.                                 *)
LEMMA InvSays == Inv => NoDangling /\ CountInv /\ SolverOfItsMatrix
<1> SUFFICES ASSUME Inv PROVE NoDangling /\ CountInv /\ SolverOfItsMatrix
  OBVIOUS
<1>1. Live = LiveIn(heap) /\ Solving = SolvingIn(heap)
  BY DEF Live, LiveIn, Solving, SolvingIn
<1>2. HeapOK(heap) /\ heap \in Heap /\ OwnersBut(heap, A, temps \cup lost, None)
  BY DEF Inv, Core, HeapOK
<1>3. TypeOK
  <2>1. \A a \in Live : heap.mat[a] \in MatrixRecord
    BY <1>1, <1>2, Kinds
  <2>2. \A s \in Solving : heap.sol[s] \in SolverRecord
    BY <1>1, <1>2, Kinds
  <2>3. temps \subseteq Matrices /\ lost \subseteq Matrices
    BY <1>2 DEF OwnersBut, LiveIn
  <2> QED
    BY <1>2, <2>1, <2>2, <2>3 DEF TypeOK, Inv, Core, OwnersBut
<1>4. NoDangling
  BY <1>1, <1>2 DEF NoDangling, OwnersBut, HeapOK
<1>5. NotShared
  BY <1>2 DEF NotShared, OwnersBut
<1>6. ASSUME NEW a \in Live
      PROVE  heap.mat[a].count + 1 =
               Cardinality({w \in Wrappers : A[w] = a}) + (IF a \in temps \cup lost THEN 1 ELSE 0)
  <2> DEFINE V == {w \in Wrappers : A[w] = a}
  <2>0. a # None
    BY OwnershipAssumption DEF Live
  <2>1. Cardinality(V) = IF Held(A, a) THEN 1 ELSE 0
    <3>1. CASE Held(A, a)
      <4>1. PICK w \in Wrappers : A[w] = a
        BY <3>1 DEF Held
      <4>2. V = {w}
        BY <1>5, <2>0, <4>1 DEF NotShared
      <4> QED
        BY <3>1, <4>2, FS_Singleton
    <3>2. CASE ~Held(A, a)
      <4>1. V = {}
        BY <3>2 DEF Held
      <4> QED
        BY <3>2, <4>1, FS_EmptySet
    <3> QED
      BY <3>1, <3>2
  <2>2. heap.mat[a].count + 1 = Due(A, temps \cup lost, a)
    BY <1>1, <1>2, <2>0 DEF OwnersBut
  <2> QED
    BY <2>1, <2>2 DEF Due
<1>7. SolverCounts
  BY <1>1, <1>2 DEF SolverCounts, HeapOK, Users
<1>8. CountInv
  BY <1>3, <1>5, <1>6, <1>7 DEF CountInv, MatrixCounts
<1>9. SolverOfItsMatrix
  BY <1>1, <1>2 DEF SolverOfItsMatrix, HeapOK
<1> QED
  BY <1>4, <1>8, <1>9

-----------------------------------------------------------------------------
(* The inductive invariant is one.                                         *)
THEOREM InvCorrect == Spec => []Inv
BY InvInit, InvNext, PTL DEF Spec

(* Whatever a script assigns, copies, assembles or leaves by an exception, *)
(* what a variable, a temporary or a matrix refers to was not deleted      *)
(* (RefCounter::destroy, VirtualMatrix::SetSolver).                        *)
THEOREM NoDanglingCorrect == Spec => []NoDangling
<1>1. Inv => NoDangling
  BY InvSays
<1> QED
  BY <1>1, InvCorrect, PTL

(* Every counter is that of the owners (CountPointer::master, newpMatrice_ *)
(* Creuse::set, VSolver::copyptr), so that the last owner and no other     *)
(* deletes the matrix or the solver; two variables never share a matrix.   *)
THEOREM CountCorrect == Spec => []CountInv
<1>1. Inv => CountInv
  BY InvSays
<1> QED
  BY <1>1, InvCorrect, PTL

(* A matrix that removeHalf did not make is only solved by a solver that   *)
(* was made for it (VirtualMatrix::SetSolver).                             *)
THEOREM SolverOfItsMatrixCorrect == Spec => []SolverOfItsMatrix
<1>1. Inv => SolverOfItsMatrix
  BY InvSays
<1> QED
  BY <1>1, InvCorrect, PTL
===============================================================================
