---------------------------- MODULE Assembly_proofs ----------------------------
(***************************************************************************)
(* Proofs about Assembly, for any number of degrees of freedom, forms,     *)
(* sums and solvers.                                                       *)
(***************************************************************************)
EXTENDS Assembly, TLAPS, FiniteSetTheorems, WellFoundedInduction

-----------------------------------------------------------------------------
(* Forms and sums are made of finitely many numbers. *)
LEMMA FormData ==
  ASSUME NEW f \in Forms
  PROVE  /\ Len(f.elements) \in Nat /\ DOMAIN f.elements = 1 .. Len(f.elements)
         /\ \A k \in DOMAIN f.elements :
              LET e == f.elements[k]
              IN  /\ Len(e.dof) \in Nat /\ DOMAIN e.dof = 1 .. Len(e.dof)
                  /\ \A l \in DOMAIN e.dof : e.dof[l] \in Dofs
                  /\ \A il, jl \in DOMAIN e.dof : e.ke[il][jl] \in Int
<1> DEFINE R == [dof : Seq(Dofs), ke : Seq(Seq(Int))]
<1>1. f.elements \in Seq(R)
  BY AssemblyAssumption
<1> HIDE DEF R
<1>2. Len(f.elements) \in Nat /\ DOMAIN f.elements = 1 .. Len(f.elements)
  BY <1>1
<1>3. ASSUME NEW k \in DOMAIN f.elements
      PROVE  LET e == f.elements[k]
             IN  /\ Len(e.dof) \in Nat /\ DOMAIN e.dof = 1 .. Len(e.dof)
                 /\ \A l \in DOMAIN e.dof : e.dof[l] \in Dofs
                 /\ \A il, jl \in DOMAIN e.dof : e.ke[il][jl] \in Int
  <2> DEFINE e == f.elements[k]
  <2>1. e \in R
    BY <1>1, <1>2
  <2>2. e.dof \in Seq(Dofs) /\ e.ke \in Seq(Seq(Int))
    BY <2>1 DEF R
  <2>3. \A l \in DOMAIN e.dof : l \in DOMAIN e.ke /\ DOMAIN e.dof = DOMAIN e.ke[l]
    BY AssemblyAssumption
  <2> HIDE DEF e
  <2>4. ASSUME NEW il \in DOMAIN e.dof, NEW jl \in DOMAIN e.dof
        PROVE  e.ke[il][jl] \in Int
    <3>1. e.ke[il] \in Seq(Int) /\ jl \in DOMAIN e.ke[il]
      BY <2>2, <2>3
    <3> QED BY <3>1
  <2>5. Len(e.dof) \in Nat /\ DOMAIN e.dof = 1 .. Len(e.dof) /\ \A l \in DOMAIN e.dof : e.dof[l] \in Dofs
    BY <2>2
  <2> QED BY <2>4, <2>5 DEF e
<1> QED BY <1>2, <1>3

LEMMA SumData ==
  ASSUME NEW L \in Sums
  PROVE  /\ Len(L) \in Nat /\ DOMAIN L = 1 .. Len(L)
         /\ \A k \in DOMAIN L : L[k].coef \in Int /\ L[k].of \in Matrices /\ L[k].trans \in BOOLEAN
<1> DEFINE R == [coef : Int, of : Matrices, trans : BOOLEAN]
<1>1. L \in Seq(R)
  BY AssemblyAssumption
<1> HIDE DEF R
<1>2. Len(L) \in Nat /\ DOMAIN L = 1 .. Len(L) /\ \A k \in DOMAIN L : L[k] \in R
  BY <1>1
<1> QED BY <1>2 DEF R

-----------------------------------------------------------------------------
(* Terms and storage. *)

(* The stored matrices: terms inside, below the diagonal when stored half. *)
Fine(m) ==
  /\ m = [half |-> m.half, coef |-> m.coef]
  /\ m.half \in -1 .. 2
  /\ DOMAIN m.coef \subseteq Cells
  /\ m.half > 0 => \A x \in DOMAIN m.coef : IsLower(x)

(* What Added adds is stored where it is told to. *)
LEMMA AddedDomain ==
  ASSUME NEW c, NEW place, NEW val
  PROVE  DOMAIN Added(c, place, val) = DOMAIN c \cup {place[p] : p \in DOMAIN place}
  BY DEF Added

(* The terms of elementary matrices lie in the matrix, in its lower        *)
(* triangle when they are symmetric.                                       *)
LEMMA ElementsFine ==
  ASSUME NEW f \in Forms, NEW c, NEW sym \in BOOLEAN,
         DOMAIN c \subseteq Cells, sym => \A x \in DOMAIN c : IsLower(x)
  PROVE  /\ DOMAIN AddElements(c, f, sym) \subseteq Cells
         /\ sym => \A x \in DOMAIN AddElements(c, f, sym) : IsLower(x)
<1> DEFINE place == [p \in Entries(f, sym) |-> Stored(Row(f, p), Column(f, p), sym)]
<1>1. DOMAIN AddElements(c, f, sym) = DOMAIN c \cup {place[p] : p \in DOMAIN place}
  BY AddedDomain DEF AddElements
<1>2. ASSUME NEW p \in Entries(f, sym)
      PROVE  place[p] \in Cells /\ (sym => IsLower(place[p]))
  <2>1. PICK k \in DOMAIN f.elements :
          \E il, jl \in DOMAIN f.elements[k].dof : p = <<k, il, jl>>
    BY <1>2 DEF Entries
  <2>2. PICK il \in DOMAIN f.elements[k].dof, jl \in DOMAIN f.elements[k].dof : p = <<k, il, jl>>
    BY <2>1
  <2>3. Row(f, p) \in Dofs /\ Column(f, p) \in Dofs
    BY <2>2, FormData DEF Row, Column
  <2>4. \A i, j \in Dofs : Stored(i, j, sym) \in Cells /\ (sym => IsLower(Stored(i, j, sym)))
    BY AssemblyAssumption DEF Stored, Cells, Dofs, IsLower
  <2> QED BY <2>3, <2>4
<1> QED BY <1>1, <1>2

(* SetBC creates terms on the diagonal only. *)
LEMMA SetBCFine ==
  ASSUME NEW c, NEW on \in SUBSET Dofs, NEW tgv \in Tgvs, DOMAIN c \subseteq Cells
  PROVE  /\ DOMAIN SetBC(c, on, tgv) = DOMAIN c \cup {<<i, i>> : i \in on}
         /\ DOMAIN SetBC(c, on, tgv) \subseteq Cells
         /\ (\A x \in DOMAIN c : IsLower(x)) => \A x \in DOMAIN SetBC(c, on, tgv) : IsLower(x)
<1>1. DOMAIN SetBC(c, on, tgv) = DOMAIN c \cup {<<i, i>> : i \in on}
  BY DEF SetBC
<1>2. \A i \in on : <<i, i>> \in Cells /\ IsLower(<<i, i>>)
  BY AssemblyAssumption DEF Cells, Dofs, IsLower
<1> QED BY <1>1, <1>2

LEMMA MirrorCell == \A x \in Cells : Mirror(x) \in Cells /\ Mirror(Mirror(x)) = x
  BY DEF Cells, Mirror

(* The terms a loop meets lie in the matrix, transposed or not. *)
LEMMA TermsFine ==
  ASSUME NEW m, DOMAIN m.coef \subseteq Cells, NEW both \in BOOLEAN, NEW trans \in BOOLEAN,
         NEW t \in Terms(m, both)
  PROVE  /\ t[1] \in DOMAIN m.coef
         /\ PlaceOf(t, trans) \in Cells
         /\ ~both /\ ~trans => PlaceOf(t, trans) = t[1]
  BY MirrorCell DEF Terms, PlaceOf

(* setsdp gives a stored matrix the storage it is asked for; its assertion *)
(* holds.                                                                  *)
LEMMA setsdpFine ==
  ASSUME NEW m, Fine(m), m.half >= 0, NEW sym \in 0 .. 2
  PROVE  /\ Fine(setsdp(m, sym)) /\ setsdp(m, sym).half = sym
         /\ m.half > 0 => UnHalfAsserts(m)
<1>1. CASE (m.half = 0 /\ sym = 0) \/ (m.half > 0 /\ sym > 0)
  BY <1>1 DEF setsdp, Fine, UnHalfAsserts
<1>2. CASE m.half = 0 /\ sym > 0
  BY <1>2 DEF setsdp, Fine, Half, UnHalfAsserts
<1>3. CASE m.half > 0 /\ sym = 0
  <2> DEFINE L == {x \in DOMAIN m.coef : x[1] > x[2]}
             place == [x \in L |-> Mirror(x)]
  <2>1. setsdp(m, sym) = UnHalf(m)
    BY <1>3 DEF setsdp
  <2>2. DOMAIN UnHalf(m).coef = DOMAIN m.coef \cup {place[p] : p \in DOMAIN place}
    BY AddedDomain DEF UnHalf
  <2>3. DOMAIN UnHalf(m).coef \subseteq Cells
    BY <2>2, MirrorCell DEF Fine
  <2> QED BY <1>3, <2>1, <2>3 DEF UnHalf, Fine, UnHalfAsserts
<1> QED BY <1>1, <1>2, <1>3 DEF Fine

-----------------------------------------------------------------------------
(* Init_sym_positive_var answers with a storage or refuses. *)
LEMMA InitSymType ==
  ASSUME NEW syma \in -1 .. 2, NEW ts \in Solvers
  PROVE  InitSym(syma, ts) \in -1 .. 2
  BY DEF InitSym, Refused

(* The storage of what a list of matrices is added to. *)
LEMMA SumFine ==
  ASSUME NEW c, DOMAIN c \subseteq Cells, NEW L \in Sums,
         \A k \in DOMAIN L : Fine(mat[L[k].of]),
         NEW low \in BOOLEAN, low => AllHalf(L) /\ SumFits(L) /\ \A x \in DOMAIN c : IsLower(x)
  PROVE  /\ DOMAIN BuildCombMat(c, L) \subseteq Cells
         /\ low => \A x \in DOMAIN BuildCombMat(c, L) : IsLower(x)
<1> DEFINE place == [p \in SumTerms(L) |-> PlaceOf(p[2], L[p[1]].trans)]
<1>1. DOMAIN BuildCombMat(c, L) = DOMAIN c \cup {place[p] : p \in DOMAIN place}
  BY AddedDomain DEF BuildCombMat
<1>2. ASSUME NEW p \in SumTerms(L)
      PROVE  place[p] \in Cells /\ (low => IsLower(place[p]))
  <2>0. PICK k \in DOMAIN L : p \in {<<k, t>> : t \in Terms(mat[L[k].of], ~AllHalf(L))}
    BY DEF SumTerms
  <2>1. PICK t \in Terms(mat[L[k].of], ~AllHalf(L)) : p = <<k, t>>
    BY <2>0
  <2>2. L[k].trans \in BOOLEAN
    BY SumData
  <2>3. /\ t[1] \in DOMAIN mat[L[k].of].coef /\ place[p] \in Cells
        /\ AllHalf(L) /\ ~L[k].trans => place[p] = t[1]
    BY <2>1, <2>2, TermsFine DEF Fine, AllHalf
  <2>4. low => IsLower(t[1]) /\ place[p] = t[1]
    BY <2>3 DEF Fine, AllHalf, SumFits
  <2> QED BY <2>3, <2>4
<1> QED BY <1>1, <1>2

LEMMA ProductFine ==
  ASSUME NEW a, NEW b, Fine(a), Fine(b), NEW ta \in BOOLEAN, NEW tb \in BOOLEAN
  PROVE  DOMAIN AddMul(a, b, ta, tb) \subseteq Cells
<1> DEFINE P == {p \in Terms(a, TRUE) \X Terms(b, TRUE) : PlaceOf(p[1], ta)[2] = PlaceOf(p[2], tb)[1]}
           place == [p \in P |-> <<PlaceOf(p[1], ta)[1], PlaceOf(p[2], tb)[2]>>]
<1> DEFINE val == [p \in P |-> a.coef[p[1][1]] * b.coef[p[2][1]]]
<1>0. DOMAIN NoTerms = {}
  BY DEF NoTerms
<1>1. DOMAIN AddMul(a, b, ta, tb) = {place[p] : p \in DOMAIN place}
  <2>1. AddMul(a, b, ta, tb) = Added(NoTerms, place, val)
    BY DEF AddMul
  <2>2. DOMAIN Added(NoTerms, place, val) = DOMAIN NoTerms \cup {place[p] : p \in DOMAIN place}
    BY AddedDomain
  <2> HIDE DEF place, val
  <2> QED BY <1>0, <2>1, <2>2
<1>2. ASSUME NEW p \in P
      PROVE  place[p] \in Cells
  <2>1. PlaceOf(p[1], ta) \in Cells /\ PlaceOf(p[2], tb) \in Cells
    BY TermsFine DEF Fine
  <2> QED BY <2>1 DEF Cells
<1> QED BY <1>1, <1>2

LEMMA TransposeFine ==
  ASSUME NEW m, Fine(m), m.half = 0
  PROVE  Fine(dotranspose(m)) /\ dotranspose(m).half = 0
  BY MirrorCell DEF dotranspose, Fine

-----------------------------------------------------------------------------
(* The inductive invariant: the stored matrices, the remembered spaces, and *)
(* the assertion.                                                          *)
StoredInv ==
  /\ DOMAIN mat = Matrices /\ DOMAIN Uh = Matrices
  /\ \A M \in Matrices : Fine(mat[M]) /\ Uh[M] \in BOOLEAN /\ (Uh[M] => Made(M))
  /\ UnHalfHolds

LEMMA StoredInvAccepted == StoredInv => Accepted
  BY DEF StoredInv, Accepted, StorageOK, Fine

LEMMA StoredInvInit == Init => StoredInv
<1>1. DOMAIN NoTerms = {}
  BY DEF NoTerms
<1>2. Fine([half |-> -1, coef |-> NoTerms])
  BY <1>1 DEF Fine
<1> QED BY <1>2 DEF Init, StoredInv, UnHalfHolds

(* An instruction that puts a stored matrix into M, made, keeps the others. *)
LEMMA PutKeeps ==
  ASSUME StoredInv, NEW M \in Matrices, NEW m, NEW d, Put(M, m, d),
         Fine(m), m.half >= 0,
         UNCHANGED Uh \/ Uh' = [Uh EXCEPT ![M] = TRUE], UnHalfHolds'
  PROVE  StoredInv'
<1>1. \A K \in Matrices : mat'[K] = IF K = M THEN m ELSE mat[K]
  BY DEF Put, StoredInv
<1>2. DOMAIN mat' = Matrices /\ DOMAIN Uh' = Matrices
  BY DEF Put, StoredInv
<1>3. ASSUME NEW K \in Matrices
      PROVE  Fine(mat'[K]) /\ Uh'[K] \in BOOLEAN /\ (Uh'[K] => mat'[K].half >= 0)
  <2>1. CASE K = M
    BY <1>1, <2>1 DEF StoredInv
  <2>2. CASE K # M
    BY <1>1, <2>2 DEF StoredInv, Made
  <2> QED BY <2>1, <2>2
<1> QED BY <1>2, <1>3 DEF StoredInv, Made, Fine, IsLower

(* An assembly keeps the terms of the assembly before: the matrix it fills *)
(* is stored the way the form is added.                                    *)
LEMMA AssembleKeeps ==
  ASSUME StoredInv, failed = "no", NEW M \in Matrices, NEW f \in Forms, NEW syma \in -1 .. 2,
         NEW ts \in Solvers, NEW tgv \in Tgvs, Assemble(M, f, syma, ts, tgv)
  PROVE  StoredInv'
<1> DEFINE sym == InitSym(syma, ts)
           m == Zeroed(M, sym)
           c == AddElements(m.coef, f, sym > 0)
           n == [half |-> sym, coef |-> SetBC(c, f.on, tgv)]
<1>1. sym \in -1 .. 2
  BY InitSymType
<1>2. sym # Refused => sym \in 0 .. 2
  BY <1>1 DEF Refused
<1>3. sym # Refused => Fine(m) /\ m.half >= 0
  <2>1. CASE Uh[M]
    <3>1. m = [mat[M] EXCEPT !.coef = [x \in DOMAIN @ |-> 0]]
      BY <2>1 DEF Zeroed
    <3>2. m = [half |-> mat[M].half, coef |-> [x \in DOMAIN mat[M].coef |-> 0]]
      BY <3>1 DEF StoredInv, Fine
    <3> QED BY <2>1, <3>2 DEF StoredInv, Fine, Made
  <2>2. CASE ~Uh[M]
    <3>1. m = [half |-> sym, coef |-> NoTerms]
      BY <2>2 DEF Zeroed
    <3>2. DOMAIN NoTerms = {}
      BY DEF NoTerms
    <3> QED BY <1>2, <3>1, <3>2 DEF Fine
  <2> QED BY <2>1, <2>2
<1>4. CASE sym = Refused /\ failed' = "solver" /\ UNCHANGED <<mat, Uh, asked>>
  BY <1>4 DEF StoredInv, Fine, Made, UnHalfHolds
<1>5. CASE /\ sym # Refused
           /\ failed' = "operator+=" /\ mat' = [mat EXCEPT ![M] = m]
           /\ UNCHANGED <<Uh, asked>>
  <2> HIDE DEF m
  <2>1. UnHalfHolds'
    BY <1>5 DEF UnHalfHolds
  <2>2. \A K \in Matrices : mat'[K] = IF K = M THEN m ELSE mat[K]
    BY <1>5 DEF StoredInv
  <2>3. \A K \in Matrices : Fine(mat'[K]) /\ (Uh[K] => mat'[K].half >= 0)
    BY <1>3, <1>5, <2>2 DEF StoredInv, Made
  <2> QED BY <1>5, <2>1, <2>3 DEF StoredInv, Made, Fine
<1>6. CASE /\ sym # Refused /\ (sym > 0) = (m.half > 0)
           /\ Uh' = [Uh EXCEPT ![M] = TRUE]
           /\ Put(M, n, Constrained(FormMatrix(f), f.on, tgv))
           /\ UNCHANGED failed
  <2>1. DOMAIN m.coef \subseteq Cells /\ (sym > 0 => \A x \in DOMAIN m.coef : IsLower(x))
    BY <1>3, <1>6 DEF Fine
  <2>2. DOMAIN c \subseteq Cells /\ (sym > 0 => \A x \in DOMAIN c : IsLower(x))
    <3> DEFINE low == sym > 0
    <3>1. low \in BOOLEAN
      OBVIOUS
    <3>2. c = AddElements(m.coef, f, low)
      OBVIOUS
    <3>3. low => \A x \in DOMAIN m.coef : IsLower(x)
      BY <2>1
    <3> HIDE DEF low, m, c
    <3>4. DOMAIN c \subseteq Cells /\ (low => \A x \in DOMAIN c : IsLower(x))
      BY <2>1, <3>1, <3>2, <3>3, ElementsFine, Zenon
    <3> USE DEF low
    <3> QED BY <3>4
  <2>3. f.on \subseteq Dofs
    BY AssemblyAssumption
  <2> HIDE DEF c, sym
  <2>4. /\ DOMAIN n.coef \subseteq Cells
        /\ sym > 0 => \A x \in DOMAIN n.coef : IsLower(x)
    BY <2>2, <2>3, SetBCFine
  <2>5. Fine(n) /\ n.half >= 0
    BY <1>2, <1>6, <2>4 DEF Fine
  <2>6. UnHalfHolds'
    BY <1>6 DEF StoredInv, UnHalfHolds
  <2> HIDE DEF n
  <2> QED BY <1>6, <2>5, <2>6, PutKeeps
<1> QED BY <1>4, <1>5, <1>6 DEF Assemble

(* A change of solver, where the assertion could fail. *)
LEMMA setKeeps ==
  ASSUME StoredInv, failed = "no", NEW M \in Matrices, NEW syma \in -1 .. 2, NEW ts \in Solvers,
         set(M, syma, ts)
  PROVE  StoredInv'
<1> DEFINE sym == InitSym(IF syma = -1 THEN mat[M].half ELSE syma, ts)
<1>1. Fine(mat[M]) /\ mat[M].half >= 0 /\ UNCHANGED Uh
  BY DEF StoredInv, set, Made
<1>2. sym \in -1 .. 2
  BY <1>1, InitSymType DEF Fine
<1>3. CASE sym = Refused /\ failed' = "solver" /\ UNCHANGED <<mat, asked>>
  BY <1>1, <1>3 DEF StoredInv, Fine, Made, UnHalfHolds
<1>4. CASE /\ sym # Refused
           /\ Put(M, setsdp(mat[M], sym), asked[M])
           /\ failed' = IF sym = 0 /\ mat[M].half > 0 /\ ~UnHalfAsserts(mat[M]) THEN "UnHalf" ELSE failed
  <2>1. sym \in 0 .. 2
    BY <1>2, <1>4 DEF Refused
  <2>2. /\ Fine(setsdp(mat[M], sym)) /\ setsdp(mat[M], sym).half = sym
        /\ mat[M].half > 0 => UnHalfAsserts(mat[M])
    BY <1>1, <2>1, setsdpFine
  <2>3. UnHalfHolds'
    BY <1>4, <2>2 DEF UnHalfHolds
  <2> QED BY <1>1, <1>4, <2>1, <2>2, <2>3, PutKeeps
<1> QED BY <1>3, <1>4 DEF set

(* Conditions on the boundary of a matrix. *)
LEMMA Set_BCKeeps ==
  ASSUME StoredInv, NEW M \in Matrices, NEW on \in SUBSET Dofs, NEW tgv \in Tgvs, Set_BC(M, on, tgv)
  PROVE  StoredInv'
<1> DEFINE m == [half |-> mat[M].half, coef |-> SetBC(mat[M].coef, on, tgv)]
<1>1. Fine(mat[M]) /\ mat[M].half >= 0 /\ UNCHANGED <<Uh, failed>>
  BY DEF StoredInv, Set_BC, Made
<1>2. [mat[M] EXCEPT !.coef = SetBC(@, on, tgv)] = m
  BY <1>1 DEF Fine
<1>3. Fine(m) /\ m.half >= 0
  BY <1>1, SetBCFine DEF Fine
<1>4. Put(M, m, Constrained(asked[M], on, tgv))
  BY <1>2 DEF Set_BC
<1>5. UnHalfHolds'
  BY <1>1 DEF StoredInv, UnHalfHolds
<1> HIDE DEF m
<1> QED BY <1>1, <1>3, <1>4, <1>5, PutKeeps

(* Sums: stored half only when all of the list are, and none transposed. *)
LEMMA CombMatKeeps ==
  ASSUME StoredInv, Mixed = FALSE, NEW M \in Matrices, NEW L \in Sums, CombMat(M, L)
  PROVE  StoredInv'
<1> DEFINE low == AllHalf(L)
           m == [half |-> IF AllHalf(L) THEN 1 ELSE 0, coef |-> BuildCombMat(NoTerms, L)]
<1>1. SumFits(L) /\ UNCHANGED <<Uh, failed>>
  BY DEF CombMat
<1>2. \A k \in DOMAIN L : Fine(mat[L[k].of])
  BY SumData DEF StoredInv
<1>3. DOMAIN NoTerms = {}
  BY DEF NoTerms
<1>4. /\ DOMAIN m.coef \subseteq Cells
      /\ low => \A x \in DOMAIN m.coef : IsLower(x)
  <2>1. low \in BOOLEAN /\ low => AllHalf(L) /\ SumFits(L) /\ \A x \in DOMAIN NoTerms : IsLower(x)
    BY <1>1, <1>3 DEF AllHalf
  <2>2. DOMAIN BuildCombMat(NoTerms, L) \subseteq Cells
    BY <1>2, <1>3, SumFine
  <2>3. AllHalf(L) => \A x \in DOMAIN BuildCombMat(NoTerms, L) : IsLower(x)
    BY <1>1, <1>2, <1>3, SumFine
  <2> QED BY <2>2, <2>3
<1>5. Fine(m) /\ m.half >= 0
  BY <1>4 DEF Fine
<1>6. UnHalfHolds'
  BY <1>1 DEF StoredInv, UnHalfHolds
<1>7. Put(M, m, Combination([x \in Cells |-> 0], L))
  BY DEF CombMat
<1> HIDE DEF m
<1> QED BY <1>1, <1>5, <1>6, <1>7, PutKeeps

LEMMA AddCombMatKeeps ==
  ASSUME StoredInv, Mixed = FALSE, NEW M \in Matrices, NEW L \in Sums, AddCombMat(M, L)
  PROVE  StoredInv'
<1> DEFINE m == [half |-> mat[M].half, coef |-> BuildCombMat(mat[M].coef, L)]
<1>1. SumFits(L) /\ UNCHANGED <<Uh, failed>> /\ (mat[M].half > 0) = AllHalf(L)
  BY DEF AddCombMat
<1>2. \A k \in DOMAIN L : Fine(mat[L[k].of])
  BY SumData DEF StoredInv
<1>3. Fine(mat[M]) /\ mat[M].half >= 0
  BY DEF StoredInv, AddCombMat, Made
<1>4. [mat[M] EXCEPT !.coef = BuildCombMat(@, L)] = m
  BY <1>3 DEF Fine
<1>5. DOMAIN mat[M].coef \subseteq Cells /\ (mat[M].half > 0 => \A x \in DOMAIN mat[M].coef : IsLower(x))
  BY <1>3 DEF Fine
<1>6. DOMAIN BuildCombMat(mat[M].coef, L) \subseteq Cells
  BY <1>2, <1>5, SumFine
<1>7. mat[M].half > 0 => \A x \in DOMAIN BuildCombMat(mat[M].coef, L) : IsLower(x)
  BY <1>1, <1>2, <1>5, SumFine
<1>8. Fine(m) /\ m.half >= 0
  BY <1>3, <1>6, <1>7 DEF Fine
<1>9. UnHalfHolds'
  BY <1>1 DEF StoredInv, UnHalfHolds
<1>10. Put(M, m, Combination(asked[M], L))
  BY <1>4 DEF AddCombMat
<1> HIDE DEF m
<1> QED BY <1>1, <1>8, <1>9, <1>10, PutKeeps

LEMMA ProdMatKeeps ==
  ASSUME StoredInv, NEW M \in Matrices, NEW A \in Matrices, NEW B \in Matrices,
         NEW ta \in BOOLEAN, NEW tb \in BOOLEAN, ProdMat(M, A, B, ta, tb)
  PROVE  StoredInv'
<1> DEFINE m == [half |-> 0, coef |-> AddMul(mat[A], mat[B], ta, tb)]
<1>1. DOMAIN m.coef \subseteq Cells
  BY ProductFine DEF StoredInv
<1>2. Fine(m) /\ m.half >= 0
  BY <1>1 DEF Fine
<1>3. UnHalfHolds' /\ UNCHANGED Uh
  BY DEF ProdMat, StoredInv, UnHalfHolds
<1>4. \E d : Put(M, m, d)
  BY DEF ProdMat
<1> HIDE DEF m
<1> QED BY <1>2, <1>3, <1>4, PutKeeps

LEMMA CopyKeeps ==
  ASSUME StoredInv, Mixed = FALSE, NEW M \in Matrices, NEW A \in Matrices, NEW trans \in BOOLEAN,
         Copy(M, A, trans)
  PROVE  StoredInv'
<1> DEFINE m == IF trans THEN dotranspose(mat[A]) ELSE mat[A]
<1>1. Fine(mat[A]) /\ mat[A].half >= 0 /\ (trans => mat[A].half = 0)
  BY DEF StoredInv, Copy, Made
<1>2. Fine(m) /\ m.half >= 0
  BY <1>1, TransposeFine
<1>3. UnHalfHolds' /\ UNCHANGED Uh
  BY DEF Copy, StoredInv, UnHalfHolds
<1>4. Put(M, m, Transposed(asked[A], trans))
  BY DEF Copy
<1> HIDE DEF m
<1> QED BY <1>2, <1>3, <1>4, PutKeeps

LEMMA StoredInvNext ==
  ASSUME Mixed = FALSE, StoredInv, Next
  PROVE  StoredInv'
<1>1. failed = "no"
  BY DEF Next
<1>2. PICK M \in Matrices :
        \/ \E f \in Forms, s \in Syms, ts \in Solvers, tgv \in Tgvs : Assemble(M, f, s, ts, tgv)
        \/ \E s \in Syms, ts \in Solvers : set(M, s, ts)
        \/ \E on \in SUBSET Dofs, tgv \in Tgvs : Set_BC(M, on, tgv)
        \/ \E L \in Sums : CombMat(M, L) \/ AddCombMat(M, L)
        \/ \E A, B \in Matrices, ta, tb \in BOOLEAN : ProdMat(M, A, B, ta, tb)
        \/ \E A \in Matrices, trans \in BOOLEAN : Copy(M, A, trans)
  BY DEF Next
<1>3. Syms \subseteq -1 .. 2
  BY AssemblyAssumption
<1>4. ASSUME NEW f \in Forms, NEW s \in Syms, NEW ts \in Solvers, NEW tgv \in Tgvs,
             Assemble(M, f, s, ts, tgv)
      PROVE  StoredInv'
  BY <1>1, <1>3, <1>4, AssembleKeeps
<1>5. ASSUME NEW s \in Syms, NEW ts \in Solvers, set(M, s, ts)
      PROVE  StoredInv'
  BY <1>1, <1>3, <1>5, setKeeps
<1>6. ASSUME NEW on \in SUBSET Dofs, NEW tgv \in Tgvs, Set_BC(M, on, tgv)
      PROVE  StoredInv'
  BY <1>6, Set_BCKeeps
<1>7. ASSUME NEW L \in Sums, CombMat(M, L) \/ AddCombMat(M, L)
      PROVE  StoredInv'
  BY <1>7, CombMatKeeps, AddCombMatKeeps
<1>8. ASSUME NEW A \in Matrices, NEW B \in Matrices, NEW ta \in BOOLEAN, NEW tb \in BOOLEAN,
             ProdMat(M, A, B, ta, tb)
      PROVE  StoredInv'
  BY <1>8, ProdMatKeeps
<1>9. ASSUME NEW A \in Matrices, NEW trans \in BOOLEAN, Copy(M, A, trans)
      PROVE  StoredInv'
  BY <1>9, CopyKeeps
<1> QED BY <1>2, <1>4, <1>5, <1>6, <1>7, <1>8, <1>9

(* A script that keeps to the conditions never has a term above the        *)
(* diagonal of a matrix stored half, and the assertion of UnHalf holds,    *)
(* whatever its forms, sums, solvers, conditions and number of calls.      *)
THEOREM AcceptedCorrect ==
  ASSUME Mixed = FALSE
  PROVE  Spec => []Accepted
<1>1. StoredInv /\ Next => StoredInv'
  BY StoredInvNext
<1>2. StoredInv /\ UNCHANGED vars => StoredInv'
  BY DEF vars, StoredInv, Fine, Made, UnHalfHolds
<1> QED BY <1>1, <1>2, StoredInvInit, StoredInvAccepted, PTL DEF Spec

-----------------------------------------------------------------------------
(* Conditions on the boundary. *)

LEMMA ZeroMod == 0 % Modulus = 0
  BY AssemblyAssumption

(* A stored term after SetBC; a cell that is not stored reads zero.        *)
LEMMA SetBCTerm ==
  ASSUME NEW c, DOMAIN c \subseteq Cells, NEW on \in SUBSET Dofs, NEW tgv \in Tgvs, NEW x \in Cells
  PROVE  At(SetBC(c, on, tgv), x) = Constrained([y \in Cells |-> At(c, y)], on, tgv)[x]
<1> DEFINE d == [y \in DOMAIN c \cup {<<i, i>> : i \in on} |-> At(c, y)]
           D == DOMAIN c \cup {<<i, i>> : i \in on}
           e == SetBC(c, on, tgv)
<1>1. x[1] \in Dofs /\ x[2] \in Dofs /\ x = <<x[1], x[2]>>
  BY DEF Cells
<1>2. Diagonal(x) /\ x[1] \in on => x \in D
  BY <1>1 DEF Diagonal
<1>3. x \notin D => At(c, x) = 0
  BY DEF At
<1>4. tgv \in Int /\ (tgv >= 0 \/ tgv \in {-1, -2, -3, -10, -20, -30})
  BY AssemblyAssumption DEF Values
<1>5. DOMAIN e = D
  BY DEF SetBC
<1>6. At(e, x) = IF x \in D THEN e[x] ELSE 0
  BY <1>5 DEF At
<1>7. CASE tgv >= 0
  <2>1. x \in D => e[x] = IF Diagonal(x) /\ x[1] \in on THEN tgv ELSE At(c, x)
    BY <1>7 DEF SetBC
  <2>2. Constrained([y \in Cells |-> At(c, y)], on, tgv)[x]
          = IF Diagonal(x) /\ x[1] \in on THEN tgv ELSE At(c, x)
    BY <1>7 DEF Constrained
  <2> QED BY <1>2, <1>3, <1>6, <2>1, <2>2
<1>8. CASE tgv \in {-1, -2, -3, -10, -20, -30}
  <2>1. x \in D => e[x] =
          IF x[2] \in on /\ tgv \in {-2, -3, -20, -30} /\ (~Diagonal(x) \/ tgv < -19) THEN 0
          ELSE IF x[1] \notin on THEN At(c, x)
          ELSE IF Diagonal(x) THEN (IF tgv < -9 THEN 0 ELSE 1)
          ELSE IF tgv \notin {-3, -30} THEN 0 ELSE At(c, x)
    BY <1>8 DEF SetBC
  <2>2. Constrained([y \in Cells |-> At(c, y)], on, tgv)[x] =
          IF Diagonal(x) /\ x[1] \in on THEN (IF tgv \in {-1, -2, -3} THEN 1 ELSE 0)
          ELSE IF x[1] \in on /\ tgv \in {-1, -2, -10, -20} THEN 0
          ELSE IF x[2] \in on /\ tgv \in {-2, -3, -20, -30} THEN 0
          ELSE At(c, x)
    BY <1>8 DEF Constrained
  <2>3. Diagonal(x) => x[1] = x[2]
    BY DEF Diagonal
  <2>4. CASE x \in D
    BY <1>6, <1>8, <2>1, <2>2, <2>3, <2>4
  <2>5. CASE x \notin D
    BY <1>2, <1>3, <1>6, <2>2, <2>5
  <2> QED BY <2>4, <2>5
<1> QED BY <1>4, <1>7, <1>8

(* SetBC, rows then columns, on either storage, does to the matrix what    *)
(* the comments of tgv-test.edp say, provided storing half has a place for *)
(* it (TgvFits).                                                           *)
THEOREM ConditionsOnBoundary ==
  ASSUME NEW m, Fine(m), NEW on \in SUBSET Dofs, NEW tgv \in Tgvs, TgvFits(m.half, tgv)
  PROVE  Dense([m EXCEPT !.coef = SetBC(@, on, tgv)]) = Constrained(Dense(m), on, tgv)
<1> DEFINE e == SetBC(m.coef, on, tgv)
           n == [half |-> m.half, coef |-> e]
           full == [y \in Cells |-> At(m.coef, y)]
<1>1. [m EXCEPT !.coef = SetBC(@, on, tgv)] = n
  BY DEF Fine
<1>2. \A x \in Cells : At(e, x) = Constrained(full, on, tgv)[x]
  BY SetBCTerm DEF Fine
<1>3. tgv \in Int /\ (tgv >= 0 \/ tgv \in {-1, -2, -3, -10, -20, -30})
  BY AssemblyAssumption DEF Values
<1>4. ASSUME NEW x \in Cells
      PROVE  Dense(n)[x] = Constrained(Dense(m), on, tgv)[x]
  <2> DEFINE y == Mirror(x)
  <2>1. y \in Cells /\ y[1] = x[2] /\ y[2] = x[1] /\ (Diagonal(y) <=> Diagonal(x))
    BY MirrorCell DEF Mirror, Diagonal
  <2>2. Dense(n)[x] = IF m.half > 0 /\ ~Diagonal(x) THEN (At(e, x) + At(e, y)) % Modulus ELSE At(e, x)
    BY DEF Dense
  <2>3. Dense(m)[x] = IF m.half > 0 /\ ~Diagonal(x)
                      THEN (At(m.coef, x) + At(m.coef, y)) % Modulus ELSE At(m.coef, x)
    BY DEF Dense
  <2> HIDE DEF e, n, y
  <2>4. CASE Diagonal(x) \/ ~(m.half > 0)
    <3>1. Dense(n)[x] = At(e, x) /\ Dense(m)[x] = At(m.coef, x)
      BY <2>2, <2>3, <2>4
    <3>2. Constrained(full, on, tgv)[x] = Constrained(Dense(m), on, tgv)[x]
      BY <3>1 DEF Constrained
    <3> QED BY <1>2, <3>1, <3>2
  <2>5. CASE ~Diagonal(x) /\ m.half > 0
    <3>1. tgv >= 0 \/ tgv \in {-2, -20}
      BY <2>5 DEF TgvFits, Fine
    <3>2. CASE tgv >= 0 \/ (x[1] \notin on /\ x[2] \notin on)
      <4>1. \A z \in {x, y} : Constrained(full, on, tgv)[z] = At(m.coef, z)
        BY <2>1, <2>5, <3>1, <3>2 DEF Constrained
      <4>2. Constrained(Dense(m), on, tgv)[x] = Dense(m)[x]
        BY <2>5, <3>1, <3>2 DEF Constrained
      <4>3. At(e, x) = At(m.coef, x) /\ At(e, y) = At(m.coef, y)
        BY <1>2, <2>1, <4>1
      <4> QED BY <2>2, <2>3, <2>5, <4>2, <4>3
    <3>3. CASE tgv \in {-2, -20} /\ (x[1] \in on \/ x[2] \in on)
      <4>1. \A z \in {x, y} : Constrained(full, on, tgv)[z] = 0
        BY <2>1, <2>5, <3>3 DEF Constrained
      <4>2. Constrained(Dense(m), on, tgv)[x] = 0
        BY <2>5, <3>3 DEF Constrained
      <4>3. At(e, x) = 0 /\ At(e, y) = 0
        BY <1>2, <2>1, <4>1
      <4>4. Dense(n)[x] = (0 + 0) % Modulus
        BY <2>2, <2>5, <4>3
      <4> QED BY <4>2, <4>4, ZeroMod
    <3> QED BY <3>1, <3>2, <3>3
  <2> QED BY <2>4, <2>5
<1>5. DOMAIN Dense(n) = Cells /\ DOMAIN Constrained(Dense(m), on, tgv) = Cells
  BY DEF Dense, Constrained
<1>6. Dense(n) = [x \in Cells |-> Dense(n)[x]]
  BY DEF Dense
<1>7. Constrained(Dense(m), on, tgv) = [x \in Cells |-> Constrained(Dense(m), on, tgv)[x]]
  BY DEF Constrained
<1> HIDE DEF n
<1> QED BY <1>1, <1>4, <1>6, <1>7

-----------------------------------------------------------------------------
(* Induction over numbers and over finite sets. *)

(* Induction over a set of numbers.  *)
LEMMA Least ==
  ASSUME NEW T, T \subseteq Nat, T # {}
  PROVE  \E x \in T : \A y \in T : ~ (y < x)
<1>1. IsWellFoundedOn(OpToRel(<, Nat), Nat)
  BY NatLessThanWellFounded
<1>2. \E x \in T : \A y \in T : ~ (<<y, x>> \in OpToRel(<, Nat))
  BY <1>1, WFMin
<1> QED BY <1>2 DEF OpToRel

LEMMA Induction ==
  ASSUME NEW S, S \subseteq Nat, 0 \in S, \A n \in S : n + 1 \in S
  PROVE  S = Nat
<1> SUFFICES ASSUME S # Nat PROVE FALSE OBVIOUS
<1>1. Nat \ S \subseteq Nat /\ Nat \ S # {}
  OBVIOUS
<1>2. PICK x \in Nat \ S : \A y \in Nat \ S : ~ (y < x)
  BY <1>1, Least
<1>3. x - 1 \in Nat /\ x - 1 < x /\ x - 1 + 1 = x
  OBVIOUS
<1>4. x - 1 \in S
  BY <1>2, <1>3
<1> QED BY <1>3, <1>4

LEMMA SubsetInduction ==
  ASSUME NEW S, IsFiniteSet(S), NEW F,
         \A T \in SUBSET S : (\A U \in SUBSET T : U # T => U \in F) => T \in F
  PROVE  S \in F
<1> SUFFICES ASSUME S \notin F PROVE FALSE
  OBVIOUS
<1> DEFINE C == {Cardinality(T) : T \in (SUBSET S) \ F}
<1>1. \A T \in SUBSET S : IsFiniteSet(T) /\ Cardinality(T) \in Nat
  BY FS_Subset, FS_CardinalityType
<1>2. C \subseteq Nat /\ C # {}
  BY <1>1
<1>3. PICK c \in C : \A d \in C : ~ (d < c)
  BY <1>2, Least
<1>4. PICK T \in (SUBSET S) \ F : c = Cardinality(T)
  BY <1>3
<1>5. ASSUME NEW U \in SUBSET T, U # T
      PROVE  U \in F
  <2>1. Cardinality(U) <= Cardinality(T) /\ Cardinality(U) # Cardinality(T)
    BY <1>1, <1>5, FS_Subset
  <2>2. Cardinality(U) < c
    BY <1>1, <1>4, <2>1
  <2> QED BY <1>3, <2>2
<1> QED BY <1>4, <1>5

LEMMA FiniteInduction ==
  ASSUME NEW S, IsFiniteSet(S), NEW F, {} \in F,
         \A T \in SUBSET S : \A x \in S \ T : T \in F => T \cup {x} \in F
  PROVE  S \in F
<1>1. ASSUME NEW T \in SUBSET S, \A U \in SUBSET T : U # T => U \in F
      PROVE  T \in F
  <2>1. CASE T = {}
    BY <2>1
  <2>2. CASE T # {}
    <3>1. PICK x \in T : TRUE
      BY <2>2
    <3>2. T \ {x} \in F /\ T \ {x} \in SUBSET S /\ x \in S \ (T \ {x}) /\ (T \ {x}) \cup {x} = T
      BY <1>1
    <3> QED BY <3>2
  <2> QED BY <2>1, <2>2
<1> QED BY <1>1, SubsetInduction

-----------------------------------------------------------------------------
(* Sums. *)

First(s) == CHOOSE x \in s : TRUE

(* g gives the sums of val over the sets of D. *)
Adds(g, val, D) ==
  g = [s \in D |-> IF s = {} THEN 0 ELSE val[First(s)] + g[s \ {First(s)}]]

LEMMA FirstIn == \A s : s # {} => First(s) \in s
  BY DEF First

LEMMA AddsExists ==
  ASSUME NEW val, NEW S, IsFiniteSet(S)
  PROVE  \E g : Adds(g, val, SUBSET S)
<1> DEFINE Low(n) == {s \in SUBSET S : Cardinality(s) <= n}
           K == {n \in Nat : \E g : Adds(g, val, Low(n))}
<1>0. \A s \in SUBSET S : IsFiniteSet(s) /\ Cardinality(s) \in Nat /\ Cardinality(s) <= Cardinality(S)
  BY FS_Subset, FS_CardinalityType
<1>1. 0 \in K
  <2>1. \A s \in Low(0) : s = {}
    BY <1>0, FS_EmptySet
  <2>2. Adds([s \in Low(0) |-> 0], val, Low(0))
    BY <2>1 DEF Adds
  <2> QED BY <2>2
<1>2. ASSUME NEW n \in K
      PROVE  n + 1 \in K
  <2>1. PICK g : Adds(g, val, Low(n))
    OBVIOUS
  <2> DEFINE h == [s \in Low(n + 1) |-> IF s = {} THEN 0 ELSE val[First(s)] + g[s \ {First(s)}]]
  <2>2. ASSUME NEW s \in Low(n + 1), s # {}
        PROVE  s \ {First(s)} \in Low(n) /\ s \ {First(s)} \in Low(n + 1)
    <3>1. First(s) \in s
      BY <2>2, FirstIn
    <3>2. Cardinality(s \ {First(s)}) = Cardinality(s) - 1
      BY <1>0, <3>1, FS_RemoveElement
    <3>3. Cardinality(s) <= n + 1 /\ Cardinality(s) \in Nat /\ n \in Nat /\ s \ {First(s)} \in SUBSET S
      BY <1>0
    <3>4. Cardinality(s \ {First(s)}) <= n /\ Cardinality(s \ {First(s)}) <= n + 1
      BY <3>2, <3>3
    <3> QED BY <3>3, <3>4
  <2>3. ASSUME NEW t \in Low(n), t \in Low(n + 1)
        PROVE  h[t] = g[t]
    BY <2>1, <2>3 DEF Adds
  <2>4. ASSUME NEW s \in Low(n + 1), s # {}
        PROVE  g[s \ {First(s)}] = h[s \ {First(s)}]
    BY <2>2, <2>3, <2>4
  <2>5. h = [s \in Low(n + 1) |-> IF s = {} THEN 0 ELSE val[First(s)] + h[s \ {First(s)}]]
    <3> HIDE DEF Low
    <3>1. \A s \in Low(n + 1) : h[s] = IF s = {} THEN 0 ELSE val[First(s)] + h[s \ {First(s)}]
      BY <2>4
    <3> QED BY <3>1
  <2>6. Adds(h, val, Low(n + 1))
    BY <2>5 DEF Adds
  <2>7. n \in Nat /\ n + 1 \in Nat
    OBVIOUS
  <2> HIDE DEF h, Low
  <2> QED BY <2>6, <2>7
<1>3. K = Nat
  <2>1. K \subseteq Nat OBVIOUS
  <2> HIDE DEF K
  <2> QED BY <1>1, <1>2, <2>1, Induction
<1>4. Low(Cardinality(S)) = SUBSET S
  BY <1>0
<1>5. Cardinality(S) \in K
  BY <1>3, FS_CardinalityType
<1> QED BY <1>4, <1>5

LEMMA AddsAgree ==
  ASSUME NEW val, NEW S, NEW T, NEW g, NEW h, Adds(g, val, SUBSET S), Adds(h, val, SUBSET T),
         T \subseteq S, IsFiniteSet(T)
  PROVE  g[T] = h[T]
<1> DEFINE F == {s \in SUBSET T : g[s] = h[s]}
<1>1. ASSUME NEW s \in SUBSET T, \A u \in SUBSET s : u # s => u \in F
      PROVE  s \in F
  <2>1. /\ g[s] = IF s = {} THEN 0 ELSE val[First(s)] + g[s \ {First(s)}]
        /\ h[s] = IF s = {} THEN 0 ELSE val[First(s)] + h[s \ {First(s)}]
    BY DEF Adds
  <2>2. s # {} => s \ {First(s)} \in F
    BY <1>1, FirstIn
  <2> QED BY <2>1, <2>2
<1> HIDE DEF F
<1>2. T \in F
  BY <1>1, SubsetInduction
<1> QED BY <1>2 DEF F

LEMMA TotalIs ==
  ASSUME NEW val, NEW S, NEW T, IsFiniteSet(T), NEW g, Adds(g, val, SUBSET S), T \subseteq S
  PROVE  Total(val, T) = g[T]
<1> DEFINE iter == CHOOSE h : h = [s \in SUBSET T |->
                     IF s = {} THEN 0 ELSE val[CHOOSE x \in s : TRUE] + h[s \ {CHOOSE x \in s : TRUE}]]
<1>1. Total(val, T) = iter[T]
  BY DEF Total, FoldFunctionOnSet, MapThenFoldSet
<1>2. \E h : h = [s \in SUBSET T |->
                     IF s = {} THEN 0 ELSE val[CHOOSE x \in s : TRUE] + h[s \ {CHOOSE x \in s : TRUE}]]
  <2>1. PICK h : Adds(h, val, SUBSET T)
    BY AddsExists
  <2> QED BY <2>1 DEF Adds, First
<1>3. iter = [s \in SUBSET T |->
                     IF s = {} THEN 0 ELSE val[CHOOSE x \in s : TRUE] + iter[s \ {CHOOSE x \in s : TRUE}]]
  BY <1>2
<1>4. Adds(iter, val, SUBSET T)
  BY <1>3 DEF Adds, First
<1> HIDE DEF iter
<1> QED BY <1>1, <1>4, AddsAgree

LEMMA TotalEmpty ==
  ASSUME NEW val
  PROVE  Total(val, {}) = 0
<1>1. PICK E : E = {}
  OBVIOUS
<1>2. IsFiniteSet(E) /\ E \subseteq E
  BY <1>1, FS_EmptySet
<1>3. PICK g : Adds(g, val, SUBSET E)
  BY <1>2, AddsExists
<1>4. g[E] = 0
  BY <1>1, <1>3 DEF Adds
<1>5. Total(val, E) = g[E]
  BY <1>2, <1>3, TotalIs
<1> QED BY <1>1, <1>4, <1>5

LEMMA TotalFirst ==
  ASSUME NEW val, NEW S, IsFiniteSet(S), S # {}
  PROVE  Total(val, S) = val[First(S)] + Total(val, S \ {First(S)})
<1>1. PICK g : Adds(g, val, SUBSET S)
  BY AddsExists
<1>2. g[S] = val[First(S)] + g[S \ {First(S)}]
  BY <1>1 DEF Adds
<1>3. IsFiniteSet(S \ {First(S)}) /\ S \ {First(S)} \subseteq S
  BY FS_RemoveElement
<1>4. Total(val, S) = g[S]
  BY <1>1, TotalIs
<1>5. Total(val, S \ {First(S)}) = g[S \ {First(S)}]
  BY <1>1, <1>3, TotalIs
<1> QED BY <1>2, <1>4, <1>5

(* Values to sum. *)
Summable(val, S) == IsFiniteSet(S) /\ \A x \in S : val[x] \in Int

LEMMA TotalAnyInt ==
  ASSUME NEW val, NEW S, Summable(val, S)
  PROVE  /\ Total(val, S) \in Int
         /\ \A x \in S : Total(val, S) = val[x] + Total(val, S \ {x})
<1> DEFINE F == {T \in SUBSET S :
                   /\ Total(val, T) \in Int
                   /\ \A x \in T : Total(val, T) = val[x] + Total(val, T \ {x})}
<1>1. ASSUME NEW T \in SUBSET S, \A U \in SUBSET T : U # T => U \in F
      PROVE  T \in F
  <2>1. CASE T = {}
    BY <2>1, TotalEmpty
  <2>2. CASE T # {}
    <3>1. PICK f \in T : Total(val, T) = val[f] + Total(val, T \ {f})
      BY <2>2, FirstIn, TotalFirst, FS_Subset DEF Summable
    <3>2. \A x \in S : val[x] \in Int
      BY DEF Summable
    <3>3. \A x \in T : T \ {x} \in F
      BY <1>1
    <3>4. \A x \in T : Total(val, T \ {x}) \in Int
      BY <3>3
    <3>5. ASSUME NEW x \in T, x # f
          PROVE  Total(val, T) = val[x] + Total(val, T \ {x})
      <4> DEFINE R == (T \ {f}) \ {x}
      <4>1. Total(val, T \ {f}) = val[x] + Total(val, (T \ {f}) \ {x})
        BY <3>3, <3>5
      <4>2. Total(val, T \ {x}) = val[f] + Total(val, (T \ {x}) \ {f})
        BY <3>3, <3>5
      <4>3. (T \ {f}) \ {x} = R /\ (T \ {x}) \ {f} = R /\ R \in SUBSET T /\ R # T
        OBVIOUS
      <4>4. R \in F
        BY <1>1, <4>3
      <4>5. Total(val, R) \in Int
        BY <4>4
      <4> HIDE DEF R
      <4> QED BY <3>1, <3>2, <4>1, <4>2, <4>3, <4>5
    <3> QED BY <3>1, <3>2, <3>4, <3>5
  <2> QED BY <2>1, <2>2
<1> HIDE DEF F
<1>2. S \in F
  BY <1>1, SubsetInduction DEF Summable
<1> QED BY <1>2 DEF F

LEMMA TotalAdd ==
  ASSUME NEW val, NEW S, Summable(val, S), NEW T \in SUBSET S, NEW x \in S \ T
  PROVE  Total(val, T \cup {x}) = val[x] + Total(val, T)
<1>1. Summable(val, T \cup {x})
  BY FS_Subset DEF Summable
<1>2. (T \cup {x}) \ {x} = T
  OBVIOUS
<1> QED BY <1>1, <1>2, TotalAnyInt

LEMMA TotalInt ==
  ASSUME NEW val, NEW S, Summable(val, S), NEW T \in SUBSET S
  PROVE  Total(val, T) \in Int /\ Summable(val, T) /\ IsFiniteSet(T)
<1>1. Summable(val, T)
  BY FS_Subset DEF Summable
<1> QED BY <1>1, TotalAnyInt DEF Summable

(* Sums of the same values are the same. *)
LEMMA TotalSame ==
  ASSUME NEW v, NEW w, NEW S, Summable(v, S), \A x \in S : v[x] = w[x]
  PROVE  Total(v, S) = Total(w, S)
<1> DEFINE F == {T \in SUBSET S : Total(v, T) = Total(w, T)}
<1>0. Summable(w, S) /\ IsFiniteSet(S)
  BY DEF Summable
<1>1. {} \in F
  BY TotalEmpty
<1>2. \A T \in SUBSET S : \A x \in S \ T : T \in F => T \cup {x} \in F
  BY <1>0, TotalAdd
<1> HIDE DEF F
<1>3. S \in F
  BY <1>0, <1>1, <1>2, FiniteInduction
<1> QED BY <1>3 DEF F

LEMMA TotalUnion ==
  ASSUME NEW val, NEW S, NEW T, Summable(val, S \cup T), S \cap T = {}
  PROVE  Total(val, S \cup T) = Total(val, S) + Total(val, T)
<1> DEFINE F == {U \in SUBSET S : Total(val, U \cup T) = Total(val, U) + Total(val, T)}
<1>0. Summable(val, S) /\ IsFiniteSet(S) /\ Total(val, T) \in Int
  BY TotalInt
<1>1. {} \in F
  <2>1. {} \cup T = T
    OBVIOUS
  <2> QED BY <1>0, <2>1, TotalEmpty
<1>2. ASSUME NEW U \in SUBSET S, NEW x \in S \ U, U \in F
      PROVE  U \cup {x} \in F
  <2>1. Total(val, U \cup {x}) = val[x] + Total(val, U)
    BY <1>0, TotalAdd
  <2>2. (U \cup {x}) \cup T = (U \cup T) \cup {x} /\ x \notin U \cup T
    OBVIOUS
  <2>3. Total(val, (U \cup T) \cup {x}) = val[x] + Total(val, U \cup T)
    <3> DEFINE A == S \cup T
               B == U \cup T
    <3>1. Summable(val, A) /\ B \in SUBSET A /\ x \in A \ B
      BY <2>2
    <3> HIDE DEF A, B
    <3>2. Total(val, B \cup {x}) = val[x] + Total(val, B)
      BY <3>1, TotalAdd
    <3> QED BY <3>2 DEF B
  <2>4. Total(val, U \cup T) = Total(val, U) + Total(val, T)
    BY <1>2
  <2>5. val[x] \in Int /\ Total(val, U) \in Int
    BY <1>0, TotalInt DEF Summable
  <2>6. Total(val, (U \cup {x}) \cup T) = Total(val, U \cup {x}) + Total(val, T)
    <3>1. Total(val, (U \cup {x}) \cup T) = Total(val, (U \cup T) \cup {x})
      BY <2>2
    <3> DEFINE a == Total(val, U)
               b == Total(val, T)
               d == Total(val, (U \cup {x}) \cup T)
    <3>2. d = val[x] + (a + b)
      BY <2>3, <2>4, <3>1
    <3>3. a \in Int /\ b \in Int /\ val[x] \in Int /\ Total(val, U \cup {x}) = val[x] + a
      BY <1>0, <2>1, <2>5
    <3> HIDE DEF a, b, d
    <3>4. d = (val[x] + a) + b
      BY <3>2, <3>3
    <3> QED BY <3>3, <3>4 DEF b, d
  <2> QED BY <2>6
<1> HIDE DEF F
<1>3. S \in F
  BY <1>0, <1>1, <1>2, FiniteInduction
<1> QED BY <1>3 DEF F

LEMMA TotalZero ==
  ASSUME NEW val, NEW S, IsFiniteSet(S), \A x \in S : val[x] = 0
  PROVE  Total(val, S) = 0
<1> DEFINE F == {T \in SUBSET S : Total(val, T) = 0}
<1>0. Summable(val, S)
  BY DEF Summable
<1>1. {} \in F
  BY TotalEmpty
<1>2. \A T \in SUBSET S : \A x \in S \ T : T \in F => T \cup {x} \in F
  BY <1>0, TotalAdd
<1> HIDE DEF F
<1>3. S \in F
  BY <1>1, <1>2, FiniteInduction
<1> QED BY <1>3 DEF F

LEMMA TotalOne ==
  ASSUME NEW val, NEW x, val[x] \in Int
  PROVE  Total(val, {x}) = val[x]
<1>1. Summable(val, {x}) /\ {x} \ {x} = {}
  BY FS_Singleton DEF Summable
<1>2. Total(val, {x}) = val[x] + Total(val, {})
  BY <1>1, TotalAnyInt
<1> QED BY <1>2, TotalEmpty

(* A sum may be taken over other places of its values. *)
LEMMA TotalMoved ==
  ASSUME NEW v, NEW w, NEW S, NEW T, Summable(v, S), NEW h \in [S -> T],
         \A x, y \in S : h[x] = h[y] => x = y,
         \A y \in T : \E x \in S : h[x] = y,
         \A x \in S : w[h[x]] = v[x]
  PROVE  Summable(w, T) /\ Total(w, T) = Total(v, S)
<1> DEFINE Im(U) == {h[x] : x \in U}
           F == {U \in SUBSET S : IsFiniteSet(Im(U)) /\ Total(w, Im(U)) = Total(v, U)}
<1>0. IsFiniteSet(S) /\ \A x \in S : v[x] \in Int
  BY DEF Summable
<1>1. {} \in F
  <2>1. Im({}) = {}
    OBVIOUS
  <2> QED BY <2>1, TotalEmpty, FS_EmptySet
<1>2. ASSUME NEW U \in SUBSET S, NEW x \in S \ U, U \in F
      PROVE  U \cup {x} \in F
  <2>1. Im(U \cup {x}) = Im(U) \cup {h[x]} /\ h[x] \notin Im(U)
    OBVIOUS
  <2>2. IsFiniteSet(Im(U \cup {x}))
    BY <1>2, <2>1, FS_AddElement
  <2>3. \A y \in Im(U \cup {x}) : w[y] \in Int
    BY <1>0
  <2>4. Summable(w, Im(U \cup {x}))
    BY <2>2, <2>3 DEF Summable
  <2> HIDE DEF Im
  <2>5. Total(w, Im(U) \cup {h[x]}) = w[h[x]] + Total(w, Im(U))
    BY <2>1, <2>4, TotalAdd
  <2>6. Total(v, U \cup {x}) = v[x] + Total(v, U)
    BY TotalAdd
  <2>7. Total(w, Im(U \cup {x})) = Total(v, U \cup {x})
    BY <1>2, <2>1, <2>5, <2>6
  <2> QED BY <2>2, <2>7
<1>3. S \in F
  <2> HIDE DEF F
  <2> QED BY <1>0, <1>1, <1>2, FiniteInduction
<1>4. Im(S) = T
  OBVIOUS
<1>5. \A y \in T : w[y] \in Int
  BY <1>0
<1> HIDE DEF Im
<1> QED BY <1>3, <1>4, <1>5 DEF Summable

(* A sum, by groups: key says in which group each is. *)
Group(S, key, k) == {x \in S : key[x] = k}

LEMMA TotalGroups ==
  ASSUME NEW val, NEW S, Summable(val, S), NEW K, IsFiniteSet(K), NEW key, \A x \in S : key[x] \in K,
         NEW w, \A k \in K : w[k] = Total(val, Group(S, key, k))
  PROVE  Summable(w, K) /\ Total(w, K) = Total(val, S)
<1> DEFINE Of(U) == {x \in S : key[x] \in U}
           F == {U \in SUBSET K : Total(w, U) = Total(val, Of(U))}
<1>0. Summable(w, K)
  <2>1. \A k \in K : Group(S, key, k) \in SUBSET S
    BY DEF Group
  <2>2. \A k \in K : Total(val, Group(S, key, k)) \in Int
    BY <2>1, TotalInt
  <2> QED BY <2>2 DEF Summable
<1>1. {} \in F
  <2>1. Of({}) = {}
    OBVIOUS
  <2> QED BY <2>1, TotalEmpty
<1>2. ASSUME NEW U \in SUBSET K, NEW k \in K \ U, U \in F
      PROVE  U \cup {k} \in F
  <2> DEFINE N1 == Group(S, key, k)
  <2>1. Of(U \cup {k}) = N1 \cup Of(U) /\ N1 \cap Of(U) = {} /\ N1 \cup Of(U) \in SUBSET S
    BY DEF Group
  <2>2. Summable(val, N1 \cup Of(U))
    BY <2>1, TotalInt
  <2>3. w[k] = Total(val, N1)
    OBVIOUS
  <2>4. Total(w, U) = Total(val, Of(U))
    BY <1>2
  <2> HIDE DEF Of, N1, F
  <2>5. Total(val, N1 \cup Of(U)) = Total(val, N1) + Total(val, Of(U))
    BY <2>1, <2>2, TotalUnion
  <2>6. Total(w, U \cup {k}) = w[k] + Total(w, U)
    BY <1>0, TotalAdd
  <2>7. Total(w, U \cup {k}) = Total(val, Of(U \cup {k}))
    BY <2>1, <2>3, <2>4, <2>5, <2>6
  <2> USE DEF F
  <2> QED BY <2>7
<1>3. K \in F
  <2> HIDE DEF F
  <2> QED BY <1>1, <1>2, FiniteInduction
<1>4. Of(K) = S
  OBVIOUS
<1> HIDE DEF Of
<1> QED BY <1>0, <1>3, <1>4

(* w is c times v. *)
Multiple(w, c, v, S) == \A x \in S : w[x] = c * v[x]

LEMMA TotalScaled ==
  ASSUME NEW v, NEW w, NEW S, Summable(v, S), NEW c \in Int, Multiple(w, c, v, S)
  PROVE  Summable(w, S) /\ Total(w, S) = c * Total(v, S)
<1> DEFINE F == {T \in SUBSET S : Total(w, T) = c * Total(v, T)}
<1>0. Summable(w, S) /\ IsFiniteSet(S) /\ \A x \in S : v[x] \in Int
  BY DEF Summable, Multiple
<1>1. {} \in F
  BY TotalEmpty
<1>2. ASSUME NEW T \in SUBSET S, NEW x \in S \ T, T \in F
      PROVE  T \cup {x} \in F
  <2>1. Total(v, T \cup {x}) = v[x] + Total(v, T) /\ Total(v, T) \in Int /\ v[x] \in Int
    BY <1>0, TotalAdd, TotalInt
  <2>2. Total(w, T \cup {x}) = w[x] + Total(w, T)
    BY <1>0, TotalAdd
  <2>3. Total(w, T) = c * Total(v, T) /\ w[x] = c * v[x]
    BY <1>2 DEF Multiple
  <2>4. \A a, b \in Int : c * (a + b) = c * a + c * b
    OBVIOUS
  <2>5. Total(w, T \cup {x}) = c * Total(v, T \cup {x})
    BY <2>1, <2>2, <2>3, <2>4
  <2> QED BY <2>5
<1>3. S \in F
  <2> HIDE DEF F
  <2> QED BY <1>0, <1>1, <1>2, FiniteInduction
<1> QED BY <1>0, <1>3

LEMMA TotalPlus ==
  ASSUME NEW u, NEW v, NEW w, NEW S, Summable(u, S), Summable(v, S),
         \A x \in S : w[x] = u[x] + v[x]
  PROVE  Summable(w, S) /\ Total(w, S) = Total(u, S) + Total(v, S)
<1> DEFINE F == {T \in SUBSET S : Total(w, T) = Total(u, T) + Total(v, T)}
<1>0. Summable(w, S) /\ IsFiniteSet(S) /\ \A x \in S : u[x] \in Int /\ v[x] \in Int
  BY DEF Summable
<1>1. {} \in F
  BY TotalEmpty
<1>2. ASSUME NEW T \in SUBSET S, NEW x \in S \ T, T \in F
      PROVE  T \cup {x} \in F
  <2>1. /\ Total(u, T \cup {x}) = u[x] + Total(u, T) /\ Total(v, T \cup {x}) = v[x] + Total(v, T)
        /\ Total(w, T \cup {x}) = w[x] + Total(w, T)
    BY <1>0, TotalAdd
  <2>2. Total(u, T) \in Int /\ Total(v, T) \in Int /\ u[x] \in Int /\ v[x] \in Int
    BY <1>0, TotalInt
  <2>3. Total(w, T) = Total(u, T) + Total(v, T) /\ w[x] = u[x] + v[x]
    BY <1>2
  <2> QED BY <2>1, <2>2, <2>3
<1>3. S \in F
  <2> HIDE DEF F
  <2> QED BY <1>0, <1>1, <1>2, FiniteInduction
<1> QED BY <1>0, <1>3

(* A sum of products is the product of the sums. *)
LEMMA TotalProduct ==
  ASSUME NEW u, NEW v, NEW S, NEW T, Summable(u, S), Summable(v, T),
         NEW w, \A p \in S \X T : w[p] = u[p[1]] * v[p[2]]
  PROVE  Summable(w, S \X T) /\ Total(w, S \X T) = Total(u, S) * Total(v, T)
<1> DEFINE key == [p \in S \X T |-> p[1]]
           sum == [s \in S |-> Total(w, Group(S \X T, key, s))]
           b == Total(v, T)
<1>0. /\ IsFiniteSet(S) /\ IsFiniteSet(T) /\ b \in Int
      /\ \A s \in S : u[s] \in Int
      /\ \A t \in T : v[t] \in Int
  BY TotalAnyInt DEF Summable
<1>1. Summable(w, S \X T)
  <2>1. \A p \in S \X T : w[p] \in Int
    <3>1. \A a, c \in Int : a * c \in Int
      OBVIOUS
    <3> QED BY <1>0, <3>1
  <2> QED BY <1>0, <2>1, FS_Product DEF Summable
<1>2. ASSUME NEW s \in S
      PROVE  sum[s] = b * u[s]
  <2> DEFINE h == [t \in T |-> <<s, t>>]
             r == [t \in T |-> u[s] * v[t]]
             R == Group(S \X T, key, s)
  <2>1. h \in [T -> R]
    BY DEF Group
  <2>2. Summable(r, T) /\ Total(r, T) = u[s] * b
    <3>1. Multiple(r, u[s], v, T)
      BY DEF Multiple
    <3>2. u[s] \in Int /\ Summable(v, T)
      BY <1>0
    <3> HIDE DEF r, h, R, sum, key
    <3> QED BY <3>1, <3>2, TotalScaled
  <2>3. /\ \A x, y \in T : h[x] = h[y] => x = y
        /\ \A y \in R : \E x \in T : h[x] = y
        /\ \A x \in T : w[h[x]] = r[x]
    BY DEF Group
  <2> HIDE DEF h, r, R, b
  <2>4. Total(w, R) = Total(r, T)
    BY <2>1, <2>2, <2>3, TotalMoved
  <2>5. u[s] * b = b * u[s]
    BY <1>0
  <2> QED BY <2>2, <2>4, <2>5 DEF R
<1>3. Summable(sum, S) /\ Total(sum, S) = Total(w, S \X T)
  <2>1. \A p \in S \X T : key[p] \in S
    OBVIOUS
  <2>2. \A s \in S : sum[s] = Total(w, Group(S \X T, key, s))
    OBVIOUS
  <2>3. PICK C : C = S \X T
    OBVIOUS
  <2> HIDE DEF key, sum, b
  <2>4. IsFiniteSet(S) /\ Summable(w, C) /\ \A p \in C : key[p] \in S
    BY <1>0, <1>1, <2>1, <2>3
  <2>5. \A s \in S : sum[s] = Total(w, Group(C, key, s))
    BY <2>2, <2>3
  <2>6. Summable(sum, S) /\ Total(sum, S) = Total(w, C)
    BY <2>4, <2>5, TotalGroups
  <2> QED BY <2>3, <2>6
<1> HIDE DEF sum, b
<1>4. Total(sum, S) = b * Total(u, S)
  <2>1. b \in Int /\ Multiple(sum, b, u, S)
    BY <1>0, <1>2 DEF Multiple
  <2> QED BY <2>1, TotalScaled
<1>5. b * Total(u, S) = Total(u, S) * b
  BY <1>0, TotalAnyInt
<1> QED BY <1>1, <1>3, <1>4, <1>5 DEF b

-----------------------------------------------------------------------------
(* Values, modulo Modulus. *)

Same(a, b) == a % Modulus = b % Modulus

LEMMA Division ==
  ASSUME NEW a \in Int
  PROVE  a % Modulus \in Values /\ a \div Modulus \in Int /\ a = (a \div Modulus) * Modulus + (a % Modulus)
<1>1. Modulus \in Nat /\ Modulus > 0
  BY AssemblyAssumption
<1>2. a % Modulus \in Int /\ 0 <= a % Modulus /\ a % Modulus < Modulus
  BY <1>1
<1>3. a % Modulus \in Values
  BY <1>1, <1>2 DEF Values
<1>4. a \div Modulus \in Int
  BY <1>1
<1>5. a = (a \div Modulus) * Modulus + (a % Modulus)
  BY <1>1, SMTT(60)
<1> QED BY <1>3, <1>4, <1>5

LEMMA Remainder ==
  ASSUME NEW q \in Int, NEW r \in Values
  PROVE  (q * Modulus + r) % Modulus = r
<1> DEFINE a == q * Modulus + r
<1>1. Modulus \in Nat \ {0} /\ r \in 0 .. Modulus - 1
  BY AssemblyAssumption DEF Values
<1>2. a \in Int /\ a = Modulus * q + r
  BY <1>1
<1> HIDE DEF a
<1>3. a % Modulus = r
  BY <1>1, <1>2
<1> QED BY <1>3 DEF a

LEMMA ValueMod == \A a \in Values : a \in Int /\ a % Modulus = a
<1> TAKE a \in Values
<1>1. a \in Int /\ 0 * Modulus + a = a
  BY AssemblyAssumption DEF Values
<1> QED BY <1>1, Remainder

LEMMA SameIs ==
  ASSUME NEW a \in Int, NEW b \in Int
  PROVE  Same(a, b) <=> \E k \in Int : a = b + k * Modulus
<1> DEFINE q == a \div Modulus
           p == b \div Modulus
           r == a % Modulus
           s == b % Modulus
<1>1. r \in Values /\ q \in Int /\ a = q * Modulus + r /\ s \in Values /\ p \in Int /\ b = p * Modulus + s
  BY Division
<1>2. r \in Int /\ s \in Int /\ Modulus \in Int
  BY <1>1, ValueMod, AssemblyAssumption
<1> HIDE DEF q, p, r, s
<1>3. ASSUME r = s
      PROVE  a = b + (q - p) * Modulus
  BY <1>1, <1>2, <1>3
<1>4. ASSUME NEW k \in Int, a = b + k * Modulus
      PROVE  r = s
  <2>1. a = (p + k) * Modulus + s /\ p + k \in Int
    BY <1>1, <1>2, <1>4
  <2>2. a % Modulus = s
    BY <1>1, <2>1, Remainder
  <2> QED BY <2>2 DEF r
<1> USE DEF r, s
<1> QED BY <1>1, <1>3, <1>4 DEF Same

LEMMA SameSum ==
  ASSUME NEW a \in Int, NEW b \in Int, NEW c \in Int, NEW d \in Int, Same(a, b), Same(c, d)
  PROVE  Same(a + c, b + d)
<1>0. Modulus \in Int
  BY AssemblyAssumption
<1>1. PICK k \in Int : a = b + k * Modulus
  BY SameIs
<1>2. PICK l \in Int : c = d + l * Modulus
  BY SameIs
<1>3. a + c = (b + d) + (k + l) * Modulus
  BY <1>0, <1>1, <1>2
<1>4. a + c \in Int /\ b + d \in Int /\ k + l \in Int
  OBVIOUS
<1> QED BY <1>3, <1>4, SameIs

LEMMA SameProduct ==
  ASSUME NEW a \in Int, NEW b \in Int, NEW c \in Int, NEW d \in Int, Same(a, b), Same(c, d)
  PROVE  Same(a * c, b * d)
<1>0. Modulus \in Int
  BY AssemblyAssumption
<1>1. PICK k \in Int : a = b + k * Modulus
  BY SameIs
<1>2. PICK l \in Int : c = d + l * Modulus
  BY SameIs
<1> DEFINE e == b * l + k * d + k * l * Modulus
<1>3. a * c = (b * d) + e * Modulus
  BY <1>0, <1>1, <1>2
<1>4. a * c \in Int /\ b * d \in Int /\ e \in Int
  BY <1>0
<1> HIDE DEF e
<1> QED BY <1>3, <1>4, SameIs

LEMMA SameMod == \A a \in Int : a % Modulus \in Values /\ a % Modulus \in Int /\ Same(a % Modulus, a)
  BY Division, ValueMod DEF Same

LEMMA SameTotal ==
  ASSUME NEW v, NEW w, NEW S, Summable(v, S), Summable(w, S), \A x \in S : Same(v[x], w[x])
  PROVE  Same(Total(v, S), Total(w, S))
<1> DEFINE F == {T \in SUBSET S : Same(Total(v, T), Total(w, T))}
<1>0. IsFiniteSet(S) /\ \A x \in S : v[x] \in Int /\ w[x] \in Int
  BY DEF Summable
<1>1. {} \in F
  BY TotalEmpty DEF Same
<1>2. ASSUME NEW T \in SUBSET S, NEW x \in S \ T, T \in F
      PROVE  T \cup {x} \in F
  <2>1. Total(v, T \cup {x}) = v[x] + Total(v, T) /\ Total(w, T \cup {x}) = w[x] + Total(w, T)
    BY TotalAdd
  <2>2. Total(v, T) \in Int /\ Total(w, T) \in Int
    BY TotalInt
  <2>3. Same(Total(v, T), Total(w, T)) /\ Same(v[x], w[x]) /\ v[x] \in Int /\ w[x] \in Int
    BY <1>0, <1>2
  <2>4. Same(v[x] + Total(v, T), w[x] + Total(w, T))
    BY <2>2, <2>3, SameSum
  <2> QED BY <2>1, <2>4
<1>3. S \in F
  <2> HIDE DEF F
  <2> QED BY <1>0, <1>1, <1>2, FiniteInduction
<1> QED BY <1>3

LEMMA FiniteUnion ==
  ASSUME NEW K, IsFiniteSet(K), NEW A, \A k \in K : IsFiniteSet(A[k])
  PROVE  IsFiniteSet(UNION {A[k] : k \in K})
<1> DEFINE Of(U) == UNION {A[k] : k \in U}
           F == {U \in SUBSET K : IsFiniteSet(Of(U))}
<1>1. {} \in F
  <2>1. Of({}) = {}
    OBVIOUS
  <2> QED BY <2>1, FS_EmptySet
<1>2. ASSUME NEW U \in SUBSET K, NEW k \in K \ U, U \in F
      PROVE  U \cup {k} \in F
  <2>1. Of(U \cup {k}) = Of(U) \cup A[k]
    OBVIOUS
  <2>2. IsFiniteSet(Of(U)) /\ IsFiniteSet(A[k])
    BY <1>2
  <2> HIDE DEF Of
  <2>3. IsFiniteSet(Of(U \cup {k}))
    BY <2>1, <2>2, FS_Union
  <2> QED BY <2>3
<1>3. K \in F
  <2> HIDE DEF F
  <2> QED BY <1>1, <1>2, FiniteInduction
<1> QED BY <1>3

LEMMA FiniteImage ==
  ASSUME NEW S, IsFiniteSet(S), NEW h
  PROVE  IsFiniteSet({h[x] : x \in S})
<1> DEFINE T == {h[x] : x \in S}
           g == [x \in S |-> h[x]]
<1>1. g \in Surjection(S, T)
  BY DEF Surjection
<1> HIDE DEF g, T
<1>2. IsFiniteSet(T)
  BY <1>1, FS_Surjection
<1> QED BY <1>2 DEF T

(* A sum of sums, over pairs. *)
Pairs(K, A) == UNION {{<<k, t>> : t \in A[k]} : k \in K}

LEMMA TotalPairs ==
  ASSUME NEW K, IsFiniteSet(K), NEW A, NEW v, \A k \in K : Summable(v[k], A[k]),
         NEW w, \A k \in K : \A t \in A[k] : w[<<k, t>>] = v[k][t],
         NEW r, \A k \in K : r[k] = Total(v[k], A[k])
  PROVE  /\ Summable(w, Pairs(K, A)) /\ Summable(r, K)
         /\ Total(w, Pairs(K, A)) = Total(r, K)
<1> DEFINE S == Pairs(K, A)
           key == [p \in S |-> p[1]]
           Of(k) == {<<k, t>> : t \in A[k]}
<1>1. ASSUME NEW k \in K
      PROVE  /\ Summable(w, Of(k)) /\ Total(w, Of(k)) = r[k]
             /\ Of(k) = Group(S, key, k)
  <2> DEFINE h == [t \in A[k] |-> <<k, t>>]
  <2>1. /\ h \in [A[k] -> Of(k)]
        /\ \A x, y \in A[k] : h[x] = h[y] => x = y
        /\ \A y \in Of(k) : \E x \in A[k] : h[x] = y
        /\ \A x \in A[k] : w[h[x]] = v[k][x]
    OBVIOUS
  <2>2. Of(k) = Group(S, key, k)
    BY DEF Group, Pairs
  <2>3. Summable(v[k], A[k])
    OBVIOUS
  <2> HIDE DEF h, Of, S, key
  <2>4. Summable(w, Of(k)) /\ Total(w, Of(k)) = Total(v[k], A[k])
    BY <2>1, <2>3, TotalMoved
  <2> QED BY <2>2, <2>4
<1>2. Summable(w, S)
  <2> DEFINE B == [k \in K |-> Of(k)]
  <2>1. S = UNION {B[k] : k \in K}
    BY DEF Pairs
  <2>2. \A k \in K : IsFiniteSet(B[k])
    BY <1>1 DEF Summable
  <2> HIDE DEF B
  <2>3. IsFiniteSet(UNION {B[k] : k \in K})
    BY <2>2, FiniteUnion
  <2>4. \A p \in S : w[p] \in Int
    BY DEF Pairs, Summable
  <2> HIDE DEF S
  <2> QED BY <2>1, <2>3, <2>4 DEF Summable
<1>3. \A p \in S : key[p] \in K
  BY DEF Pairs
<1>4. \A k \in K : r[k] = Total(w, Group(S, key, k))
  BY <1>1
<1> HIDE DEF S, key, Of
<1>5. Summable(r, K) /\ Total(r, K) = Total(w, S)
  BY <1>2, <1>3, <1>4, TotalGroups
<1> QED BY <1>2, <1>5 DEF S

-----------------------------------------------------------------------------
(* What is stored, as sums. *)

ValuesIn(c) == \A x \in DOMAIN c : c[x] \in Values

LEMMA SmallValues == 0 \in Values /\ 1 \in Values /\ Values \subseteq Int
  BY AssemblyAssumption DEF Values

LEMMA AtValue ==
  ASSUME NEW c, ValuesIn(c), NEW x
  PROVE  At(c, x) \in Values /\ At(c, x) \in Int /\ At(c, x) % Modulus = At(c, x)
<1>1. At(c, x) \in Values
  BY SmallValues DEF At, ValuesIn
<1> QED BY <1>1, ValueMod

LEMMA AddedAt ==
  ASSUME NEW c, ValuesIn(c), NEW place, NEW val, Summable(val, DOMAIN place)
  PROVE  /\ ValuesIn(Added(c, place, val))
         /\ \A x : At(Added(c, place, val), x)
                     = (At(c, x) + Total(val, Group(DOMAIN place, place, x))) % Modulus
<1> DEFINE a == Added(c, place, val)
           S(x) == Group(DOMAIN place, place, x)
<1>1. \A x : S(x) = {p \in DOMAIN place : place[p] = x} /\ S(x) \in SUBSET DOMAIN place
  BY DEF Group
<1>2. \A x : Total(val, S(x)) \in Int
  BY <1>1, TotalInt
<1>3. DOMAIN a = DOMAIN c \cup {place[p] : p \in DOMAIN place}
  BY AddedDomain
<1>4. \A x \in DOMAIN a : a[x] = (At(c, x) + Total(val, S(x))) % Modulus
  BY <1>1, <1>3 DEF Added
<1>5. ASSUME NEW x
      PROVE  (At(c, x) + Total(val, S(x))) % Modulus \in Values
  <2>1. At(c, x) + Total(val, S(x)) \in Int
    BY <1>2, AtValue
  <2> HIDE DEF S
  <2> QED BY <2>1, SameMod
<1>6. ASSUME NEW x, x \notin DOMAIN a
      PROVE  (At(c, x) + Total(val, S(x))) % Modulus = 0
  <2>1. S(x) = {}
    BY <1>1, <1>3, <1>6
  <2>2. At(c, x) = 0
    BY <1>3, <1>6 DEF At
  <2>3. At(c, x) + Total(val, S(x)) = 0
    BY <2>1, <2>2, TotalEmpty
  <2> QED BY <2>3, ZeroMod
<1>7. ValuesIn(a)
  BY <1>4, <1>5 DEF ValuesIn
<1>8. \A x : At(a, x) = (At(c, x) + Total(val, S(x))) % Modulus
  <2> HIDE DEF a, S
  <2> QED BY <1>4, <1>6 DEF At
<1> QED BY <1>7, <1>8

LEMMA CellsFinite == IsFiniteSet(Cells) /\ IsFiniteSet(Dofs)
<1>1. IsFiniteSet(Dofs)
  BY AssemblyAssumption, FS_Interval DEF Dofs
<1> QED BY <1>1, FS_Product DEF Cells

(* The stored terms of a matrix, by the place a loop gives them. *)
TermValues(m, both) == [t \in Terms(m, both) |-> m.coef[t[1]]]
TermPlaces(m, both, trans) == [t \in Terms(m, both) |-> PlaceOf(t, trans)]

LEMMA TermsFinite ==
  ASSUME NEW m, DOMAIN m.coef \subseteq Cells, ValuesIn(m.coef), NEW both \in BOOLEAN
  PROVE  Summable(TermValues(m, both), Terms(m, both)) /\ IsFiniteSet(Terms(m, both))
<1>1. IsFiniteSet(DOMAIN m.coef)
  BY CellsFinite, FS_Subset
<1>2. IsFiniteSet(BOOLEAN)
  <2>1. PICK no, yes : no = FALSE /\ yes = TRUE
    OBVIOUS
  <2>2. BOOLEAN = {no} \cup {yes}
    BY <2>1
  <2>3. IsFiniteSet({no} \cup {yes})
    BY FS_Singleton, FS_Union
  <2> QED BY <2>2, <2>3
<1>3. PICK B : B = BOOLEAN
  OBVIOUS
<1>4. IsFiniteSet((DOMAIN m.coef) \X B)
  BY <1>1, <1>2, <1>3, FS_Product
<1>5. PICK C : C = (DOMAIN m.coef) \X B
  OBVIOUS
<1>6. Terms(m, both) \in SUBSET C
  BY <1>3, <1>5 DEF Terms
<1>7. IsFiniteSet(Terms(m, both))
  BY <1>4, <1>5, <1>6, FS_Subset
<1>8. \A t \in Terms(m, both) : TermValues(m, both)[t] \in Int
  BY SmallValues DEF Terms, TermValues, ValuesIn
<1> QED BY <1>7, <1>8 DEF Summable

(* A loop over both triangles meets in each cell what the matrix is there, *)
(* a loop over the stored terms what is stored there.                      *)
LEMMA TermsTotal ==
  ASSUME NEW m, Fine(m), ValuesIn(m.coef), NEW both \in BOOLEAN, NEW trans \in BOOLEAN,
         NEW x \in Cells
  PROVE  LET y == IF trans THEN Mirror(x) ELSE x
             s == Total(TermValues(m, both), Group(Terms(m, both), TermPlaces(m, both, trans), x))
         IN  /\ s \in Int
             /\ both => Same(s, Dense(m)[y])
             /\ ~both => s = At(m.coef, y)
<1> DEFINE y == IF trans THEN Mirror(x) ELSE x
           z == Mirror(y)
           v == TermValues(m, both)
           S == Terms(m, both)
           G == Group(S, TermPlaces(m, both, trans), x)
           G1 == {t \in G : t[2] = FALSE}
           G2 == {t \in G : t[2] = TRUE}
           other == both /\ m.half > 0 /\ ~Diagonal(y)
<1>1. x \in Cells /\ y \in Cells /\ z \in Cells /\ Mirror(z) = y /\ (Diagonal(z) <=> Diagonal(y))
  <2>1. \A c \in Cells : Diagonal(Mirror(c)) <=> Diagonal(c)
    BY MirrorCell DEF Diagonal, Mirror
  <2> QED BY <2>1, MirrorCell
<1>2. Summable(v, S) /\ G \in SUBSET S
  BY TermsFinite DEF Fine, Group
<1>3. \A t \in G : /\ t = <<t[1], t[2]>> /\ t[2] \in BOOLEAN /\ t[1] \in DOMAIN m.coef
                   /\ v[t] = m.coef[t[1]]
                   /\ t[2] = FALSE => t[1] = y
                   /\ t[2] = TRUE => t[1] = z /\ other
  <2> SUFFICES ASSUME NEW t \in G
               PROVE  /\ t = <<t[1], t[2]>> /\ t[2] \in BOOLEAN /\ t[1] \in DOMAIN m.coef
                      /\ v[t] = m.coef[t[1]]
                      /\ t[2] = FALSE => t[1] = y
                      /\ t[2] = TRUE => t[1] = z /\ other
    OBVIOUS
  <2>1. /\ t \in (DOMAIN m.coef) \X BOOLEAN /\ (t[2] => both /\ m.half > 0 /\ ~Diagonal(t[1]))
        /\ PlaceOf(t, trans) = x
    BY DEF Terms, Group, TermPlaces
  <2>2. t[1] \in Cells /\ Mirror(Mirror(t[1])) = t[1]
    BY <2>1, MirrorCell DEF Fine
  <2>3. v[t] = m.coef[t[1]]
    BY DEF Group, TermValues
  <2>4. t[2] = FALSE => t[1] = y
    BY <2>1, <2>2 DEF PlaceOf
  <2>5. t[2] = TRUE => t[1] = z
    BY <1>1, <2>1, <2>2 DEF PlaceOf
  <2> HIDE DEF z, y
  <2> QED BY <1>1, <2>1, <2>3, <2>4, <2>5
<1>4. <<y, FALSE>> \in G <=> y \in DOMAIN m.coef
  <2>1. PlaceOf(<<y, FALSE>>, trans) = x
    BY <1>1, MirrorCell DEF PlaceOf
  <2>2. y \in DOMAIN m.coef => <<y, FALSE>> \in S
    BY DEF Terms
  <2>3. y \in DOMAIN m.coef => <<y, FALSE>> \in G
    BY <2>1, <2>2 DEF Group, TermPlaces
  <2> QED BY <1>3, <2>3
<1>5. <<z, TRUE>> \in G <=> z \in DOMAIN m.coef /\ other
  <2>1. PlaceOf(<<z, TRUE>>, trans) = x
    BY <1>1, MirrorCell DEF PlaceOf
  <2>2. z \in DOMAIN m.coef /\ other => <<z, TRUE>> \in S
    BY <1>1 DEF Terms
  <2>3. z \in DOMAIN m.coef /\ other => <<z, TRUE>> \in G
    BY <2>1, <2>2 DEF Group, TermPlaces
  <2> QED BY <1>3, <2>3
<1>6. /\ At(m.coef, y) \in Int /\ At(m.coef, z) \in Int
      /\ \A w \in DOMAIN m.coef : m.coef[w] = At(m.coef, w) /\ m.coef[w] \in Int
      /\ \A w : w \notin DOMAIN m.coef => At(m.coef, w) = 0
  BY AtValue, SmallValues DEF At, ValuesIn
<1> HIDE DEF v, S, G, other, z, y
<1>7. Total(v, G1) = At(m.coef, y)
  <2>1. CASE y \in DOMAIN m.coef
    <3>1. G1 = {<<y, FALSE>>}
      BY <1>3, <1>4, <2>1
    <3>2. v[<<y, FALSE>>] = At(m.coef, y) /\ v[<<y, FALSE>>] \in Int
      BY <1>3, <1>4, <1>6, <2>1
    <3>3. PICK e : e = <<y, FALSE>>
      OBVIOUS
    <3> HIDE DEF G1
    <3> QED BY <3>1, <3>2, <3>3, TotalOne
  <2>2. CASE y \notin DOMAIN m.coef
    <3>1. G1 = {}
      BY <1>3, <2>2
    <3> HIDE DEF G1
    <3> QED BY <1>6, <2>2, <3>1, TotalEmpty
  <2> QED BY <2>1, <2>2
<1>8. Total(v, G2) = IF other THEN At(m.coef, z) ELSE 0
  <2>1. CASE z \in DOMAIN m.coef /\ other
    <3>1. G2 = {<<z, TRUE>>}
      BY <1>3, <1>5, <2>1
    <3>2. v[<<z, TRUE>>] = At(m.coef, z) /\ v[<<z, TRUE>>] \in Int
      BY <1>3, <1>5, <1>6, <2>1
    <3>3. PICK e : e = <<z, TRUE>>
      OBVIOUS
    <3> HIDE DEF G2
    <3> QED BY <2>1, <3>1, <3>2, <3>3, TotalOne
  <2>2. CASE ~(z \in DOMAIN m.coef /\ other)
    <3>1. G2 = {}
      BY <1>3, <1>5, <2>2
    <3> HIDE DEF G2
    <3> QED BY <1>6, <2>2, <3>1, TotalEmpty
  <2> QED BY <2>1, <2>2
<1>9. Total(v, G) = Total(v, G1) + Total(v, G2)
  <2>1. G = G1 \cup G2 /\ G1 \cap G2 = {}
    BY <1>3
  <2>2. Summable(v, G1 \cup G2)
    BY <1>2, <2>1, TotalInt
  <2> HIDE DEF G1, G2
  <2> QED BY <2>1, <2>2, TotalUnion
<1>10. Total(v, G) \in Int
  BY <1>2, TotalInt
<1>11. ASSUME both
       PROVE  Same(Total(v, G), Dense(m)[y])
  <2>1. Dense(m)[y] = IF m.half > 0 /\ ~Diagonal(y) THEN (At(m.coef, y) + At(m.coef, z)) % Modulus
                      ELSE At(m.coef, y)
    BY <1>1 DEF Dense, z
  <2>2. other <=> (m.half > 0 /\ ~Diagonal(y))
    BY <1>11 DEF other
  <2>3. CASE other
    <3>1. Total(v, G) = At(m.coef, y) + At(m.coef, z) /\ At(m.coef, y) + At(m.coef, z) \in Int
      BY <1>6, <1>7, <1>8, <1>9, <2>3
    <3> QED BY <2>1, <2>2, <2>3, <3>1, SameMod DEF Same
  <2>4. CASE ~other
    <3>1. Total(v, G) = At(m.coef, y)
      BY <1>6, <1>7, <1>8, <1>9, <2>4
    <3> QED BY <2>1, <2>2, <2>4, <3>1 DEF Same
  <2> QED BY <2>3, <2>4
<1>12. ASSUME ~both
       PROVE  Total(v, G) = At(m.coef, y)
  <2>1. ~other
    BY <1>12 DEF other
  <2> QED BY <1>6, <1>7, <1>8, <1>9, <2>1
<1> QED BY <1>10, <1>11, <1>12 DEF v, G, S, y

-----------------------------------------------------------------------------
(* Sums of matrices. *)

Good(m) == Fine(m) /\ ValuesIn(m.coef)

(* What the terms of the k-th matrix of L add up to in x.                  *)
Part(L, k, x) ==
  LET m == mat[L[k].of]
  IN  Total(TermValues(m, ~AllHalf(L)),
            Group(Terms(m, ~AllHalf(L)), TermPlaces(m, ~AllHalf(L), L[k].trans), x))

LEMMA SumAt ==
  ASSUME NEW c, ValuesIn(c), NEW L \in Sums, \A k \in DOMAIN L : Good(mat[L[k].of]),
         NEW x \in Cells, NEW r, \A k \in DOMAIN L : Same(r[k], L[k].coef * Part(L, k, x)),
         Summable(r, DOMAIN L)
  PROVE  /\ ValuesIn(BuildCombMat(c, L))
         /\ At(BuildCombMat(c, L), x) = (At(c, x) + Total(r, DOMAIN L)) % Modulus
<1> DEFINE K == DOMAIN L
           both == ~AllHalf(L)
           S == SumTerms(L)
           place == [p \in S |-> PlaceOf(p[2], L[p[1]].trans)]
           val == [p \in S |-> L[p[1]].coef * mat[L[p[1]].of].coef[p[2][1]]]
           B == [k \in K |-> Terms(mat[L[k].of], both)]
           A == [k \in K |-> Group(B[k], TermPlaces(mat[L[k].of], both, L[k].trans), x)]
           v == [k \in K |-> [t \in B[k] |-> L[k].coef * mat[L[k].of].coef[t[1]]]]
           q == [k \in K |-> Total(v[k], A[k])]
           qB == [k \in K |-> Total(v[k], B[k])]
<1>0. IsFiniteSet(K) /\ both \in BOOLEAN
  <2>1. Len(L) \in Nat /\ K = 1 .. Len(L)
    BY SumData
  <2>2. IsFiniteSet(1 .. Len(L))
    BY <2>1, FS_Interval
  <2>3. both \in BOOLEAN
    BY DEF AllHalf
  <2> HIDE DEF K, both
  <2> QED BY <2>1, <2>2, <2>3
<1>1. ASSUME NEW k \in K
      PROVE  /\ Summable(v[k], B[k]) /\ Summable(v[k], A[k]) /\ A[k] \in SUBSET B[k]
             /\ q[k] = L[k].coef * Part(L, k, x) /\ q[k] \in Int
  <2> DEFINE m == mat[L[k].of]
             tv == TermValues(m, both)
  <2>1. Summable(tv, B[k])
    BY <1>0, TermsFinite DEF Good, Fine
  <2>2. Multiple(v[k], L[k].coef, tv, B[k])
    BY DEF Multiple, TermValues
  <2>3. A[k] \in SUBSET B[k]
    BY DEF Group
  <2>4. L[k].coef \in Int
    BY SumData
  <2>5. Total(tv, A[k]) = Part(L, k, x)
    BY DEF Part
  <2> HIDE DEF m, tv, A, B, v
  <2>6. Summable(v[k], B[k])
    BY <2>1, <2>2, <2>4, TotalScaled
  <2>7. Summable(tv, A[k]) /\ Multiple(v[k], L[k].coef, tv, A[k])
    BY <2>1, <2>2, <2>3, TotalInt DEF Multiple
  <2>8. Summable(v[k], A[k]) /\ Total(v[k], A[k]) = L[k].coef * Total(tv, A[k])
    BY <2>4, <2>7, TotalScaled
  <2>9. Total(v[k], A[k]) \in Int
    BY <2>8, TotalAnyInt
  <2> QED BY <2>3, <2>5, <2>6, <2>8, <2>9
<1>2. S = Pairs(K, B)
  BY DEF SumTerms, Pairs
<1>3. Group(S, place, x) = Pairs(K, A)
  <2>1. ASSUME NEW p \in S
        PROVE  \E k \in K : \E t \in B[k] : p = <<k, t>>
    BY DEF SumTerms
  <2>2. ASSUME NEW k \in K, NEW t \in B[k]
        PROVE  <<k, t>> \in S /\ place[<<k, t>>] = PlaceOf(t, L[k].trans)
    <3>1. <<k, t>> \in S
      BY DEF SumTerms
    <3> QED BY <3>1
  <2>3. ASSUME NEW k \in K, NEW t \in B[k]
        PROVE  t \in A[k] <=> PlaceOf(t, L[k].trans) = x
    BY DEF Group, TermPlaces
  <2>4. A \in [K -> SUBSET UNION {B[k] : k \in K}] /\ \A k \in K : A[k] \subseteq B[k]
    BY DEF Group
  <2> HIDE DEF A, B, S, place
  <2>5. \A p : p \in Group(S, place, x) <=> p \in S /\ place[p] = x
    BY DEF Group
  <2>6. \A p : p \in Pairs(K, A) <=> \E k \in K : \E t \in A[k] : p = <<k, t>>
    BY DEF Pairs
  <2>7. ASSUME NEW p \in Group(S, place, x)
        PROVE  p \in Pairs(K, A)
    BY <2>1, <2>2, <2>3, <2>5, <2>6
  <2>8. ASSUME NEW p \in Pairs(K, A)
        PROVE  p \in Group(S, place, x)
    BY <2>2, <2>3, <2>4, <2>5, <2>6
  <2> QED BY <2>7, <2>8
<1>4. \A k \in K : \A t \in B[k] : val[<<k, t>>] = v[k][t]
  <2>1. \A k \in K : \A t \in B[k] : <<k, t>> \in S
    BY DEF SumTerms
  <2> QED BY <2>1
<1>5. \A k \in K : q[k] = Total(v[k], A[k]) /\ qB[k] = Total(v[k], B[k])
  OBVIOUS
<1>6. DOMAIN place = S /\ DOMAIN val = S
  OBVIOUS
<1>7. BuildCombMat(c, L) = Added(c, place, val)
  BY DEF BuildCombMat
<1> HIDE DEF A, B, v, q, qB, val, place, S, K, both
<1>8. Summable(val, S)
  <2>1. \A k \in K : Summable(v[k], B[k])
    BY <1>1
  <2> QED BY <1>0, <1>2, <1>4, <1>5, <2>1, TotalPairs
<1>9. Summable(q, K) /\ Total(val, Group(S, place, x)) = Total(q, K)
  <2>1. \A k \in K : Summable(v[k], A[k]) /\ \A t \in A[k] : val[<<k, t>>] = v[k][t]
    BY <1>1, <1>4
  <2>2. Summable(q, K) /\ Total(val, Pairs(K, A)) = Total(q, K)
    BY <1>0, <1>5, <2>1, TotalPairs
  <2> QED BY <1>3, <2>2
<1>10. Same(Total(q, K), Total(r, K))
  <2>1. \A k \in K : Same(q[k], r[k])
    BY <1>1 DEF Same, K
  <2>2. Summable(r, K)
    BY DEF K
  <2> QED BY <1>9, <2>1, <2>2, SameTotal
<1>11. At(BuildCombMat(c, L), x) = (At(c, x) + Total(q, K)) % Modulus
  BY <1>6, <1>7, <1>8, <1>9, AddedAt
<1>12. (At(c, x) + Total(q, K)) % Modulus = (At(c, x) + Total(r, K)) % Modulus
  <2>1. At(c, x) \in Int /\ Total(q, K) \in Int /\ Total(r, K) \in Int
    BY <1>9, AtValue, TotalAnyInt DEF K
  <2>2. Same(At(c, x) + Total(q, K), At(c, x) + Total(r, K))
    BY <1>10, <2>1, SameSum DEF Same
  <2> QED BY <2>2 DEF Same
<1>13. ValuesIn(BuildCombMat(c, L))
  BY <1>6, <1>7, <1>8, AddedAt
<1> QED BY <1>11, <1>12, <1>13 DEF K

(* What is read of a matrix. *)
LEMMA DenseValue ==
  ASSUME NEW m, Good(m), NEW x \in Cells
  PROVE  Dense(m)[x] \in Values /\ Dense(m)[x] \in Int /\ Dense(m)[x] % Modulus = Dense(m)[x]
<1>1. \A y : At(m.coef, y) \in Values /\ At(m.coef, y) \in Int
  BY AtValue DEF Good
<1>2. Dense(m)[x] \in Values
  BY <1>1, SameMod DEF Dense
<1> QED BY <1>2, ValueMod

(* A linear combination is stored whole, or all of it half.                *)
LEMMA SumDense ==
  ASSUME NEW m, Good(m), NEW L \in Sums, SumFits(L), m.half > 0 <=> AllHalf(L),
         \A k \in DOMAIN L : Good(mat[L[k].of]) /\ Dense(mat[L[k].of]) = asked[L[k].of]
  PROVE  LET n == [half |-> m.half, coef |-> BuildCombMat(m.coef, L)]
         IN  ValuesIn(n.coef) /\ Dense(n) = Combination(Dense(m), L)
<1> DEFINE c == BuildCombMat(m.coef, L)
           n == [half |-> m.half, coef |-> c]
           K == DOMAIN L
           w(x) == [k \in DOMAIN L |-> L[k].coef * Transposed(asked[L[k].of], L[k].trans)[x]]
<1>0. ValuesIn(m.coef) /\ IsFiniteSet(K) /\ \A k \in K : L[k].coef \in Int /\ L[k].trans \in BOOLEAN
  <2>1. Len(L) \in Nat /\ K = 1 .. Len(L) /\ \A k \in K : L[k].coef \in Int /\ L[k].trans \in BOOLEAN
    BY SumData
  <2>2. IsFiniteSet(1 .. Len(L))
    BY <2>1, FS_Interval
  <2> HIDE DEF K
  <2> QED BY <2>1, <2>2 DEF Good
<1>1. ASSUME NEW k \in K, NEW x \in Cells
      PROVE  /\ w(x)[k] = L[k].coef * Dense(mat[L[k].of])[IF L[k].trans THEN Mirror(x) ELSE x]
             /\ w(x)[k] \in Int
  <2>1. Mirror(x) \in Cells
    BY MirrorCell
  <2>2. w(x)[k] = L[k].coef * Dense(mat[L[k].of])[IF L[k].trans THEN Mirror(x) ELSE x]
    BY DEF Transposed
  <2>3. Dense(mat[L[k].of])[IF L[k].trans THEN Mirror(x) ELSE x] \in Int
    BY <2>1, DenseValue
  <2> QED BY <1>0, <2>2, <2>3
<1>2. \A x \in Cells : Summable(w(x), K)
  BY <1>0, <1>1 DEF Summable
<1>3. \A x \in Cells : Combination(Dense(m), L)[x] = (Dense(m)[x] + Total(w(x), K)) % Modulus
  BY DEF Combination
<1>4. \A x \in Cells : /\ At(m.coef, x) \in Int /\ Total(w(x), K) \in Int /\ Dense(m)[x] \in Int
  BY <1>0, <1>2, AtValue, TotalAnyInt, DenseValue
<1>5. ASSUME ~AllHalf(L)
      PROVE  \A x \in Cells : ValuesIn(c) /\ Dense(n)[x] = Combination(Dense(m), L)[x]
  <2>1. ASSUME NEW x \in Cells
        PROVE  ValuesIn(c) /\ Dense(n)[x] = Combination(Dense(m), L)[x]
    <3>1. ASSUME NEW k \in K
          PROVE  Same(w(x)[k], L[k].coef * Part(L, k, x))
      <4> DEFINE y == IF L[k].trans THEN Mirror(x) ELSE x
      <4>1. Part(L, k, x) \in Int /\ Same(Part(L, k, x), Dense(mat[L[k].of])[y])
        BY <1>0, <1>5, TermsTotal DEF Part, Good
      <4>2. y \in Cells /\ Dense(mat[L[k].of])[y] \in Int
        BY MirrorCell, DenseValue
      <4>3. PICK e, d, p : e = L[k].coef /\ d = Dense(mat[L[k].of])[y] /\ p = Part(L, k, x)
        OBVIOUS
      <4>4. e \in Int /\ d \in Int /\ p \in Int /\ Same(e, e) /\ Same(d, p)
        BY <1>0, <4>1, <4>2, <4>3 DEF Same
      <4>5. Same(e * d, e * p)
        BY <4>4, SameProduct
      <4>6. w(x)[k] = e * d
        BY <1>1, <4>3
      <4> HIDE DEF w
      <4> QED BY <4>3, <4>5, <4>6
    <3>2. ValuesIn(c) /\ At(c, x) = (At(m.coef, x) + Total(w(x), K)) % Modulus
      <4>1. PICK r : r = w(x)
        OBVIOUS
      <4>2. (\A k \in DOMAIN L : Same(r[k], L[k].coef * Part(L, k, x))) /\ Summable(r, DOMAIN L)
        BY <1>2, <3>1, <4>1
      <4> HIDE DEF w
      <4> QED BY <1>0, <4>1, <4>2, SumAt
    <3>3. Dense(n)[x] = At(c, x) /\ Dense(m)[x] = At(m.coef, x)
      BY <1>5 DEF Dense
    <3> QED BY <1>3, <3>2, <3>3
  <2> QED BY <2>1
<1>6. ASSUME AllHalf(L)
      PROVE  \A x \in Cells : ValuesIn(c) /\ Dense(n)[x] = Combination(Dense(m), L)[x]
  <2> DEFINE a(x) == [k \in K |-> L[k].coef * At(mat[L[k].of].coef, x)]
  <2>1. ASSUME NEW x \in Cells
        PROVE  /\ Summable(a(x), K)
               /\ ValuesIn(c) /\ At(c, x) = (At(m.coef, x) + Total(a(x), K)) % Modulus
    <3>1. ASSUME NEW k \in K
          PROVE  a(x)[k] \in Int /\ Same(a(x)[k], L[k].coef * Part(L, k, x))
      <4>1. Part(L, k, x) = At(mat[L[k].of].coef, x)
        BY <1>0, <1>6, TermsTotal DEF Part, Good, SumFits
      <4>2. At(mat[L[k].of].coef, x) \in Int
        BY AtValue DEF Good
      <4> QED BY <1>0, <4>1, <4>2 DEF Same
    <3>2. PICK r : r = a(x)
      OBVIOUS
    <3>3. (\A k \in DOMAIN L : Same(r[k], L[k].coef * Part(L, k, x))) /\ Summable(r, DOMAIN L)
      BY <1>0, <3>1, <3>2 DEF Summable
    <3> HIDE DEF a
    <3> QED BY <1>0, <3>2, <3>3, SumAt
  <2>2. ASSUME NEW x \in Cells
        PROVE  Dense(n)[x] = Combination(Dense(m), L)[x]
    <3> DEFINE y == Mirror(x)
    <3>1. y \in Cells
      BY MirrorCell
    <3>2. \A k \in K : mat[L[k].of].half > 0 /\ ~L[k].trans
      BY <1>6 DEF AllHalf, SumFits
    <3>3. Total(a(x), K) \in Int /\ Total(a(y), K) \in Int
      BY <2>1, <3>1, TotalAnyInt
    <3>4. CASE Diagonal(x)
      <4>1. \A k \in K : w(x)[k] = a(x)[k]
        BY <1>1, <3>2, <3>4 DEF Dense
      <4>2. Total(w(x), K) = Total(a(x), K)
        <5> HIDE DEF a, w
        <5> QED BY <1>2, <4>1, TotalSame
      <4>3. Dense(n)[x] = At(c, x) /\ Dense(m)[x] = At(m.coef, x)
        BY <3>4 DEF Dense
      <4> QED BY <1>3, <2>1, <4>2, <4>3
    <3>5. CASE ~Diagonal(x)
      <4> DEFINE b == [k \in K |-> L[k].coef * (At(mat[L[k].of].coef, x) + At(mat[L[k].of].coef, y))]
      <4>0. \A k \in K : /\ At(mat[L[k].of].coef, x) \in Int /\ At(mat[L[k].of].coef, y) \in Int
                         /\ At(mat[L[k].of].coef, x) + At(mat[L[k].of].coef, y) \in Int
        BY AtValue DEF Good
      <4>1. \A k \in K : b[k] = a(x)[k] + a(y)[k]
        BY <1>0, <4>0
      <4>2. Summable(b, K) /\ Total(b, K) = Total(a(x), K) + Total(a(y), K)
        <5>1. PICK u, v : u = a(x) /\ v = a(y)
          OBVIOUS
        <5> HIDE DEF a, b, y
        <5>2. Summable(u, K) /\ Summable(v, K) /\ \A k \in K : b[k] = u[k] + v[k]
          BY <2>1, <3>1, <4>1, <5>1
        <5>3. Summable(b, K) /\ Total(b, K) = Total(u, K) + Total(v, K)
          BY <5>2, TotalPlus
        <5> QED BY <5>1, <5>3
      <4>3. ASSUME NEW k \in K
            PROVE  Same(w(x)[k], b[k])
        <5>1. Dense(mat[L[k].of])[x] = (At(mat[L[k].of].coef, x) + At(mat[L[k].of].coef, y)) % Modulus
          BY <3>2, <3>5 DEF Dense
        <5>2. w(x)[k] = L[k].coef * ((At(mat[L[k].of].coef, x) + At(mat[L[k].of].coef, y)) % Modulus)
          BY <1>1, <3>2, <5>1
        <5>3. PICK z : z = At(mat[L[k].of].coef, x) + At(mat[L[k].of].coef, y)
          OBVIOUS
        <5>4. z \in Int /\ z % Modulus \in Int /\ Same(z % Modulus, z) /\ L[k].coef \in Int
          BY <1>0, <4>0, <5>3, SameMod
        <5>5. Same(L[k].coef * (z % Modulus), L[k].coef * z)
          BY <5>4, SameProduct DEF Same
        <5> QED BY <5>2, <5>3, <5>5
      <4>4. Same(Total(w(x), K), Total(a(x), K) + Total(a(y), K))
        <5> HIDE DEF a, b, w
        <5> QED BY <1>2, <4>2, <4>3, SameTotal
      <4>5. /\ Dense(n)[x] = (At(c, x) + At(c, y)) % Modulus
            /\ Dense(m)[x] = (At(m.coef, x) + At(m.coef, y)) % Modulus
        BY <1>6, <3>5 DEF Dense
      <4>6. /\ At(c, x) = (At(m.coef, x) + Total(a(x), K)) % Modulus
            /\ At(c, y) = (At(m.coef, y) + Total(a(y), K)) % Modulus
        BY <2>1, <3>1
      <4> HIDE DEF a, w, c, y
      <4>7. PICK p, q, s, t, u : /\ p = At(m.coef, x) /\ q = At(m.coef, y)
                                 /\ s = Total(a(x), K) /\ t = Total(a(y), K) /\ u = Total(w(x), K)
        OBVIOUS
      <4>8. p \in Int /\ q \in Int /\ s \in Int /\ t \in Int /\ u \in Int
        BY <1>4, <3>1, <3>3, <4>7
      <4>9. Same(((p + s) % Modulus) + ((q + t) % Modulus), ((p + q) % Modulus) + u)
        <5>1. p + s \in Int /\ q + t \in Int /\ p + q \in Int /\ s + t \in Int
          BY <4>8
        <5>2. /\ (p + s) % Modulus \in Int /\ Same((p + s) % Modulus, p + s)
              /\ (q + t) % Modulus \in Int /\ Same((q + t) % Modulus, q + t)
              /\ (p + q) % Modulus \in Int /\ Same((p + q) % Modulus, p + q)
          BY <5>1, SameMod
        <5>3. Same(((p + s) % Modulus) + ((q + t) % Modulus), (p + s) + (q + t))
          BY <5>1, <5>2, SameSum
        <5>4. Same(((p + q) % Modulus) + u, (p + q) + (s + t))
          BY <4>4, <4>7, <4>8, <5>1, <5>2, SameSum
        <5>5. (p + s) + (q + t) = (p + q) + (s + t)
          BY <4>8
        <5> QED BY <5>3, <5>4, <5>5 DEF Same
      <4> QED BY <1>3, <4>5, <4>6, <4>7, <4>9 DEF Same
    <3> QED BY <3>4, <3>5
  <2> QED BY <2>1, <2>2
<1>9. (\A x \in Cells : ValuesIn(c)) => ValuesIn(c)
  <2>1. \A k \in DOMAIN L : Fine(mat[L[k].of])
    BY DEF Good
  <2>2. DOMAIN m.coef \subseteq Cells
    BY DEF Good, Fine
  <2>3. DOMAIN c \subseteq Cells
    BY <2>1, <2>2, SumFine
  <2> HIDE DEF c
  <2> QED BY <2>3 DEF ValuesIn
<1>7. Dense(n) = [x \in Cells |-> Dense(n)[x]]
  BY DEF Dense
<1>8. Combination(Dense(m), L) = [x \in Cells |-> Combination(Dense(m), L)[x]]
  BY DEF Combination
<1> HIDE DEF n, c
<1>10. \A x \in Cells : ValuesIn(c) /\ Dense(n)[x] = Combination(Dense(m), L)[x]
  BY <1>5, <1>6
<1>11. Dense(n) = Combination(Dense(m), L)
  BY <1>7, <1>8, <1>10
<1>12. ValuesIn(c)
  BY <1>9, <1>10
<1> QED BY <1>11, <1>12 DEF n, c

LEMMA NothingStored == DOMAIN NoTerms = {} /\ ValuesIn(NoTerms) /\ \A x : At(NoTerms, x) = 0
<1>1. DOMAIN NoTerms = {}
  BY DEF NoTerms
<1> HIDE DEF NoTerms
<1> QED BY <1>1 DEF ValuesIn, At

(* Products: the pairs of terms that meet, by the degree of freedom where  *)
(* they do.                                                                *)
LEMMA ProductDense ==
  ASSUME NEW a, NEW b, Good(a), Good(b), NEW ta \in BOOLEAN, NEW tb \in BOOLEAN
  PROVE  LET n == [half |-> 0, coef |-> AddMul(a, b, ta, tb)]
         IN  /\ ValuesIn(n.coef)
             /\ Dense(n) = Product(Transposed(Dense(a), ta), Transposed(Dense(b), tb))
<1> DEFINE c == AddMul(a, b, ta, tb)
           n == [half |-> 0, coef |-> c]
           TA == Terms(a, TRUE)
           TB == Terms(b, TRUE)
           u == TermValues(a, TRUE)
           v == TermValues(b, TRUE)
           P == {p \in TA \X TB : PlaceOf(p[1], ta)[2] = PlaceOf(p[2], tb)[1]}
           place == [p \in P |-> <<PlaceOf(p[1], ta)[1], PlaceOf(p[2], tb)[2]>>]
           val == [p \in P |-> a.coef[p[1][1]] * b.coef[p[2][1]]]
           key == [p \in P |-> PlaceOf(p[1], ta)[2]]
           d == Transposed(Dense(a), ta)
           e == Transposed(Dense(b), tb)
<1>1. Summable(u, TA) /\ Summable(v, TB) /\ IsFiniteSet(TA) /\ IsFiniteSet(TB)
  BY TermsFinite DEF Good, Fine
<1>2. \A s \in TA : PlaceOf(s, ta) \in Cells /\ u[s] = a.coef[s[1]] /\ u[s] \in Int
  BY <1>1, TermsFine DEF Good, Fine, TermValues, Summable
<1>3. \A t \in TB : PlaceOf(t, tb) \in Cells /\ v[t] = b.coef[t[1]] /\ v[t] \in Int
  BY <1>1, TermsFine DEF Good, Fine, TermValues, Summable
<1>4. c = Added(NoTerms, place, val) /\ DOMAIN place = P
  BY DEF AddMul
<1>5. /\ P \in SUBSET (TA \X TB)
      /\ \A p \in P : /\ p[1] \in TA /\ p[2] \in TB /\ val[p] = u[p[1]] * v[p[2]]
                      /\ key[p] = PlaceOf(p[1], ta)[2] /\ key[p] = PlaceOf(p[2], tb)[1]
                      /\ place[p] = <<PlaceOf(p[1], ta)[1], PlaceOf(p[2], tb)[2]>>
  <2>1. \A p \in P : p[1] \in TA /\ p[2] \in TB
    OBVIOUS
  <2> HIDE DEF TA, TB, u, v
  <2> QED BY <1>2, <1>3, <2>1
<1>6. \A s \in TA, t \in TB : <<s, t>> \in P <=> PlaceOf(s, ta)[2] = PlaceOf(t, tb)[1]
  OBVIOUS
<1> HIDE DEF c, TA, TB, u, v, P, place, val, key
<1>7. IsFiniteSet(P) /\ Summable(val, P)
  <2>1. PICK C : C = TA \X TB
    OBVIOUS
  <2>2. IsFiniteSet(C) /\ P \in SUBSET C
    BY <1>1, <1>5, <2>1, FS_Product
  <2>3. IsFiniteSet(P)
    BY <2>2, FS_Subset
  <2>4. \A p \in P : val[p] \in Int
    BY <1>2, <1>3, <1>5
  <2> QED BY <2>3, <2>4 DEF Summable
<1>8. ASSUME NEW x \in Cells
      PROVE  Dense(n)[x] = Product(d, e)[x]
  <2> DEFINE G == Group(P, place, x)
             A(k) == Group(TA, TermPlaces(a, TRUE, ta), <<x[1], k>>)
             B(k) == Group(TB, TermPlaces(b, TRUE, tb), <<k, x[2]>>)
             w == [k \in Dofs |-> Total(val, Group(G, key, k))]
             r == [k \in Dofs |-> d[<<x[1], k>>] * e[<<k, x[2]>>]]
  <2>0. x[1] \in Dofs /\ x[2] \in Dofs /\ x = <<x[1], x[2]>>
    BY DEF Cells
  <2>1. G \in SUBSET P /\ \A p \in G : key[p] \in Dofs
    <3>1. \A p \in P : PlaceOf(p[1], ta) \in Cells
      BY <1>2, <1>5
    <3> QED BY <1>5, <3>1 DEF Group, Cells
  <2>2. Summable(val, G)
    BY <1>7, <2>1, TotalInt
  <2>3. \A k : \A s : s \in A(k) <=> s \in TA /\ PlaceOf(s, ta) = <<x[1], k>>
    BY DEF Group, TermPlaces, TA
  <2>4. \A k : \A t : t \in B(k) <=> t \in TB /\ PlaceOf(t, tb) = <<k, x[2]>>
    BY DEF Group, TermPlaces, TB
  <2> HIDE DEF A, B
  <2>5. ASSUME NEW k \in Dofs
        PROVE  Group(G, key, k) = A(k) \X B(k)
    <3>1. ASSUME NEW p \in Group(G, key, k)
          PROVE  p \in A(k) \X B(k)
      <4>1. p \in P /\ key[p] = k /\ place[p] = x
        BY DEF Group
      <4>2. PlaceOf(p[1], ta) \in Cells /\ PlaceOf(p[2], tb) \in Cells
        BY <1>2, <1>3, <1>5, <4>1
      <4>3. PlaceOf(p[1], ta) = <<x[1], k>> /\ PlaceOf(p[2], tb) = <<k, x[2]>>
        BY <1>5, <2>0, <4>1, <4>2 DEF Cells
      <4>4. p[1] \in A(k) /\ p[2] \in B(k)
        BY <1>5, <2>3, <2>4, <4>1, <4>3
      <4>5. p = <<p[1], p[2]>>
        BY <1>5, <4>1
      <4> QED BY <4>4, <4>5
    <3>2. ASSUME NEW p \in A(k) \X B(k)
          PROVE  p \in Group(G, key, k)
      <4>1. /\ p = <<p[1], p[2]>> /\ p[1] \in TA /\ p[2] \in TB
            /\ PlaceOf(p[1], ta) = <<x[1], k>> /\ PlaceOf(p[2], tb) = <<k, x[2]>>
        BY <2>3, <2>4
      <4>2. PlaceOf(p[1], ta)[2] = k /\ PlaceOf(p[2], tb)[1] = k
            /\ PlaceOf(p[1], ta)[1] = x[1] /\ PlaceOf(p[2], tb)[2] = x[2]
        BY <4>1
      <4>3. p \in P
        BY <1>6, <4>1, <4>2
      <4>4. key[p] = k /\ place[p] = x
        BY <1>5, <2>0, <4>2, <4>3
      <4> QED BY <4>3, <4>4 DEF Group
    <3> QED BY <3>1, <3>2
  <2>6. ASSUME NEW k \in Dofs
        PROVE  Same(w[k], r[k]) /\ r[k] \in Int
    <3>1. PICK y, z : y = <<x[1], k>> /\ z = <<k, x[2]>>
      OBVIOUS
    <3>2. y \in Cells /\ z \in Cells /\ Mirror(y) \in Cells /\ Mirror(z) \in Cells
      BY <2>0, <3>1, MirrorCell DEF Cells
    <3>3. PICK S, T : S = A(k) /\ T = B(k)
      OBVIOUS
    <3>4. /\ Total(u, S) \in Int /\ Same(Total(u, S), Dense(a)[IF ta THEN Mirror(y) ELSE y])
          /\ Total(v, T) \in Int /\ Same(Total(v, T), Dense(b)[IF tb THEN Mirror(z) ELSE z])
      BY <3>1, <3>2, <3>3, TermsTotal DEF Good, A, B, u, v, TA, TB
    <3>5. d[y] = Dense(a)[IF ta THEN Mirror(y) ELSE y] /\ e[z] = Dense(b)[IF tb THEN Mirror(z) ELSE z]
      BY <3>2 DEF Transposed
    <3>6. d[y] \in Int /\ e[z] \in Int
      BY <3>2, <3>5, DenseValue
    <3>7. Summable(u, S) /\ Summable(v, T)
      <4>1. S \in SUBSET TA /\ T \in SUBSET TB
        BY <2>3, <2>4, <3>3
      <4> QED BY <1>1, <4>1, TotalInt
    <3>8. \A p \in S \X T : val[p] = u[p[1]] * v[p[2]]
      <4>1. \A p \in S \X T : p \in P
        BY <2>5, <3>3 DEF Group
      <4> QED BY <1>5, <4>1
    <3>9. Total(val, S \X T) = Total(u, S) * Total(v, T)
      BY <3>7, <3>8, TotalProduct
    <3>10. w[k] = Total(u, S) * Total(v, T)
      BY <2>5, <3>3, <3>9
    <3>11. PICK s, t, f, g : s = Total(u, S) /\ t = Total(v, T) /\ f = d[y] /\ g = e[z]
      OBVIOUS
    <3>12. /\ s \in Int /\ t \in Int /\ f \in Int /\ g \in Int
           /\ Same(s, f) /\ Same(t, g)
      BY <3>4, <3>5, <3>6, <3>11
    <3>13. Same(s * t, f * g)
      BY <3>12, SameProduct
    <3>14. r[k] = f * g
      BY <3>1, <3>11
    <3> HIDE DEF w, r
    <3> QED BY <3>10, <3>11, <3>12, <3>13, <3>14
  <2>7. Summable(w, Dofs) /\ Total(w, Dofs) = Total(val, G)
    <3>1. \A k \in Dofs : w[k] = Total(val, Group(G, key, k))
      OBVIOUS
    <3> HIDE DEF w, G
    <3> QED BY <2>1, <2>2, <3>1, CellsFinite, TotalGroups
  <2>8. Summable(r, Dofs)
    BY <2>6, CellsFinite DEF Summable
  <2>9. Same(Total(val, G), Total(r, Dofs))
    <3>1. \A k \in Dofs : Same(w[k], r[k])
      BY <2>6
    <3> HIDE DEF w, r
    <3> QED BY <2>7, <2>8, <3>1, SameTotal
  <2>10. At(c, x) = (At(NoTerms, x) + Total(val, G)) % Modulus
    BY <1>4, <1>7, AddedAt, NothingStored
  <2>11. At(c, x) = Total(val, G) % Modulus
    <3>1. Total(val, G) \in Int
      BY <2>2, TotalAnyInt
    <3> HIDE DEF G
    <3> QED BY <2>10, <3>1, NothingStored
  <2>12. Dense(n)[x] = At(c, x)
    BY DEF Dense
  <2>13. Product(d, e)[x] = Total(r, Dofs) % Modulus
    BY DEF Product
  <2> QED BY <2>9, <2>11, <2>12, <2>13 DEF Same
<1>9. ValuesIn(c)
  BY <1>4, <1>7, AddedAt, NothingStored
<1>10. Dense(n) = [x \in Cells |-> Dense(n)[x]]
  BY DEF Dense
<1>11. Product(d, e) = [x \in Cells |-> Product(d, e)[x]]
  BY DEF Product
<1>12. Dense(n) = Product(d, e)
  <2> HIDE DEF n, d, e
  <2> QED BY <1>8, <1>10, <1>11
<1> QED BY <1>9, <1>12 DEF n, c

-----------------------------------------------------------------------------
(* Elementary matrices. *)

Swapped(p) == <<p[1], p[3], p[2]>>

(* p is an entry of the k-th element of f. *)
EntryOf(f, k, p) == \E il, jl \in DOMAIN f.elements[k].dof : p = <<k, il, jl>>

LEMMA EntriesAre ==
  ASSUME NEW f \in Forms
  PROVE  /\ \A p : p \in Entries(f, FALSE) <=> \E k \in DOMAIN f.elements : EntryOf(f, k, p)
         /\ \A p : p \in Entries(f, TRUE) <=> p \in Entries(f, FALSE) /\ p[3] <= p[2]
<1> DEFINE Of(k) == {<<k, il, jl>> : il \in DOMAIN f.elements[k].dof,
                                     jl \in DOMAIN f.elements[k].dof}
           All == UNION {Of(k) : k \in DOMAIN f.elements}
<1>1. \A p : p \in All <=> \E k \in DOMAIN f.elements : p \in Of(k)
  OBVIOUS
<1>2. \A k \in DOMAIN f.elements : \A p : p \in Of(k) <=> EntryOf(f, k, p)
  BY DEF EntryOf
<1>3. Entries(f, FALSE) = All /\ Entries(f, TRUE) = {p \in All : p[3] <= p[2]}
  BY DEF Entries
<1> HIDE DEF Of, All
<1>4. \A p : p \in Entries(f, FALSE) <=> \E k \in DOMAIN f.elements : EntryOf(f, k, p)
  BY <1>1, <1>2, <1>3
<1>5. \A p : p \in Entries(f, TRUE) <=> p \in Entries(f, FALSE) /\ p[3] <= p[2]
  BY <1>3
<1> QED BY <1>4, <1>5

LEMMA EntryIs ==
  ASSUME NEW f \in Forms, NEW p \in Entries(f, FALSE)
  PROVE  /\ p = <<p[1], p[2], p[3]>> /\ p[2] \in Nat /\ p[3] \in Nat
         /\ Row(f, p) \in Dofs /\ Column(f, p) \in Dofs /\ Entry(f, p) \in Int
         /\ Swapped(p) \in Entries(f, FALSE) /\ Swapped(Swapped(p)) = p
         /\ Row(f, Swapped(p)) = Column(f, p) /\ Column(f, Swapped(p)) = Row(f, p)
         /\ SymmetricForm(f) => /\ Entry(f, Swapped(p)) = Entry(f, p)
                                /\ Row(f, p) = Column(f, p) => p[2] = p[3]
<1>1. PICK k \in DOMAIN f.elements : EntryOf(f, k, p)
  BY EntriesAre
<1>2. PICK il \in DOMAIN f.elements[k].dof, jl \in DOMAIN f.elements[k].dof : p = <<k, il, jl>>
  BY <1>1 DEF EntryOf
<1> DEFINE e == f.elements[k]
<1>3. /\ Len(e.dof) \in Nat /\ DOMAIN e.dof = 1 .. Len(e.dof)
      /\ \A l \in DOMAIN e.dof : e.dof[l] \in Dofs
      /\ \A i, j \in DOMAIN e.dof : e.ke[i][j] \in Int
  BY FormData
<1>4. p[1] = k /\ p[2] = il /\ p[3] = jl /\ Swapped(p) = <<k, jl, il>>
  BY <1>2 DEF Swapped
<1>5. Swapped(p) \in Entries(f, FALSE)
  <2>1. EntryOf(f, k, Swapped(p))
    BY <1>4 DEF EntryOf
  <2> QED BY <2>1, EntriesAre
<1>6. SymmetricForm(f) => e.ke[il][jl] = e.ke[jl][il] /\ (e.dof[il] = e.dof[jl] => il = jl)
  BY DEF SymmetricForm
<1>7. il \in Nat /\ jl \in Nat
  BY <1>3
<1>8. /\ Row(f, p) = e.dof[il] /\ Column(f, p) = e.dof[jl] /\ Entry(f, p) = e.ke[il][jl]
      /\ Row(f, Swapped(p)) = e.dof[jl] /\ Column(f, Swapped(p)) = e.dof[il]
      /\ Entry(f, Swapped(p)) = e.ke[jl][il]
  BY <1>4 DEF Row, Column, Entry
<1>9. Swapped(Swapped(p)) = p
  BY <1>2, <1>4 DEF Swapped
<1>10. p = <<p[1], p[2], p[3]>>
  BY <1>2
<1>11. SymmetricForm(f) => /\ Entry(f, Swapped(p)) = Entry(f, p)
                           /\ Row(f, p) = Column(f, p) => p[2] = p[3]
  BY <1>4, <1>6, <1>8
<1>12. Row(f, p) \in Dofs /\ Column(f, p) \in Dofs /\ Entry(f, p) \in Int
  BY <1>3, <1>8
<1>13. Row(f, Swapped(p)) = Column(f, p) /\ Column(f, Swapped(p)) = Row(f, p)
  BY <1>8
<1>14. p[2] \in Nat /\ p[3] \in Nat
  BY <1>4, <1>7
<1> QED BY <1>5, <1>9, <1>10, <1>11, <1>12, <1>13, <1>14

LEMMA EntriesFinite ==
  ASSUME NEW f \in Forms, NEW sym \in BOOLEAN
  PROVE  IsFiniteSet(Entries(f, sym)) /\ Entries(f, sym) \in SUBSET Entries(f, FALSE)
<1> DEFINE K == DOMAIN f.elements
           A == [k \in K |-> {<<k, il, jl>> : il \in DOMAIN f.elements[k].dof,
                                              jl \in DOMAIN f.elements[k].dof}]
<1>1. IsFiniteSet(K)
  <2>1. Len(f.elements) \in Nat /\ K = 1 .. Len(f.elements)
    BY FormData
  <2>2. IsFiniteSet(1 .. Len(f.elements))
    BY <2>1, FS_Interval
  <2> HIDE DEF K
  <2> QED BY <2>1, <2>2
<1>2. ASSUME NEW k \in K
      PROVE  IsFiniteSet(A[k])
  <2> DEFINE D == DOMAIN f.elements[k].dof
             C == D \X D
             h == [x \in C |-> <<k, x[1], x[2]>>]
  <2>1. IsFiniteSet(D)
    <3>1. Len(f.elements[k].dof) \in Nat /\ D = 1 .. Len(f.elements[k].dof)
      BY FormData
    <3>2. IsFiniteSet(1 .. Len(f.elements[k].dof))
      BY <3>1, FS_Interval
    <3> HIDE DEF D
    <3> QED BY <3>1, <3>2
  <2>2. A[k] = {h[x] : x \in C}
    <3>1. A[k] = {<<k, il, jl>> : il \in D, jl \in D}
      OBVIOUS
    <3> HIDE DEF D, A
    <3>2. \A il, jl \in D : <<il, jl>> \in C /\ h[<<il, jl>>] = <<k, il, jl>>
      OBVIOUS
    <3>3. \A x \in C : x[1] \in D /\ x[2] \in D /\ h[x] = <<k, x[1], x[2]>>
      OBVIOUS
    <3> HIDE DEF C, h
    <3>4. ASSUME NEW y \in A[k]
          PROVE  y \in {h[x] : x \in C}
      <4>1. PICK il \in D, jl \in D : y = <<k, il, jl>>
        BY <3>1
      <4>2. PICK x : x = <<il, jl>>
        OBVIOUS
      <4> QED BY <3>2, <4>1, <4>2
    <3>5. ASSUME NEW x \in C
          PROVE  h[x] \in A[k]
      <4>1. PICK il \in D, jl \in D : h[x] = <<k, il, jl>>
        BY <3>3
      <4>2. <<k, il, jl>> \in A[k]
        BY <3>1
      <4> QED BY <4>1, <4>2
    <3> QED BY <3>4, <3>5
  <2> HIDE DEF D, A
  <2>3. IsFiniteSet(C)
    BY <2>1, FS_Product
  <2> HIDE DEF C, h
  <2> QED BY <2>2, <2>3, FiniteImage
<1>3. \A p : p \in UNION {A[k] : k \in K} <=> p \in Entries(f, FALSE)
  <2>1. \A k \in K : \A p : p \in A[k] <=> EntryOf(f, k, p)
    BY DEF EntryOf
  <2>2. \A p : p \in UNION {A[k] : k \in K} <=> \E k \in K : p \in A[k]
    OBVIOUS
  <2> HIDE DEF A
  <2> QED BY <2>1, <2>2, EntriesAre
<1> HIDE DEF A, K
<1>4. IsFiniteSet(Entries(f, FALSE))
  <2>1. IsFiniteSet(UNION {A[k] : k \in K})
    BY <1>1, <1>2, FiniteUnion
  <2>2. UNION {A[k] : k \in K} = Entries(f, FALSE)
    BY <1>3
  <2> QED BY <2>1, <2>2
<1>5. Entries(f, sym) \in SUBSET Entries(f, FALSE)
  BY EntriesAre
<1> QED BY <1>4, <1>5, FS_Subset

(* The assembly of a form over terms that are zero: all of the elementary  *)
(* matrices, or the lower half of them into the lower triangle.            *)
LEMMA ElementsDense ==
  ASSUME NEW f \in Forms, NEW c, ValuesIn(c), DOMAIN c \subseteq Cells, \A x : At(c, x) = 0,
         NEW sym \in 0 .. 2, sym > 0 => SymmetricForm(f) /\ \A x \in DOMAIN c : IsLower(x)
  PROVE  LET n == [half |-> sym, coef |-> AddElements(c, f, sym > 0)]
         IN  Good(n) /\ Dense(n) = FormMatrix(f)
<1> DEFINE low == sym > 0
           e == AddElements(c, f, sym > 0)
           n == [half |-> sym, coef |-> e]
           S == Entries(f, low)
           place == [p \in Entries(f, low) |-> Stored(Row(f, p), Column(f, p), low)]
           val == [p \in Entries(f, low) |-> Entry(f, p)]
           A == Entries(f, FALSE)
           all == [p \in A |-> Entry(f, p)]
           F(x) == {p \in A : Row(f, p) = x[1] /\ Column(f, p) = x[2]}
<1>1. low \in BOOLEAN
  OBVIOUS
<1>2. IsFiniteSet(S) /\ S \in SUBSET A /\ IsFiniteSet(A)
  BY <1>1, EntriesFinite
<1>3. e = Added(c, place, val) /\ DOMAIN place = S
  BY DEF AddElements
<1>4. /\ \A p \in S : val[p] = Entry(f, p) /\ place[p] = Stored(Row(f, p), Column(f, p), low)
      /\ \A p \in A : all[p] = Entry(f, p)
  OBVIOUS
<1>5. \A x \in Cells : FormMatrix(f)[x] = Total(all, F(x)) % Modulus
  BY DEF FormMatrix
<1>6. DOMAIN e \subseteq Cells /\ (low => \A x \in DOMAIN e : IsLower(x))
  <2> HIDE DEF low, e
  <2>1. low => \A x \in DOMAIN c : IsLower(x)
    BY DEF low
  <2>2. e = AddElements(c, f, low)
    BY DEF e, low
  <2> QED BY <1>1, <2>1, <2>2, ElementsFine
<1>7. low => (\A p : p \in S <=> p \in A /\ p[3] <= p[2])
  <2>1. low => S = Entries(f, TRUE)
    BY <1>1
  <2> QED BY <2>1, EntriesAre
<1>8. ~low => S = A
  BY <1>1
<1>9. \A p \in A : /\ Row(f, p) \in Int /\ Column(f, p) \in Int /\ Entry(f, p) \in Int
                   /\ p[2] \in Int /\ p[3] \in Int
  <2>1. Dofs \subseteq Int
    BY AssemblyAssumption DEF Dofs
  <2>2. ASSUME NEW p \in A
        PROVE  /\ Row(f, p) \in Dofs /\ Column(f, p) \in Dofs /\ Entry(f, p) \in Int
               /\ p[2] \in Nat /\ p[3] \in Nat
    BY EntryIs
  <2> SUFFICES ASSUME NEW p \in A
               PROVE  /\ Row(f, p) \in Int /\ Column(f, p) \in Int /\ Entry(f, p) \in Int
                      /\ p[2] \in Int /\ p[3] \in Int
    OBVIOUS
  <2>3. Row(f, p) \in Dofs /\ Column(f, p) \in Dofs
    BY <2>2
  <2>4. Entry(f, p) \in Int
    BY <2>2
  <2>5. p[2] \in Nat /\ p[3] \in Nat
    BY <2>2
  <2>6. \A i \in Nat : i \in Int
    OBVIOUS
  <2> QED BY <2>1, <2>3, <2>4, <2>5, <2>6
<1>10. \A x : \A p : p \in F(x) <=> p \in A /\ Row(f, p) = x[1] /\ Column(f, p) = x[2]
  OBVIOUS
<1>11. low => SymmetricForm(f)
  OBVIOUS
<1> HIDE DEF S, place, val, all, A, F, low, e
<1>12. Summable(val, S) /\ Summable(all, A)
  BY <1>2, <1>4, <1>9 DEF Summable
<1>13. \A x : At(e, x) = Total(val, Group(S, place, x)) % Modulus
  <2>1. \A x : At(e, x) = (At(c, x) + Total(val, Group(S, place, x))) % Modulus
    BY <1>3, <1>12, AddedAt
  <2>2. \A x : Total(val, Group(S, place, x)) \in Int
    <3>1. \A x : Group(S, place, x) \in SUBSET S
      BY DEF Group
    <3> QED BY <1>12, <3>1, TotalInt
  <2> QED BY <2>1, <2>2
<1>14. Good(n)
  <2>1. ValuesIn(e)
    BY <1>3, <1>12, AddedAt
  <2>2. Fine(n)
    BY <1>6 DEF Fine, low
  <2> QED BY <2>1, <2>2 DEF Good
<1>15. ASSUME NEW x \in Cells
       PROVE  Dense(n)[x] = FormMatrix(f)[x]
  <2>0. x[1] \in Int /\ x[2] \in Int /\ x = <<x[1], x[2]>>
    BY AssemblyAssumption DEF Cells, Dofs
  <2>1. CASE ~low
    <3>1. \A p \in S : place[p] = <<Row(f, p), Column(f, p)>> /\ val[p] = all[p]
      BY <1>2, <1>4, <2>1 DEF Stored
    <3>2. Group(S, place, x) = F(x)
      BY <1>8, <1>10, <2>0, <2>1, <3>1 DEF Group
    <3>3. Total(val, F(x)) = Total(all, F(x))
      <4>1. F(x) \in SUBSET S
        BY <1>8, <1>10, <2>1
      <4>2. Summable(val, F(x)) /\ \A p \in F(x) : val[p] = all[p]
        BY <1>12, <3>1, <4>1, TotalInt
      <4> QED BY <4>2, TotalSame
    <3>4. Dense(n)[x] = At(e, x)
      BY <2>1 DEF Dense, low
    <3> QED BY <1>5, <1>13, <3>2, <3>3, <3>4
  <2>2. CASE low /\ Diagonal(x)
    <3>1. ASSUME NEW p \in S
          PROVE  place[p] = x <=> Row(f, p) = x[1] /\ Column(f, p) = x[2]
      <4>1. PICK i, j : i = Row(f, p) /\ j = Column(f, p) /\ i \in Int /\ j \in Int
        BY <1>2, <1>9
      <4>2. place[p] = IF j > i THEN <<j, i>> ELSE <<i, j>>
        BY <1>4, <2>2, <4>1 DEF Stored
      <4>3. x = <<x[1], x[1]>> /\ x[1] = x[2]
        BY <2>0, <2>2 DEF Diagonal
      <4>4. place[p] = x <=> i = x[1] /\ j = x[1]
        BY <2>0, <4>1, <4>2, <4>3
      <4> QED BY <4>1, <4>3, <4>4
    <3>2. ASSUME NEW p \in F(x)
          PROVE  p \in S
      <4>1. p \in A /\ Row(f, p) = Column(f, p)
        BY <1>10, <2>2 DEF Diagonal
      <4>2. p[2] = p[3]
        BY <1>11, <2>2, <4>1, EntryIs DEF A
      <4> QED BY <1>7, <1>9, <2>2, <4>1, <4>2
    <3>3. Group(S, place, x) = F(x)
      BY <1>2, <1>10, <3>1, <3>2 DEF Group
    <3>4. Total(val, F(x)) = Total(all, F(x))
      <4>1. F(x) \in SUBSET S
        BY <3>2
      <4>2. Summable(val, F(x)) /\ \A p \in F(x) : val[p] = all[p]
        BY <1>2, <1>4, <1>12, <4>1, TotalInt
      <4> QED BY <4>2, TotalSame
    <3>5. Dense(n)[x] = At(e, x)
      BY <2>2 DEF Dense
    <3> QED BY <1>5, <1>13, <3>3, <3>4, <3>5
  <2>3. CASE low /\ ~Diagonal(x)
    <3> DEFINE y == Mirror(x)
               z == IF IsLower(x) THEN x ELSE y
               o == IF IsLower(x) THEN y ELSE x
               G == Group(S, place, z)
               h == [p \in G |-> IF Row(f, p) = x[1] THEN p ELSE Swapped(p)]
    <3>0. x[1] # x[2] /\ y = <<x[2], x[1]>> /\ y \in Cells
      BY <2>3, MirrorCell DEF Diagonal, Mirror
    <3>1. At(e, o) = 0
      <4>1. ~IsLower(o)
        BY <2>0, <3>0 DEF IsLower
      <4> QED BY <1>6, <2>3, <4>1 DEF At
    <3>2. Dense(n)[x] = At(e, z)
      <4>1. Dense(n)[x] = (At(e, x) + At(e, y)) % Modulus
        BY <2>3 DEF Dense, low
      <4>2. (z = x /\ o = y) \/ (z = y /\ o = x)
        OBVIOUS
      <4>3. At(e, z) \in Int /\ At(e, z) % Modulus = At(e, z)
        BY <1>14, AtValue DEF Good
      <4> HIDE DEF z, o, y
      <4>4. Dense(n)[x] = At(e, z) % Modulus
        BY <3>1, <4>1, <4>2, <4>3
      <4> QED BY <4>3, <4>4
    <3>3. ASSUME NEW p \in S
          PROVE  place[p] = z <=> \/ Row(f, p) = x[1] /\ Column(f, p) = x[2]
                                  \/ Row(f, p) = x[2] /\ Column(f, p) = x[1]
      <4>1. PICK i, j : i = Row(f, p) /\ j = Column(f, p) /\ i \in Int /\ j \in Int
        BY <1>2, <1>9
      <4>2. place[p] = IF j > i THEN <<j, i>> ELSE <<i, j>>
        BY <1>4, <2>3, <4>1 DEF Stored
      <4>3. z = IF x[1] >= x[2] THEN <<x[1], x[2]>> ELSE <<x[2], x[1]>>
        BY <2>0, <3>0 DEF IsLower
      <4> HIDE DEF z, y
      <4>4. place[p] = z => (i = x[1] /\ j = x[2]) \/ (i = x[2] /\ j = x[1])
        BY <2>0, <3>0, <4>2, <4>3
      <4>5. (i = x[1] /\ j = x[2]) \/ (i = x[2] /\ j = x[1]) => place[p] = z
        BY <2>0, <3>0, <4>1, <4>2, <4>3
      <4> QED BY <4>1, <4>4, <4>5
    <3>4. ASSUME NEW p \in G
          PROVE  /\ p \in S /\ p \in A /\ p[3] <= p[2] /\ val[p] = Entry(f, p)
                 /\ h[p] \in F(x) /\ all[h[p]] = val[p]
                 /\ h[p] = p \/ h[p] = Swapped(p)
                 /\ p[2] # p[3]
      <4>1. p \in S /\ p \in A /\ p[3] <= p[2] /\ val[p] = Entry(f, p) /\ place[p] = z
        BY <1>2, <1>4, <1>7, <2>3 DEF Group
      <4>2. \/ Row(f, p) = x[1] /\ Column(f, p) = x[2]
            \/ Row(f, p) = x[2] /\ Column(f, p) = x[1]
        BY <3>3, <4>1
      <4>3. p[2] # p[3]
        BY <3>0, <4>1, <4>2 DEF Row, Column
      <4>4. CASE Row(f, p) = x[1] /\ Column(f, p) = x[2]
        <5>1. h[p] = p
          BY <4>4
        <5> HIDE DEF h
        <5> QED BY <1>4, <1>10, <4>1, <4>3, <4>4, <5>1
      <4>5. CASE Row(f, p) = x[2] /\ Column(f, p) = x[1]
        <5>1. h[p] = Swapped(p)
          BY <3>0, <4>5
        <5>2. /\ Swapped(p) \in A /\ Row(f, Swapped(p)) = x[1] /\ Column(f, Swapped(p)) = x[2]
              /\ Entry(f, Swapped(p)) = Entry(f, p)
          BY <1>11, <2>3, <4>1, <4>5, EntryIs DEF A
        <5> HIDE DEF h
        <5> QED BY <1>4, <1>10, <4>1, <4>3, <5>1, <5>2
      <4> QED BY <4>2, <4>4, <4>5
    <3>5. ASSUME NEW p \in G, NEW q \in G, h[p] = h[q]
          PROVE  p = q
      <4>1. /\ Swapped(Swapped(p)) = p /\ Swapped(Swapped(q)) = q
            /\ p[2] \in Int /\ p[3] \in Int /\ q[2] \in Int /\ q[3] \in Int
        BY <1>9, <3>4, EntryIs DEF A
      <4>2. p # Swapped(q) /\ q # Swapped(p)
        BY <3>4, <4>1 DEF Swapped
      <4> HIDE DEF h, G
      <4> QED BY <3>4, <3>5, <4>1, <4>2
    <3>6. ASSUME NEW q \in F(x)
          PROVE  \E p \in G : h[p] = q
      <4>1. q \in A /\ Row(f, q) = x[1] /\ Column(f, q) = x[2] /\ q[2] \in Int /\ q[3] \in Int
        BY <1>9, <1>10
      <4>2. CASE q[3] <= q[2]
        <5>1. q \in S
          BY <1>7, <2>3, <4>1, <4>2
        <5>2. q \in G
          BY <3>3, <4>1, <5>1 DEF Group
        <5> QED BY <4>1, <5>2
      <4>3. CASE q[2] < q[3]
        <5> DEFINE p == Swapped(q)
        <5>1. /\ p \in A /\ Row(f, p) = x[2] /\ Column(f, p) = x[1] /\ Swapped(p) = q
              /\ p[2] = q[3] /\ p[3] = q[2]
          BY <4>1, EntryIs DEF A, Swapped
        <5> HIDE DEF p
        <5>2. p \in S
          BY <1>7, <2>3, <4>1, <4>3, <5>1
        <5>3. p \in G
          BY <3>3, <5>1, <5>2 DEF Group
        <5>4. h[p] = q
          BY <3>0, <5>1, <5>3
        <5> QED BY <5>3, <5>4
      <4> QED BY <4>1, <4>2, <4>3
    <3>7. Summable(val, G)
      <4>1. G \in SUBSET S
        BY DEF Group
      <4> HIDE DEF G
      <4> QED BY <1>12, <4>1, TotalInt
    <3>8. h \in [G -> F(x)]
      BY <3>4
    <3>9. \A p \in G : all[h[p]] = val[p]
      BY <3>4
    <3>10. Total(all, F(x)) = Total(val, G)
      <4>1. PICK T : T = F(x)
        OBVIOUS
      <4> HIDE DEF h, G
      <4> QED BY <3>5, <3>6, <3>7, <3>8, <3>9, <4>1, TotalMoved
    <3>11. At(e, z) = Total(val, G) % Modulus
      BY <1>13
    <3> HIDE DEF z, G
    <3> QED BY <1>5, <3>2, <3>10, <3>11
  <2> QED BY <1>1, <2>1, <2>2, <2>3
<1>16. Dense(n) = [x \in Cells |-> Dense(n)[x]]
  BY DEF Dense
<1>17. FormMatrix(f) = [x \in Cells |-> FormMatrix(f)[x]]
  BY DEF FormMatrix
<1>18. Dense(n) = FormMatrix(f)
  <2> HIDE DEF n
  <2> QED BY <1>15, <1>16, <1>17
<1> QED BY <1>14, <1>18 DEF n, e, low

-----------------------------------------------------------------------------
(* Changes of storage, transposes and conditions. *)

LEMMA SymmetricKept ==
  ASSUME NEW m, Good(m), m.half >= 0, NEW sym \in 0 .. 2, sym > 0 => IsSymmetric(Dense(m))
  PROVE  ValuesIn(setsdp(m, sym).coef) /\ Dense(setsdp(m, sym)) = Dense(m)
<1> DEFINE n == setsdp(m, sym)
<1>1. /\ m = [half |-> m.half, coef |-> m.coef] /\ m.half \in 0 .. 2 /\ DOMAIN m.coef \subseteq Cells
      /\ m.half > 0 => \A x \in DOMAIN m.coef : IsLower(x)
      /\ ValuesIn(m.coef)
  BY DEF Good, Fine
<1>2. \A x \in Cells : /\ At(m.coef, x) \in Int /\ At(m.coef, x) % Modulus = At(m.coef, x)
                       /\ x[1] \in Int /\ x[2] \in Int /\ Mirror(x) \in Cells
  BY <1>1, AtValue, MirrorCell, AssemblyAssumption DEF Cells, Dofs
<1>3. CASE (m.half = 0 /\ sym = 0) \/ (m.half > 0 /\ sym > 0)
  <2>1. n = [half |-> sym, coef |-> m.coef]
    BY <1>1, <1>3 DEF setsdp
  <2>2. \A x \in Cells : Dense(n)[x] = Dense(m)[x]
    BY <1>3, <2>1 DEF Dense
  <2>3. Dense(n) = [x \in Cells |-> Dense(n)[x]] /\ Dense(m) = [x \in Cells |-> Dense(m)[x]]
    BY DEF Dense
  <2> HIDE DEF n
  <2>4. Dense(n) = Dense(m)
    BY <2>2, <2>3
  <2> QED BY <1>1, <2>1, <2>4 DEF n
<1>4. CASE m.half = 0 /\ sym > 0
  <2> DEFINE c == [x \in {y \in DOMAIN m.coef : IsLower(y)} |-> m.coef[x]]
  <2>1. n = [half |-> sym, coef |-> c]
    BY <1>4 DEF setsdp, Half
  <2>2. ValuesIn(c)
    BY <1>1 DEF ValuesIn
  <2>3. \A x : At(c, x) = IF IsLower(x) THEN At(m.coef, x) ELSE 0
    BY DEF At
  <2>4. ASSUME NEW x \in Cells
        PROVE  Dense(n)[x] = Dense(m)[x]
    <3> DEFINE y == Mirror(x)
    <3>0. /\ x[1] \in Int /\ x[2] \in Int /\ y \in Cells /\ y[1] = x[2] /\ y[2] = x[1]
          /\ At(m.coef, x) \in Int /\ At(m.coef, x) % Modulus = At(m.coef, x)
          /\ At(m.coef, y) \in Int /\ At(m.coef, y) % Modulus = At(m.coef, y)
      BY <1>2 DEF Mirror
    <3>1. Dense(m)[x] = At(m.coef, x) /\ Dense(m)[y] = At(m.coef, y) /\ Dense(m)[x] = Dense(m)[y]
      <4>1. IsSymmetric(Dense(m))
        BY <1>4
      <4>2. Dense(m)[x] = Dense(m)[y]
        BY <4>1 DEF IsSymmetric
      <4>3. \A z \in Cells : Dense(m)[z] = At(m.coef, z)
        BY <1>4 DEF Dense
      <4> QED BY <3>0, <4>2, <4>3
    <3>2. Dense(n)[x] = IF Diagonal(x) THEN At(c, x) ELSE (At(c, x) + At(c, y)) % Modulus
      BY <1>4, <2>1 DEF Dense
    <3>3. /\ Diagonal(x) => IsLower(x)
          /\ ~Diagonal(x) => (IsLower(x) <=> ~IsLower(y))
      BY <3>0 DEF Diagonal, IsLower
    <3> HIDE DEF c, n, y
    <3>4. CASE Diagonal(x)
      BY <2>3, <3>1, <3>2, <3>3, <3>4
    <3>5. CASE ~Diagonal(x) /\ IsLower(x)
      <4>1. At(c, x) = At(m.coef, x) /\ At(c, y) = 0
        BY <2>3, <3>3, <3>5
      <4>2. At(m.coef, x) + 0 = At(m.coef, x)
        BY <3>0
      <4> QED BY <3>0, <3>1, <3>2, <3>5, <4>1, <4>2
    <3>6. CASE ~Diagonal(x) /\ ~IsLower(x)
      <4>1. At(c, x) = 0 /\ At(c, y) = At(m.coef, y)
        BY <2>3, <3>3, <3>6
      <4>2. 0 + At(m.coef, y) = At(m.coef, y)
        BY <3>0
      <4> QED BY <3>0, <3>1, <3>2, <3>6, <4>1, <4>2
    <3> QED BY <3>4, <3>5, <3>6
  <2>5. Dense(n) = [x \in Cells |-> Dense(n)[x]] /\ Dense(m) = [x \in Cells |-> Dense(m)[x]]
    BY DEF Dense
  <2> HIDE DEF n, c
  <2>6. Dense(n) = Dense(m)
    BY <2>4, <2>5
  <2> QED BY <2>1, <2>2, <2>6 DEF n
<1>5. CASE m.half > 0 /\ sym = 0
  <2> DEFINE L == {x \in DOMAIN m.coef : x[1] > x[2]}
             place == [x \in L |-> Mirror(x)]
             val == [x \in L |-> m.coef[x]]
             c == Added(m.coef, place, val)
  <2>1. n = [half |-> 0, coef |-> c]
    BY <1>5 DEF setsdp, UnHalf
  <2>2. Summable(val, L)
    <3>1. IsFiniteSet(L)
      BY <1>1, CellsFinite, FS_Subset
    <3>2. \A x \in L : val[x] \in Int
      BY <1>1, SmallValues DEF ValuesIn
    <3> HIDE DEF L, val
    <3> QED BY <3>1, <3>2 DEF Summable
  <2>3. DOMAIN place = L
    OBVIOUS
  <2>4. \A p \in L : p \in Cells /\ place[p] = Mirror(p) /\ val[p] = At(m.coef, p) /\ p[1] # p[2]
    BY <1>1, <1>2 DEF At
  <2>5. \A p : p \in L <=> p \in DOMAIN m.coef /\ p[1] > p[2]
    OBVIOUS
  <2> HIDE DEF L, place, val, c
  <2>6. ValuesIn(c) /\ \A x : At(c, x) = (At(m.coef, x) + Total(val, Group(L, place, x))) % Modulus
    BY <1>1, <2>2, <2>3, AddedAt DEF c
  <2>7. ASSUME NEW x \in Cells
        PROVE  Dense(n)[x] = Dense(m)[x]
    <3> DEFINE y == Mirror(x)
    <3>1. Dense(n)[x] = At(c, x)
      BY <2>1 DEF Dense
    <3>2. Dense(m)[x] = IF ~Diagonal(x) THEN (At(m.coef, x) + At(m.coef, y)) % Modulus
                        ELSE At(m.coef, x)
      BY <1>5 DEF Dense
    <3>3. y \in Cells /\ Mirror(y) = x /\ y[1] = x[2] /\ y[2] = x[1]
      BY MirrorCell DEF Mirror
    <3>4. \A p : p \in Group(L, place, x) <=> p = y /\ y \in L
      <4>1. \A p \in L : Mirror(p) = x <=> p = y
        BY <2>4, <3>3, MirrorCell
      <4> HIDE DEF y
      <4> QED BY <2>4, <4>1 DEF Group
    <3> HIDE DEF y
    <3>5. CASE y \in L
      <4>1. Group(L, place, x) = {y}
        BY <3>4, <3>5
      <4>2. val[y] = At(m.coef, y) /\ At(m.coef, y) \in Int
        BY <1>2, <2>4, <3>3, <3>5
      <4>3. Total(val, {y}) = At(m.coef, y)
        BY <4>2, TotalOne
      <4>4. ~Diagonal(x)
        BY <2>4, <3>3, <3>5 DEF Diagonal
      <4> QED BY <2>6, <3>1, <3>2, <4>1, <4>3, <4>4
    <3>6. CASE y \notin L
      <4>1. Group(L, place, x) = {}
        BY <3>4, <3>6
      <4>2. Total(val, {}) = 0
        BY TotalEmpty
      <4>3. At(c, x) = At(m.coef, x)
        BY <1>2, <2>6, <4>1, <4>2
      <4>4. ~Diagonal(x) => y \notin DOMAIN m.coef
        <5>1. ASSUME ~Diagonal(x), y \in DOMAIN m.coef
              PROVE  FALSE
          <6>1. y[1] >= y[2] /\ y[1] # y[2] /\ y[1] \in Int /\ y[2] \in Int
            BY <1>1, <1>2, <1>5, <3>3, <5>1 DEF IsLower, Diagonal
          <6> QED BY <2>5, <3>6, <5>1, <6>1
        <5> QED BY <5>1
      <4>5. ~Diagonal(x) => At(m.coef, y) = 0
        BY <4>4 DEF At
      <4> QED BY <1>2, <3>1, <3>2, <4>3, <4>5
    <3> QED BY <3>5, <3>6
  <2>8. Dense(n) = [x \in Cells |-> Dense(n)[x]] /\ Dense(m) = [x \in Cells |-> Dense(m)[x]]
    BY DEF Dense
  <2> HIDE DEF n
  <2>9. Dense(n) = Dense(m)
    BY <2>7, <2>8
  <2> QED BY <2>1, <2>6, <2>9 DEF n
<1> QED BY <1>1, <1>3, <1>4, <1>5

LEMMA TransposeDense ==
  ASSUME NEW m, Good(m), m.half = 0
  PROVE  ValuesIn(dotranspose(m).coef) /\ Dense(dotranspose(m)) = Transposed(Dense(m), TRUE)
<1> DEFINE c == [x \in {Mirror(y) : y \in DOMAIN m.coef} |-> m.coef[Mirror(x)]]
           n == dotranspose(m)
<1>1. n = [half |-> 0, coef |-> c] /\ DOMAIN m.coef \subseteq Cells /\ ValuesIn(m.coef)
  BY DEF dotranspose, Good, Fine
<1>2. \A y \in DOMAIN m.coef : Mirror(Mirror(y)) = y
  BY <1>1, MirrorCell
<1>3. ValuesIn(c)
  BY <1>1, <1>2 DEF ValuesIn
<1>4. \A x \in Cells : x \in DOMAIN c <=> Mirror(x) \in DOMAIN m.coef
  BY <1>1, <1>2, MirrorCell
<1>5. \A x \in Cells : At(c, x) = At(m.coef, Mirror(x))
  BY <1>4 DEF At
<1>6. \A x \in Cells : Dense(n)[x] = Dense(m)[Mirror(x)]
  <2> HIDE DEF c, n
  <2> QED BY <1>1, <1>5, MirrorCell DEF Dense
<1>7. Dense(n) = [x \in Cells |-> Dense(n)[x]]
  BY DEF Dense
<1>8. Transposed(Dense(m), TRUE) = [x \in Cells |-> Dense(m)[Mirror(x)]]
  BY DEF Transposed
<1> HIDE DEF n, c
<1>9. Dense(n) = Transposed(Dense(m), TRUE)
  BY <1>6, <1>7, <1>8
<1> QED BY <1>1, <1>3, <1>9 DEF n

LEMMA SetBCValues ==
  ASSUME NEW c, ValuesIn(c), NEW on \in SUBSET Dofs, NEW tgv \in Tgvs
  PROVE  ValuesIn(SetBC(c, on, tgv))
<1> DEFINE D == DOMAIN c \cup {<<i, i>> : i \in on}
<1>1. \A x : At(c, x) \in Values
  BY AtValue
<1>2. tgv \in Int /\ (tgv >= 0 => tgv \in Values)
  BY AssemblyAssumption DEF Values
<1>3. CASE tgv >= 0
  <2>1. SetBC(c, on, tgv) = [x \in D |-> IF Diagonal(x) /\ x[1] \in on THEN tgv ELSE At(c, x)]
    BY <1>3 DEF SetBC
  <2> HIDE DEF D
  <2> QED BY <1>1, <1>2, <1>3, <2>1 DEF ValuesIn
<1>4. CASE ~(tgv >= 0)
  <2>1. SetBC(c, on, tgv) =
          [x \in D |->
              IF x[2] \in on /\ tgv \in {-2, -3, -20, -30} /\ (~Diagonal(x) \/ tgv < -19) THEN 0
              ELSE IF x[1] \notin on THEN At(c, x)
              ELSE IF Diagonal(x) THEN (IF tgv < -9 THEN 0 ELSE 1)
              ELSE IF tgv \notin {-3, -30} THEN 0 ELSE At(c, x)]
    BY <1>4 DEF SetBC
  <2> HIDE DEF D
  <2> QED BY <1>1, <2>1, SmallValues DEF ValuesIn
<1> QED BY <1>3, <1>4

-----------------------------------------------------------------------------
(* The matrices of a script are those it has asked for. *)

(* The inductive invariant: values are counted modulo Modulus, and what is *)
(* stored is what was asked for.                                           *)
RepInv ==
  /\ StoredInv
  /\ DOMAIN asked = Matrices
  /\ \A M \in Matrices : ValuesIn(mat[M].coef)
  /\ Represents

LEMMA RepInvInit == Init => RepInv
<1> SUFFICES ASSUME Init
             PROVE  RepInv
  OBVIOUS
<1>1. \A M \in Matrices : mat[M].half = -1 /\ mat[M].coef = NoTerms
  BY DEF Init
<1>2. Represents
  BY <1>1 DEF Represents, Made
<1> QED BY <1>1, <1>2, StoredInvInit, NothingStored DEF Init, RepInv

(* An instruction that puts into M a matrix that stands for what is asked. *)
LEMMA PutRepresents ==
  ASSUME RepInv, StoredInv', failed = "no", NEW M \in Matrices, NEW m, NEW d, Put(M, m, d),
         ValuesIn(m.coef), Dense(m) = d
  PROVE  RepInv'
<1>1. /\ \A K \in Matrices : mat'[K] = (IF K = M THEN m ELSE mat[K])
      /\ \A K \in Matrices : asked'[K] = (IF K = M THEN d ELSE asked[K])
      /\ DOMAIN asked' = Matrices
  BY DEF Put, RepInv, StoredInv
<1>2. \A K \in Matrices : mat[K].half >= 0 => Dense(mat[K]) = asked[K]
  BY DEF RepInv, Represents, Made
<1>3. ASSUME NEW K \in Matrices
      PROVE  ValuesIn(mat'[K].coef) /\ (mat'[K].half >= 0 => Dense(mat'[K]) = asked'[K])
  <2>1. CASE K = M
    BY <1>1, <2>1
  <2>2. CASE K # M
    BY <1>1, <1>2, <2>2 DEF RepInv
  <2> QED BY <2>1, <2>2
<1>4. Represents'
  BY <1>3 DEF Represents, Made, Dense, At
<1> QED BY <1>1, <1>3, <1>4 DEF RepInv, ValuesIn

(* A failing assertion ends the script with its matrices as they are.      *)
LEMMA FailedRepresents ==
  ASSUME RepInv, StoredInv', failed' # "no", UNCHANGED asked,
         \A K \in Matrices : ValuesIn(mat'[K].coef)
  PROVE  RepInv'
  BY DEF RepInv, Represents, ValuesIn

(* An assembly starts from terms that are zero, those of the assembly      *)
(* before or none.                                                         *)
LEMMA ZeroedIs ==
  ASSUME RepInv, NEW M \in Matrices, NEW sym
  PROVE  LET c == Zeroed(M, sym).coef
         IN  /\ ValuesIn(c) /\ DOMAIN c \subseteq Cells /\ \A x : At(c, x) = 0
             /\ Zeroed(M, sym).half > 0 /\ Uh[M] => \A x \in DOMAIN c : IsLower(x)
             /\ ~Uh[M] => DOMAIN c = {} /\ Zeroed(M, sym).half = sym
<1>1. CASE Uh[M]
  <2> DEFINE z == [x \in DOMAIN mat[M].coef |-> 0]
  <2>1. Fine(mat[M])
    BY DEF RepInv, StoredInv
  <2>2. Zeroed(M, sym) = [half |-> mat[M].half, coef |-> z]
    BY <1>1, <2>1 DEF Zeroed, Fine
  <2>3. ValuesIn(z) /\ DOMAIN z = DOMAIN mat[M].coef /\ \A x : At(z, x) = 0
    BY SmallValues DEF ValuesIn, At
  <2> HIDE DEF z
  <2> QED BY <1>1, <2>1, <2>2, <2>3 DEF Fine
<1>2. CASE ~Uh[M]
  <2>1. Zeroed(M, sym) = [half |-> sym, coef |-> NoTerms]
    BY <1>2 DEF Zeroed
  <2> QED BY <1>2, <2>1, NothingStored
<1> QED BY <1>1, <1>2

LEMMA AssembleRepresents ==
  ASSUME RepInv, StoredInv', failed = "no", Mixed = FALSE, NEW M \in Matrices, NEW f \in Forms,
         NEW syma \in -1 .. 2, NEW ts \in Solvers, NEW tgv \in Tgvs, Assemble(M, f, syma, ts, tgv)
  PROVE  RepInv'
<1> DEFINE sym == InitSym(syma, ts)
           m == Zeroed(M, sym)
           a == [half |-> sym, coef |-> AddElements(m.coef, f, sym > 0)]
           n == [half |-> sym, coef |-> SetBC(AddElements(m.coef, f, sym > 0), f.on, tgv)]
<1>1. sym \in -1 .. 2
  BY InitSymType
<1>2. /\ ValuesIn(m.coef) /\ DOMAIN m.coef \subseteq Cells /\ \A x : At(m.coef, x) = 0
      /\ m.half > 0 /\ Uh[M] => \A x \in DOMAIN m.coef : IsLower(x)
      /\ ~Uh[M] => DOMAIN m.coef = {}
  BY ZeroedIs
<1>3. \A K \in Matrices : ValuesIn(mat[K].coef)
  BY DEF RepInv
<1>4. CASE sym = Refused /\ failed' = "solver" /\ UNCHANGED <<mat, Uh, asked>>
  BY <1>3, <1>4, FailedRepresents
<1>5. CASE /\ failed' = "operator+=" /\ mat' = [mat EXCEPT ![M] = m]
           /\ UNCHANGED <<Uh, asked>>
  <2> HIDE DEF m
  <2>1. \A K \in Matrices : mat'[K] = IF K = M THEN m ELSE mat[K]
    BY <1>5 DEF RepInv, StoredInv
  <2>2. \A K \in Matrices : ValuesIn(mat'[K].coef)
    BY <1>2, <1>3, <2>1
  <2>3. failed' # "no"
    BY <1>5
  <2> QED BY <1>5, <2>2, <2>3, FailedRepresents
<1>6. CASE /\ sym # Refused /\ (sym > 0) = (m.half > 0)
           /\ Mixed \/ (TgvFits(sym, tgv) /\ (sym > 0 => SymmetricForm(f)))
           /\ Put(M, n, Constrained(FormMatrix(f), f.on, tgv))
  <2>1. sym \in 0 .. 2
    BY <1>1, <1>6 DEF Refused
  <2>2. TgvFits(sym, tgv) /\ (sym > 0 => SymmetricForm(f))
    BY <1>6
  <2>3. sym > 0 => \A x \in DOMAIN m.coef : IsLower(x)
    BY <1>2, <1>6
  <2>4. f.on \subseteq Dofs
    BY AssemblyAssumption
  <2> HIDE DEF sym, m
  <2>5. Good(a) /\ Dense(a) = FormMatrix(f)
    BY <1>2, <2>1, <2>2, <2>3, ElementsDense
  <2>6. [a EXCEPT !.coef = SetBC(@, f.on, tgv)] = n /\ a.half = sym
    OBVIOUS
  <2>7. Dense(n) = Constrained(FormMatrix(f), f.on, tgv)
    <3>1. Fine(a) /\ TgvFits(a.half, tgv)
      BY <2>2, <2>5, <2>6 DEF Good
    <3> HIDE DEF a, n
    <3>2. Dense([a EXCEPT !.coef = SetBC(@, f.on, tgv)]) = Constrained(Dense(a), f.on, tgv)
      BY <2>4, <3>1, ConditionsOnBoundary
    <3> QED BY <2>5, <2>6, <3>2
  <2>8. ValuesIn(n.coef)
    <3>1. ValuesIn(a.coef) /\ n.coef = SetBC(a.coef, f.on, tgv)
      BY <2>5 DEF Good
    <3> HIDE DEF a, n
    <3> QED BY <2>4, <3>1, SetBCValues
  <2> HIDE DEF n
  <2> QED BY <1>6, <2>7, <2>8, PutRepresents
<1> QED BY <1>4, <1>5, <1>6 DEF Assemble

LEMMA setRepresents ==
  ASSUME RepInv, StoredInv', failed = "no", Mixed = FALSE, NEW M \in Matrices,
         NEW syma \in -1 .. 2, NEW ts \in Solvers, set(M, syma, ts)
  PROVE  RepInv'
<1> DEFINE sym == InitSym(IF syma = -1 THEN mat[M].half ELSE syma, ts)
<1>1. Good(mat[M]) /\ mat[M].half >= 0 /\ Dense(mat[M]) = asked[M]
  BY DEF RepInv, Represents, StoredInv, Good, set, Made
<1>2. sym \in -1 .. 2
  BY <1>1, InitSymType DEF Good, Fine
<1>3. CASE sym = Refused /\ failed' = "solver" /\ UNCHANGED <<mat, asked>>
  <2>1. \A K \in Matrices : ValuesIn(mat[K].coef)
    BY DEF RepInv
  <2> QED BY <1>3, <2>1, FailedRepresents
<1>4. CASE /\ sym # Refused
           /\ Mixed \/ (sym > 0 => IsSymmetric(Dense(mat[M])))
           /\ Put(M, setsdp(mat[M], sym), asked[M])
  <2>1. sym \in 0 .. 2 /\ (sym > 0 => IsSymmetric(Dense(mat[M])))
    BY <1>2, <1>4 DEF Refused
  <2> HIDE DEF sym
  <2>2. ValuesIn(setsdp(mat[M], sym).coef) /\ Dense(setsdp(mat[M], sym)) = asked[M]
    BY <1>1, <2>1, SymmetricKept
  <2> QED BY <1>4, <2>2, PutRepresents
<1> QED BY <1>3, <1>4 DEF set

LEMMA Set_BCRepresents ==
  ASSUME RepInv, StoredInv', failed = "no", Mixed = FALSE, NEW M \in Matrices,
         NEW on \in SUBSET Dofs, NEW tgv \in Tgvs, Set_BC(M, on, tgv)
  PROVE  RepInv'
<1> DEFINE n == [mat[M] EXCEPT !.coef = SetBC(@, on, tgv)]
<1>1. Fine(mat[M]) /\ ValuesIn(mat[M].coef) /\ Dense(mat[M]) = asked[M] /\ TgvFits(mat[M].half, tgv)
  BY DEF RepInv, Represents, StoredInv, Set_BC, Made
<1>2. Dense(n) = Constrained(asked[M], on, tgv)
  BY <1>1, ConditionsOnBoundary
<1>3. n.coef = SetBC(mat[M].coef, on, tgv)
  BY <1>1 DEF Fine
<1>4. ValuesIn(n.coef)
  <2> HIDE DEF n
  <2> QED BY <1>1, <1>3, SetBCValues
<1>5. Put(M, n, Constrained(asked[M], on, tgv))
  BY DEF Set_BC
<1> HIDE DEF n
<1> QED BY <1>2, <1>4, <1>5, PutRepresents

LEMMA CombMatRepresents ==
  ASSUME RepInv, StoredInv', failed = "no", Mixed = FALSE, NEW M \in Matrices, NEW L \in Sums,
         CombMat(M, L)
  PROVE  RepInv'
<1> DEFINE z == [half |-> IF AllHalf(L) THEN 1 ELSE 0, coef |-> NoTerms]
           n == [half |-> IF AllHalf(L) THEN 1 ELSE 0, coef |-> BuildCombMat(NoTerms, L)]
<1>1. SumFits(L) /\ Put(M, n, Combination([x \in Cells |-> 0], L))
  BY DEF CombMat
<1>2. \A k \in DOMAIN L : Good(mat[L[k].of]) /\ Dense(mat[L[k].of]) = asked[L[k].of]
  BY SumData DEF RepInv, Represents, StoredInv, Good, CombMat
<1>3. Good(z)
  BY NothingStored DEF Good, Fine
<1>4. Dense(z) = [x \in Cells |-> 0]
  <2>1. \A x \in Cells : Dense(z)[x] = 0
    BY NothingStored, ZeroMod DEF Dense
  <2>2. Dense(z) = [x \in Cells |-> Dense(z)[x]]
    BY DEF Dense
  <2> HIDE DEF z
  <2> QED BY <2>1, <2>2
<1>5. (z.half > 0 <=> AllHalf(L)) /\ n = [half |-> z.half, coef |-> BuildCombMat(z.coef, L)]
  OBVIOUS
<1> HIDE DEF z, n
<1>6. ValuesIn(n.coef) /\ Dense(n) = Combination(Dense(z), L)
  BY <1>1, <1>2, <1>3, <1>5, SumDense
<1> QED BY <1>1, <1>4, <1>6, PutRepresents

LEMMA AddCombMatRepresents ==
  ASSUME RepInv, StoredInv', failed = "no", Mixed = FALSE, NEW M \in Matrices, NEW L \in Sums,
         AddCombMat(M, L)
  PROVE  RepInv'
<1> DEFINE n == [half |-> mat[M].half, coef |-> BuildCombMat(mat[M].coef, L)]
<1>1. Good(mat[M]) /\ Dense(mat[M]) = asked[M] /\ SumFits(L) /\ (mat[M].half > 0 <=> AllHalf(L))
  BY DEF RepInv, Represents, StoredInv, Good, AddCombMat
<1>2. \A k \in DOMAIN L : Good(mat[L[k].of]) /\ Dense(mat[L[k].of]) = asked[L[k].of]
  BY SumData DEF RepInv, Represents, StoredInv, Good, AddCombMat
<1>3. [mat[M] EXCEPT !.coef = BuildCombMat(@, L)] = n
  BY <1>1 DEF Good, Fine
<1>4. Put(M, n, Combination(asked[M], L))
  BY <1>3 DEF AddCombMat
<1>5. ValuesIn(n.coef) /\ Dense(n) = Combination(asked[M], L)
  BY <1>1, <1>2, SumDense
<1> HIDE DEF n
<1> QED BY <1>4, <1>5, PutRepresents

LEMMA ProdMatRepresents ==
  ASSUME RepInv, StoredInv', failed = "no", NEW M \in Matrices, NEW A \in Matrices,
         NEW B \in Matrices, NEW ta \in BOOLEAN, NEW tb \in BOOLEAN, ProdMat(M, A, B, ta, tb)
  PROVE  RepInv'
<1> DEFINE n == [half |-> 0, coef |-> AddMul(mat[A], mat[B], ta, tb)]
           d == Product(Transposed(asked[A], ta), Transposed(asked[B], tb))
<1>1. Good(mat[A]) /\ Good(mat[B]) /\ Dense(mat[A]) = asked[A] /\ Dense(mat[B]) = asked[B]
  BY DEF RepInv, Represents, StoredInv, Good, ProdMat
<1>2. ValuesIn(n.coef) /\ Dense(n) = d
  BY <1>1, ProductDense
<1>3. Put(M, n, d)
  BY DEF ProdMat
<1> HIDE DEF n, d
<1> QED BY <1>2, <1>3, PutRepresents

LEMMA CopyRepresents ==
  ASSUME RepInv, StoredInv', failed = "no", Mixed = FALSE, NEW M \in Matrices, NEW A \in Matrices,
         NEW trans \in BOOLEAN, Copy(M, A, trans)
  PROVE  RepInv'
<1> DEFINE n == IF trans THEN dotranspose(mat[A]) ELSE mat[A]
<1>1. Good(mat[A]) /\ Dense(mat[A]) = asked[A] /\ (trans => mat[A].half = 0)
  BY DEF RepInv, Represents, StoredInv, Good, Copy
<1>2. ValuesIn(n.coef) /\ Dense(n) = Transposed(asked[A], trans)
  BY <1>1, TransposeDense DEF Good, Transposed
<1>3. Put(M, n, Transposed(asked[A], trans))
  BY DEF Copy
<1> HIDE DEF n
<1> QED BY <1>2, <1>3, PutRepresents

(* Whatever the storage of its matrices, the script has the matrices it    *)
(* has asked for: assembly (OpMatrixtoBilinearForm), SetBC, CombMat,       *)
(* AddMul, dotranspose, Half and UnHalf commute with the two storages, for *)
(* any number of degrees of freedom, elements, terms and instructions.     *)
THEOREM RepresentsCorrect ==
  ASSUME Mixed = FALSE
  PROVE  Spec => []Represents
<1>1. ASSUME RepInv, Next
      PROVE  RepInv'
  <2>1. StoredInv' /\ failed = "no" /\ Syms \subseteq -1 .. 2
    BY <1>1, StoredInvNext, AssemblyAssumption DEF RepInv, Next
  <2>2. PICK M \in Matrices :
          \/ \E f \in Forms, s \in Syms, ts \in Solvers, tgv \in Tgvs : Assemble(M, f, s, ts, tgv)
          \/ \E s \in Syms, ts \in Solvers : set(M, s, ts)
          \/ \E on \in SUBSET Dofs, tgv \in Tgvs : Set_BC(M, on, tgv)
          \/ \E L \in Sums : CombMat(M, L) \/ AddCombMat(M, L)
          \/ \E A, B \in Matrices, ta, tb \in BOOLEAN : ProdMat(M, A, B, ta, tb)
          \/ \E A \in Matrices, trans \in BOOLEAN : Copy(M, A, trans)
    BY <1>1 DEF Next
  <2>3. ASSUME NEW f \in Forms, NEW s \in Syms, NEW ts \in Solvers, NEW tgv \in Tgvs,
               Assemble(M, f, s, ts, tgv)
        PROVE  RepInv'
    BY <1>1, <2>1, <2>3, AssembleRepresents
  <2>4. ASSUME NEW s \in Syms, NEW ts \in Solvers, set(M, s, ts)
        PROVE  RepInv'
    BY <1>1, <2>1, <2>4, setRepresents
  <2>5. ASSUME NEW on \in SUBSET Dofs, NEW tgv \in Tgvs, Set_BC(M, on, tgv)
        PROVE  RepInv'
    BY <1>1, <2>1, <2>5, Set_BCRepresents
  <2>6. ASSUME NEW L \in Sums, CombMat(M, L) \/ AddCombMat(M, L)
        PROVE  RepInv'
    BY <1>1, <2>1, <2>6, CombMatRepresents, AddCombMatRepresents
  <2>7. ASSUME NEW A \in Matrices, NEW B \in Matrices, NEW ta \in BOOLEAN, NEW tb \in BOOLEAN,
               ProdMat(M, A, B, ta, tb)
        PROVE  RepInv'
    BY <1>1, <2>1, <2>7, ProdMatRepresents
  <2>8. ASSUME NEW A \in Matrices, NEW trans \in BOOLEAN, Copy(M, A, trans)
        PROVE  RepInv'
    BY <1>1, <2>1, <2>8, CopyRepresents
  <2> QED BY <2>2, <2>3, <2>4, <2>5, <2>6, <2>7, <2>8
<1>2. ASSUME RepInv, UNCHANGED vars
      PROVE  RepInv'
  BY <1>2 DEF vars, RepInv, StoredInv, Fine, Made, UnHalfHolds, Represents, ValuesIn, Dense, At
<1>3. RepInv => Represents
  BY DEF RepInv
<1> QED BY <1>1, <1>2, <1>3, RepInvInit, PTL DEF Spec
===============================================================================
