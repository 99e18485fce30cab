---------------------------- MODULE MatrixOwnership ----------------------------
(***************************************************************************)
(* Who owns the matrices and the solvers of a script.                      *)
(*                                                                         *)
(* A script variable of type matrix is a Matrice_Creuse, which holds a     *)
(* reference counted matrix (femlib/RefCounter.hpp); the matrix holds a    *)
(* solver with a counter of its own (femlib/VirtualMatrix.hpp), and the    *)
(* solver keeps a bare reference to the matrix it was made for.  A matrix  *)
(* computed by an expression also is in the list of temporaries, which is  *)
(* cleaned when the instruction ends.  The memory of a deleted object is   *)
(* used again.                                                             *)
(***************************************************************************)
EXTENDS Integers, FiniteSets

CONSTANTS
  Wrappers,  (* the variables of type matrix, one identity each             *)
  Matrices,  (* the memory for matrices                                     *)
  Solvers,   (* the memory for solvers                                      *)
  Spaces     (* the finite element spaces, named by their numbers of dofs   *)

CONSTANTS None, Dead  (* no object; memory that holds no object             *)

MatrixRecord == [count : Nat, n : Nat, vsolver : Solvers \cup {None},
                 space : Spaces \cup {None}, halved : BOOLEAN]
SolverRecord == [count : Nat, of : Matrices]

ASSUME OwnershipAssumption ==
  /\ Spaces \subseteq Nat \ {0} /\ IsFiniteSet(Matrices)
  /\ None \notin Matrices \cup Solvers \cup Spaces
  /\ Dead \notin MatrixRecord \cup SolverRecord

VARIABLES
  A,         (* A[w]: the matrix variable w holds                           *)
  Uh,        (* Uh[w]: the space of the last assembly into w, None          *)
  heap,      (* heap.mat: count, rows n and vsolver of each matrix, and the *)
             (* space its terms were assembled on, None when they were not, *)
             (* and whether it came from removeHalf (history);              *)
             (* heap.sol: count and matrix of each solver                   *)
  temps,     (* the temporaries of the instruction                          *)
  pending,   (* the temporaries that still can be assigned to a variable    *)
  cleaning,  (* the temporaries are being destroyed                         *)
  lost       (* history: the matrices an exception left without an owner    *)

vars == <<A, Uh, heap, temps, pending, cleaning, lost>>

Init ==
  /\ A = [w \in Wrappers |-> None]
  /\ Uh = [w \in Wrappers |-> None]
  /\ heap = [mat |-> [a \in Matrices |-> Dead], sol |-> [s \in Solvers |-> Dead]]
  /\ temps = {}
  /\ pending = {}
  /\ cleaning = FALSE
  /\ lost = {}

-----------------------------------------------------------------------------
(* Objects. *)

FreeMatrices(h) == {a \in Matrices : h.mat[a] = Dead}
FreeSolvers(h)  == {s \in Solvers : h.sol[s] = Dead}

(* VSolver::destroy *)
destroySolver(h, s) ==
  IF s = None THEN h
  ELSE IF h.sol[s].count = 0 THEN [h EXCEPT !.sol[s] = Dead]
  ELSE [h EXCEPT !.sol[s].count = @ - 1]

(* delete of a matrix: ~VirtualMatrix destroys the solver it owns. *)
DeleteMatrix(h, a) == [destroySolver(h, h.mat[a].vsolver) EXCEPT !.mat[a] = Dead]

(* RefCounter::destroy, through CountPointer::destroyPtr *)
destroy(h, a) ==
  IF a = None THEN h
  ELSE IF h.mat[a].count = 0 THEN DeleteMatrix(h, a)
  ELSE [h EXCEPT !.mat[a].count = @ - 1]

NewMatrix(h, a, d) ==
  [h EXCEPT !.mat[a] = [count |-> 0, n |-> d, vsolver |-> None, space |-> None,
                        halved |-> FALSE]]

(* HashMatrix(const HashMatrix &), through VirtualMatrix::operator=: the   *)
(* copy shares the solver (copyptr).                                       *)
CopyMatrix(h, a, b) ==
  LET s == h.mat[b].vsolver
      g == [NewMatrix(h, a, h.mat[b].n) EXCEPT !.mat[a].vsolver = s]
  IN  IF s = None THEN g ELSE [g EXCEPT !.sol[s].count = @ + 1]

Halved(h, a, b) == [CopyMatrix(h, a, b) EXCEPT !.mat[a].halved = TRUE]

(* VirtualMatrix::SetSolver(f) *)
SetSolver(h, a, s) == [destroySolver(h, h.mat[a].vsolver) EXCEPT !.mat[a].vsolver = s]

(* NewVSolver and SetSolver: the new solver is made before the old goes.   *)
Attached(h, a, s) ==
  SetSolver([h EXCEPT !.sol[s] = [count |-> 0, of |-> a]], a, s)

(* Mutant of master: the matrix held before is not destroyed. *)
master_KeepsOld(h, w, a) ==
  /\ heap' = h
  /\ A' = [A EXCEPT ![w] = a]

(* CountPointer::master: the count of a is not raised. *)
master(h, w, a) ==
  /\ heap' = destroy(h, A[w])
  /\ A' = [A EXCEPT ![w] = a]

-----------------------------------------------------------------------------
(* Instructions. *)

(* matrix w(d,d); and w.resize(d,d), which makes the matrix of a variable  *)
(* that holds none.                                                        *)
resize(w, d) ==
  /\ IF A[w] = None
     THEN \E a \in FreeMatrices(heap) : master(NewMatrix(heap, a, d), w, a)
     ELSE /\ heap' = [heap EXCEPT !.mat[A[w]].n = d, !.mat[A[w]].space = None]
          /\ UNCHANGED A
  /\ UNCHANGED <<Uh, temps, pending, lost>>

(* w = B*C, w = a sum, a diagonal, a full matrix, blocks...: a new matrix. *)
Assign(w, d) ==
  /\ \E a \in FreeMatrices(heap) : master(NewMatrix(heap, a, d), w, a)
  /\ UNCHANGED <<Uh, temps, pending, lost>>

(* Mutant of CopyMat: by the copy constructor, and without SetSolver(). *)
CopyMat_WithSolver(w, u) ==
  /\ A[u] # None
  /\ \E a \in FreeMatrices(heap) : master(CopyMatrix(heap, a, A[u]), w, a)
  /\ UNCHANGED <<Uh, temps, pending, lost>>

(* CopyMat_tt, w = u and w = u': nothing when u holds no matrix; the copy  *)
(* has no solver.                                                          *)
CopyMat(w, u) ==
  /\ A[u] # None
  /\ \E a \in FreeMatrices(heap) : master(NewMatrix(heap, a, heap.mat[A[u]].n), w, a)
  /\ UNCHANGED <<Uh, temps, pending, lost>>

(* An expression with a new matrix: renumbered, real part, outer product.. *)
NewTemporary(d) ==
  \E a \in FreeMatrices(heap) :
    /\ heap' = NewMatrix(heap, a, d)
    /\ temps' = temps \cup {a}
    /\ pending' = pending \cup {a}
    /\ UNCHANGED <<A, Uh, lost>>

(* removeHalf(u,..) as an expression, and removeHalf(w,u,..). *)
RemovedHalf(u) ==
  /\ A[u] # None
  /\ \E a \in FreeMatrices(heap) :
       /\ heap' = Halved(heap, a, A[u])
       /\ temps' = temps \cup {a}
       /\ pending' = pending \cup {a}
       /\ UNCHANGED <<A, Uh, lost>>

removeHalf(w, u) ==
  /\ A[u] # None
  /\ \E a \in FreeMatrices(heap) : master(Halved(heap, a, A[u]), w, a)
  /\ UNCHANGED <<Uh, temps, pending, lost>>

(* Mutant of set: without increment. *)
set_NoIncrement(w) ==
  \E a \in pending :
    /\ master(heap, w, a)
    /\ pending' = pending \ {a}
    /\ UNCHANGED <<Uh, temps, lost>>

(* newpMatrice_Creuse::set: the temporary becomes the matrix of w.         *)
set(w) ==
  \E a \in pending :
    /\ master([heap EXCEPT !.mat[a].count = @ + 1], w, a)
    /\ pending' = pending \ {a}
    /\ UNCHANGED <<Uh, temps, lost>>

(* An exception between new and master: the matrix has no owner.           *)
Lost(d) ==
  \E a \in FreeMatrices(heap) :
    /\ heap' = NewMatrix(heap, a, d)
    /\ lost' = lost \cup {a}
    /\ UNCHANGED <<A, Uh, temps, pending>>

(* set(w,solver=..): SetMatrix_Op.  A variable that holds none gets an     *)
(* empty matrix first, which stays when the solver cannot be made.         *)
SetMatrix_Op(w, raises) ==
  \E a \in IF A[w] = None THEN FreeMatrices(heap) ELSE {A[w]} :
    LET h == IF A[w] = None THEN NewMatrix(heap, a, 0) ELSE heap IN
    /\ A' = [A EXCEPT ![w] = a]
    /\ IF raises THEN heap' = h ELSE \E s \in FreeSolvers(h) : heap' = Attached(h, a, s)
    /\ UNCHANGED <<Uh, temps, pending, lost>>

(* The assembly on the space d finds the matrix of w from the last one.    *)
Reused(w, d) == Uh[w] = d

(* w = va(Vh,Vh): creationBlockOfMatrixToBilinearForm, and the SetSolver   *)
(* after it, which is not reached when the assembly raises.  The matrix is *)
(* the one w holds when the space is that of the last assembly.            *)
Assemble(w, d, raises) ==
  LET g == IF Reused(w, d) THEN heap ELSE destroy(heap, A[w]) IN
  \E a \in IF Reused(w, d) THEN {A[w]} ELSE FreeMatrices(g) :
    LET h == [(IF Reused(w, d) THEN g ELSE NewMatrix(g, a, d)) EXCEPT !.mat[a].space = d]
    IN  /\ A' = [A EXCEPT ![w] = a]
        /\ Uh' = [Uh EXCEPT ![w] = d]
        /\ IF raises THEN heap' = h ELSE \E s \in FreeSolvers(h) : heap' = Attached(h, a, s)
        /\ UNCHANGED <<temps, pending, lost>>

(* The same with integrals on other meshes: always a new matrix, which is  *)
(* lost when its assembly raises; Uh stays.                                *)
AssembleOnOther(w, d) ==
  \E a \in FreeMatrices(heap) :
    LET h == [NewMatrix(heap, a, d) EXCEPT !.mat[a].space = d] IN
    \E s \in FreeSolvers(h) :
      /\ heap' = Attached(destroy(h, A[w]), a, s)
      /\ A' = [A EXCEPT ![w] = a]
      /\ UNCHANGED <<Uh, temps, pending, lost>>

(* The end of the scope of w, and the use of its place by the next         *)
(* declaration: Matrice_Creuse::destroy, then init.                        *)
EndScope(w) ==
  /\ heap' = IF A[w] = None THEN heap ELSE destroy(SetSolver(heap, A[w], None), A[w])
  /\ A' = [A EXCEPT ![w] = None]
  /\ Uh' = [Uh EXCEPT ![w] = None]
  /\ UNCHANGED <<temps, pending, lost>>

Instruction ==
  \/ \E w \in Wrappers, d \in Spaces :
       \/ resize(w, d)
       \/ Assign(w, d)
       \/ \E raises \in BOOLEAN : Assemble(w, d, raises)
       \/ AssembleOnOther(w, d)
  \/ \E d \in Spaces : NewTemporary(d) \/ Lost(d)
  \/ \E w, u \in Wrappers : CopyMat(w, u) \/ removeHalf(w, u)
  \/ \E w \in Wrappers : RemovedHalf(w) \/ set(w) \/ EndScope(w)
  \/ \E w \in Wrappers, raises \in BOOLEAN : SetMatrix_Op(w, raises)

(* The end of an instruction, or an exception that leaves it: StackOf-     *)
(* Ptr2Free::clean destroys the temporaries one by one.                    *)
EndInstruction ==
  /\ temps # {}
  /\ cleaning' = TRUE
  /\ pending' = {}
  /\ UNCHANGED <<A, Uh, heap, temps, lost>>

clean ==
  \E a \in temps :
    /\ heap' = destroy(heap, a)
    /\ temps' = temps \ {a}
    /\ cleaning' = (temps' # {})
    /\ UNCHANGED <<A, Uh, pending, lost>>

Next ==
  \/ ~cleaning /\ Instruction /\ UNCHANGED cleaning
  \/ ~cleaning /\ EndInstruction
  \/ cleaning /\ clean

Spec == Init /\ [][Next]_vars

-----------------------------------------------------------------------------
Live    == {a \in Matrices : heap.mat[a] # Dead}
Solving == {s \in Solvers : heap.sol[s] # Dead}

TypeOK ==
  /\ A \in [Wrappers -> Matrices \cup {None}]
  /\ Uh \in [Wrappers -> Spaces \cup {None}]
  /\ \A a \in Live : heap.mat[a] \in MatrixRecord
  /\ \A s \in Solving : heap.sol[s] \in SolverRecord
  /\ temps \subseteq Matrices
  /\ pending \subseteq temps
  /\ cleaning \in BOOLEAN
  /\ lost \subseteq Matrices

(* Nothing that can still be reached was deleted: the matrix of a variable *)
(* or of a temporary, the solver of a matrix.                              *)
NoDangling ==
  /\ \A w \in Wrappers : A[w] # None => A[w] \in Live
  /\ temps \subseteq Live
  /\ \A a \in Live : heap.mat[a].vsolver # None => heap.mat[a].vsolver \in Solving

(* The count of a matrix is one less than its owners, so it goes with the  *)
(* last of them; only an exception before the first owner loses it.        *)
MatrixCounts ==
  \A a \in Live :
    heap.mat[a].count + 1 =
      Cardinality({w \in Wrappers : A[w] = a}) + (IF a \in temps \cup lost THEN 1 ELSE 0)

(* The same for a solver and the matrices that share it.                   *)
SolverCounts ==
  \A s \in Solving :
    heap.sol[s].count + 1 = Cardinality({a \in Live : heap.mat[a].vsolver = s})

(* matrix B = A copies: two variables never hold one matrix.               *)
NotShared == \A w, u \in Wrappers : w # u /\ A[w] # None => A[w] # A[u]

(* Every counter is that of the owners, and a variable has its own matrix. *)
CountInv == TypeOK /\ MatrixCounts /\ SolverCounts /\ NotShared

(* A matrix that removeHalf did not make is only solved by a solver that   *)
(* was made for it: the copies of an assignment start without one.         *)
SolverOfItsMatrix ==
  \A a \in Live :
    heap.mat[a].vsolver # None /\ ~heap.mat[a].halved =>
      heap.sol[heap.mat[a].vsolver].of = a

(* "lines corresponding to test functions" (problem.hpp:1713): a matrix    *)
(* assembled on a space has a row for each of its functions.               *)
RowsOfTestFunctions ==
  \A a \in Live : heap.mat[a].space # None => heap.mat[a].n = heap.mat[a].space
================================================================================
