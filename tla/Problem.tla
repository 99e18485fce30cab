-------------------------------- MODULE Problem --------------------------------
(***************************************************************************)
(* Calls of a problem or solve statement, Problem::eval and evalComposite  *)
(* of fflib/problem.cpp.                                                   *)
(*                                                                         *)
(* A problem keeps from one call to the next its matrix, its spaces and    *)
(* the address of its mesh, and assembles the matrix again when init is    *)
(* not given or this address is no longer the one of the mesh of the call. *)
(* Between two calls a script replaces meshes and changes functions; a     *)
(* finite element space follows its mesh only when it is used.  Meshes and *)
(* spaces are counted (femlib/RefCounter.hpp), the memory of a mesh is     *)
(* used again after it is deleted.  A composite problem has its unknowns   *)
(* on several meshes, of which it keeps bare addresses.                    *)
(*                                                                         *)
(* A call is a sequence of steps; the expressions it evaluates may raise,  *)
(* and a script catches the error and goes on.                             *)
(***************************************************************************)
EXTENDS Integers, Sequences, FiniteSets

CONSTANTS
  Meshes,      (* the memory for meshes                                     *)
  MeshVars,    (* the variables of type mesh                                *)
  FESpaces,    (* the variables of type fespace                             *)
  Functions,   (* the finite element functions                              *)
  MeshOf,      (* MeshOf[V]: the mesh variable a space is declared on       *)
  SpaceOf,     (* SpaceOf[u]: the space variable of a function              *)
  Problems,    (* problems a script may declare: unknowns, a sequence of    *)
               (* functions, tests, the spaces of the test functions, and   *)
               (* whether it is composite                                   *)
  MaxMade,     (* a bound: the meshes a script makes                        *)
  Recycle,     (* FALSE: a new mesh is not put at an address that only a    *)
               (* composite problem remembers                               *)
  None         (* a null pointer, no value                                  *)

(* A space is named by what it is made for, a variable or the product of   *)
(* the spaces of a problem, and by its mesh.                               *)
Product == "product"
Spaces == (FESpaces \cup {Product}) \X Meshes
Objects == Meshes \cup Spaces

(* A matrix: the meshes it was made for, whether it was assembled to its   *)
(* end, and whether it has a solver.                                       *)
Matrices == [of : Seq(Nat), whole : BOOLEAN, vsolver : BOOLEAN]

ASSUME ProblemAssumption ==
  /\ MeshOf \in [FESpaces -> MeshVars] /\ SpaceOf \in [Functions -> FESpaces]
  /\ \A p \in Problems : /\ p.unknowns \in Seq(Functions) \ {<<>>}
                         /\ p.tests \in [DOMAIN p.unknowns -> FESpaces]
                         /\ p.composite \in BOOLEAN
  /\ \A S \in {Meshes, MeshVars, FESpaces, Functions} : IsFiniteSet(S)
  /\ Cardinality(Meshes) >= Cardinality(MeshVars)
  /\ MaxMade \in Nat /\ MaxMade >= Cardinality(MeshVars)
  /\ Recycle \in BOOLEAN
  /\ Product \notin FESpaces /\ Meshes \cap Spaces = {}
  /\ None \notin Objects \cup Matrices

VARIABLES
  prob,   (* the problem of this script                                     *)
  Th,     (* Th[t]: the mesh of variable t                                  *)
  made,   (* the meshes made so far                                         *)
  number, (* number[a]: which mesh is at address a, in the order they were  *)
          (* made: what tells two meshes at one address                     *)
  count,  (* the reference counters, -1 when there is no object             *)
  pVh,    (* pVh[V]: the space of variable V, None before its first use     *)
  fun,    (* fun[u]: the space Vh of the values, and xx, the mesh and the   *)
          (* variable of space the array of values was sized for            *)
  data,   (* what the problem keeps: pTh, Uh, Vh and the matrix A           *)
  now     (* the step of the call, initmat, and the next unknown of a loop  *)

vars == <<prob, Th, made, number, count, pVh, fun, data, now>>

NoCall == [at |-> "script", initmat |-> FALSE, next |-> 1]

(* Problem::init *)
NoData == [pTh |-> [i \in DOMAIN prob.unknowns |-> None], Uh |-> None, Vh |-> None, A |-> None]

Init ==
  /\ prob \in Problems
  /\ Th \in {f \in [MeshVars -> Meshes] : \A s, t \in MeshVars : f[s] = f[t] => s = t}
  /\ made = Cardinality(MeshVars)
  /\ number \in {f \in [Meshes -> 0 .. made] :
                  /\ \A t \in MeshVars : f[Th[t]] > 0
                  /\ \A s, t \in MeshVars : s # t => f[Th[s]] # f[Th[t]]
                  /\ \A a \in Meshes : f[a] = 0 <=> \A t \in MeshVars : Th[t] # a}
  /\ count = [o \in Objects |-> IF \E t \in MeshVars : Th[t] = o THEN 0 ELSE -1]
  /\ pVh = [V \in FESpaces |-> None]
  /\ fun = [u \in Functions |-> [Vh |-> None, xx |-> None]]
  /\ data = NoData
  /\ now = NoCall

-----------------------------------------------------------------------------
(* Counters. *)

Add(c, o) == IF o = None THEN c ELSE [c EXCEPT ![o] = @ + 1]

(* Mutant of Drop: a space is deleted and keeps its mesh. *)
Drop_KeepsMesh(c, o) == IF o = None THEN c ELSE [c EXCEPT ![o] = @ - 1]

(* RefCounter::destroy: the last owner deletes, and a space that goes      *)
(* drops its mesh (cmesh).                                                 *)
Drop(c, o) ==
  IF o = None THEN c
  ELSE IF o \in Spaces /\ c[o] = 0 THEN [c EXCEPT ![o] = -1, ![o[2]] = @ - 1]
  ELSE [c EXCEPT ![o] = @ - 1]

(* CountPointer = T *: nothing when the pointer is the same. *)
Point(c, old, new) == IF old = new THEN c ELSE Add(Drop(c, old), new)

(* new FESpace(mesh): counted by nobody yet. *)
NewSpace(c, s) == [c EXCEPT ![s] = 0, ![s[2]] = @ + 1]

(* v_fes::operator FESpace *: the space is made again when it is not on    *)
(* the mesh of its variable.                                               *)
operatorFESpace(h, V) ==
  LET s == <<V, Th[MeshOf[V]]>>
  IN  IF h.pVh[V] = s THEN h
      ELSE [count |-> Drop(NewSpace(h.count, s), h.pVh[V]), pVh |-> [h.pVh EXCEPT ![V] = s]]

Now == [count |-> count, pVh |-> pVh]

(* What an array of values is sized for. *)
SizeOf(s) == <<s[1], number[s[2]]>>

(* Mutant of SetValues: the space of the function stays the one before. *)
SetValues_KeepsVh(h, f, u, xx) ==
  [count |-> h.count, pVh |-> h.pVh, fun |-> [f EXCEPT ![u].xx = xx]]

(* FEbase::operator=: the function goes to the space of now. *)
SetValues(h, f, u, xx) ==
  LET g == operatorFESpace(h, SpaceOf[u])
      s == g.pVh[SpaceOf[u]]
  IN  [count |-> Point(g.count, f[u].Vh, s), pVh |-> g.pVh,
       fun |-> [f EXCEPT ![u] = [Vh |-> s, xx |-> xx]]]

-----------------------------------------------------------------------------
(* The script between two calls. *)

Remembered == {data.pTh[i] : i \in DOMAIN data.pTh}

(* Th = adaptmesh(...), movemesh(...): the new mesh is made while the old  *)
(* one is there.                                                           *)
NewMesh(t, a) ==
  /\ now = NoCall /\ made < MaxMade
  /\ count[a] = -1 /\ (Recycle \/ ~prob.composite \/ a \notin Remembered)
  /\ made' = made + 1
  /\ number' = [number EXCEPT ![a] = made + 1]
  /\ count' = Drop([count EXCEPT ![a] = 0], Th[t])
  /\ Th' = [Th EXCEPT ![t] = a]
  /\ UNCHANGED <<prob, pVh, fun, data, now>>

(* An expression uses the space: Vh.ndof, an integral of a test function. *)
UseSpace(V) ==
  /\ now = NoCall
  /\ LET h == operatorFESpace(Now, V) IN count' = h.count /\ pVh' = h.pVh
  /\ UNCHANGED <<prob, Th, made, number, fun, data, now>>

(* u = an expression *)
Assign(u) ==
  /\ now = NoCall
  /\ LET g == operatorFESpace(Now, SpaceOf[u])
         h == SetValues(Now, fun, u, SizeOf(g.pVh[SpaceOf[u]]))
     IN  count' = h.count /\ pVh' = h.pVh /\ fun' = h.fun
  /\ UNCHANGED <<prob, Th, made, number, data, now>>

(* The block of the problem ends and is run again: Problem::destroy, init. *)
Redeclare ==
  /\ now = NoCall
  /\ count' = Drop(Drop(count, data.Uh), data.Vh)
  /\ data' = NoData
  /\ UNCHANGED <<prob, Th, made, number, pVh, fun, now>>

-----------------------------------------------------------------------------
(* The call. *)

Nb == Len(prob.unknowns)
Space(i) == pVh[SpaceOf[prob.unknowns[i]]]   (* LL[i], pfesUh[i] *)
Test(i) == pVh[prob.tests[i]]                (* LL[Nb+i], pfesVh[i] *)

(* The space variables of the unknowns and then of the test functions.     *)
Variable(i) == IF i <= Nb THEN SpaceOf[prob.unknowns[i]] ELSE prob.tests[i - Nb]

(* The call begins; initmat = !init. *)
Call(init) ==
  /\ now = NoCall
  /\ now' = [at |-> "update", initmat |-> ~init, next |-> 1]
  /\ UNCHANGED <<prob, Th, made, number, count, pVh, fun, data>>

(* FEbase::newVh of each function of the problem in turn. *)
newVh ==
  /\ now.at = "update"
  /\ LET h == operatorFESpace(Now, Variable(now.next)) IN count' = h.count /\ pVh' = h.pVh
  /\ now' = IF now.next < 2 * Nb THEN [now EXCEPT !.next = @ + 1]
                                  ELSE [now EXCEPT !.at = "spaces", !.next = 1]
  /\ UNCHANGED <<prob, Th, made, number, fun, data>>

OnOneMesh == \A i \in 1 .. Nb : Space(i)[2] = Space(1)[2] /\ Test(i)[2] = Space(1)[2]
Galerkin == \A i \in 1 .. Nb : Space(i) = Test(i)

(* The error leaves what the problem keeps as it is, but for the address   *)
(* of the mesh, which a problem that is not composite has taken already.   *)
Refuse ==
  /\ now.at = "spaces"
  /\ \/ /\ ~prob.composite /\ ~OnOneMesh
        /\ UNCHANGED data
     \/ /\ prob.composite /\ ~Galerkin
        /\ UNCHANGED data
     \/ /\ ~prob.composite /\ OnOneMesh /\ Nb > 1 /\ ~Galerkin
        /\ data.pTh[1] # Space(1)[2]
        /\ data' = [data EXCEPT !.pTh = [i \in DOMAIN @ |-> Space(i)[2]]]
  /\ now' = NoCall
  /\ UNCHANGED <<prob, Th, made, number, count, pVh, fun>>

(* The meshes the problem looks at: one, or all of a composite problem. *)
Looked == IF prob.composite THEN 1 .. Nb ELSE {1}

(* Mutant of MeshChanged: only the mesh of the first unknown is compared. *)
MeshChanged_First == data.pTh[1] # Space(1)[2]

MeshChanged == \E i \in Looked : data.pTh[i] # Space(i)[2]

(* Mutant of TakeSpaces: the spaces of the first call are kept. *)
TakeSpaces_Once ==
  IF data.Uh # None THEN [count |-> count, Uh |-> data.Uh, Vh |-> data.Vh]
  ELSE IF Nb = 1 THEN [count |-> Add(Add(count, Space(1)), Test(1)), Uh |-> Space(1), Vh |-> Test(1)]
  ELSE LET s == <<Product, Space(1)[2]>>
       IN  [count |-> Add(NewSpace(count, s), s), Uh |-> s, Vh |-> s]

(* data->Uh, data->Vh: the spaces of the call, or their product, of which  *)
(* Uh is the master.                                                       *)
TakeSpaces ==
  IF Nb = 1 THEN [count |-> Point(Point(count, data.Uh, Space(1)), data.Vh, Test(1)),
                  Uh |-> Space(1), Vh |-> Test(1)]
  ELSE LET s == <<Product, Space(1)[2]>>
       IN  [count |-> Point(Drop(NewSpace(count, s), data.Uh), data.Vh, s), Uh |-> s, Vh |-> s]

(* What the problem keeps is compared with the spaces of the call. *)
Record ==
  /\ now.at = "spaces"
  /\ IF prob.composite THEN Galerkin ELSE OnOneMesh
  /\ IF MeshChanged
     THEN /\ now' = [now EXCEPT !.at = "guess", !.initmat = TRUE]
          /\ IF prob.composite
             THEN /\ data' = [data EXCEPT !.pTh = [i \in DOMAIN @ |-> Space(i)[2]]]
                  /\ UNCHANGED count
             ELSE /\ Nb = 1 \/ Galerkin
                  /\ LET t == TakeSpaces
                     IN  /\ data' = [data EXCEPT !.pTh = [i \in DOMAIN @ |-> Space(i)[2]],
                                                 !.Uh = t.Uh, !.Vh = t.Vh]
                         /\ count' = t.count
     ELSE /\ prob.composite \/ data.Uh # None
          /\ now' = [now EXCEPT !.at = "guess"] /\ UNCHANGED <<data, count>>
  /\ UNCHANGED <<prob, Th, made, number, pVh, fun>>

(* A refused problem is called again: the address of the mesh is the one   *)
(* it has taken, and its spaces are null.                                  *)
Crash ==
  /\ now.at = "spaces" /\ ~prob.composite /\ OnOneMesh
  /\ ~MeshChanged /\ data.Uh = None
  /\ now' = [now EXCEPT !.at = "crash"]
  /\ UNCHANGED <<prob, Th, made, number, count, pVh, fun, data>>

(* InitProblem: the values of the unknowns are read for the first guess.   *)
(* ReadsGuess says which are read: those of one unknown only when they     *)
(* have the size of its space, those of several as soon as the first is on *)
(* the mesh of the call.                                                   *)
OnMesh(i) == fun[prob.unknowns[i]].Vh # None /\ fun[prob.unknowns[i]].Vh[2] = Space(i)[2]
Fits(i) == fun[prob.unknowns[i]].xx = SizeOf(Space(i))
ReadsGuess(i) ==
  /\ fun[prob.unknowns[i]].xx # None
  /\ IF Nb = 1 \/ prob.composite THEN OnMesh(i) /\ Fits(i) ELSE OnMesh(1)

Guess ==
  /\ now.at = "guess"
  /\ now' = [now EXCEPT !.at = "matrix"]
  /\ UNCHANGED <<prob, Th, made, number, count, pVh, fun, data>>

(* The meshes a matrix is assembled on. *)
MeshesOfCall ==
  IF prob.composite THEN [i \in 1 .. Nb |-> number[Space(i)[2]]]
  ELSE <<number[data.Uh[2]], number[data.Vh[2]]>>

(* dataA.master(new MatriceMorse(...)) *)
NewMatrix ==
  /\ now.at = "matrix"
  /\ data' = IF now.initmat
             THEN [data EXCEPT !.A = [of |-> MeshesOfCall, whole |-> FALSE, vsolver |-> FALSE]]
             ELSE data
  /\ now' = [now EXCEPT !.at = "assembly"]
  /\ UNCHANGED <<prob, Th, made, number, count, pVh, fun>>

(* AssembleVarForm and AssembleBC fill the matrix and the right hand side. *)
Assemble ==
  /\ now.at = "assembly"
  /\ data' = IF now.initmat THEN [data EXCEPT !.A.whole = TRUE] ELSE data
  /\ now' = [now EXCEPT !.at = "solver"]
  /\ UNCHANGED <<prob, Th, made, number, count, pVh, fun>>

(* An expression of the forms or of a boundary condition raises: the       *)
(* matrix stays as far as it was filled, and no solver is set.             *)
AssemblyFails ==
  /\ now.at = "assembly"
  /\ now' = NoCall
  /\ UNCHANGED <<prob, Th, made, number, count, pVh, fun, data>>

(* DefSolver sets a new solver, or raises (solver not found). *)
DefSolver ==
  /\ now.at = "solver"
  /\ \/ /\ data' = IF now.initmat THEN [data EXCEPT !.A.vsolver = TRUE] ELSE data
        /\ now' = [now EXCEPT !.at = "solve"]
     \/ /\ now.initmat
        /\ now' = [now EXCEPT !.at = "failed"]
        /\ UNCHANGED data
  /\ UNCHANGED <<prob, Th, made, number, count, pVh, fun>>

(* VirtualMatrix::Solve raises when there is no solver.  The test of the   *)
(* sizes may let a matrix of other meshes through.                         *)
Solve ==
  /\ now.at = "solve"
  /\ \E r \in {"solved", "failed"} :
        /\ r = "solved" => data.A.vsolver
        /\ now' = [now EXCEPT !.at = r]
  /\ UNCHANGED <<prob, Th, made, number, count, pVh, fun, data>>

(* The size of the values given to unknown i. *)
SizeOfX(i) == IF Nb = 1 /\ ~prob.composite THEN SizeOf(data.Vh) ELSE SizeOf(Space(i))

(* DispatchSolution, with the solution or with zero when the solve raised, *)
(* gives its values to each unknown in turn, and then the call ends.       *)
DispatchSolution ==
  /\ now.at \in {"solved", "failed", "dispatch"}
  /\ LET h == SetValues(Now, fun, prob.unknowns[now.next], SizeOfX(now.next))
     IN  count' = h.count /\ pVh' = h.pVh /\ fun' = h.fun
  /\ now' = IF now.next < Nb THEN [now EXCEPT !.at = "dispatch", !.next = @ + 1] ELSE NoCall
  /\ UNCHANGED <<prob, Th, made, number, data>>

(* Functions and spaces other than the ones of the problem do not matter.  *)
Script ==
  \/ \E i \in 1 .. Nb, a \in Meshes : NewMesh(MeshOf[SpaceOf[prob.unknowns[i]]], a)
  \/ \E i \in 1 .. Nb : UseSpace(SpaceOf[prob.unknowns[i]]) \/ Assign(prob.unknowns[i])
  \/ Redeclare

Eval ==
  \/ \E init \in BOOLEAN : Call(init)
  \/ newVh \/ Refuse \/ Record \/ Crash \/ Guess \/ NewMatrix \/ Assemble \/ AssemblyFails
  \/ DefSolver \/ Solve \/ DispatchSolution

Next == Script \/ Eval

Spec == Init /\ [][Next]_vars

-----------------------------------------------------------------------------
(* Properties. *)

At == {"script", "update", "spaces", "crash", "guess", "matrix", "assembly", "solver", "solve",
       "solved", "failed", "dispatch"}

(* Counters are -1 for no object and never less; the other variables keep  *)
(* their shapes.                                                           *)
TypeOK ==
  /\ prob \in Problems
  /\ Th \in [MeshVars -> Meshes]
  /\ made \in 0 .. MaxMade /\ number \in [Meshes -> 0 .. made]
  /\ DOMAIN count = Objects /\ \A o \in Objects : count[o] \in Int /\ count[o] >= -1
  /\ pVh \in [FESpaces -> Spaces \cup {None}]
  /\ fun \in [Functions -> [Vh : Spaces \cup {None},
                            xx : ((FESpaces \cup {Product}) \X Nat) \cup {None}]]
  /\ data \in [pTh : [1 .. Nb -> Meshes \cup {None}], Uh : Spaces \cup {None},
               Vh : Spaces \cup {None}, A : Matrices \cup {None}]
  /\ now \in [at : At, initmat : BOOLEAN, next : 1 .. 2 * Nb]

(* Owners of an object: variables, functions, the problem, and for a mesh  *)
(* the spaces on it.                                                       *)
Owners(o) ==
  Cardinality({t \in MeshVars : Th[t] = o})
  + Cardinality({s \in Spaces : s[2] = o /\ count[s] >= 0})
  + Cardinality({V \in FESpaces : pVh[V] = o})
  + Cardinality({u \in Functions : fun[u].Vh = o})
  + Cardinality({k \in {"Uh", "Vh"} : data[k] = o})

(* A mesh or a space is deleted when its last owner lets it go and not     *)
(* before: counters are the owners minus one (RefCounter.hpp:56), through  *)
(* updates of spaces, products, failed calls and ends of scopes.           *)
CountInv == TypeOK /\ \A o \in Objects : count[o] = Owners(o) - 1

(* From the first guess to the solution Problem::eval uses spaces that are *)
(* there and that lie on the mesh of the call.  Not so for a problem it    *)
(* refuses (Crash).                                                        *)
SpacesOfCall ==
  now.at \notin {"script", "update", "spaces"} /\ ~prob.composite /\ (Nb = 1 \/ Galerkin) =>
    /\ data.Uh \in Spaces /\ data.Vh \in Spaces
    /\ data.Uh[2] = Space(1)[2] /\ data.Vh[2] = Space(1)[2]
    /\ \A i \in 1 .. Nb : Space(i)[2] = data.Uh[2]

(* A call that ends with a solution has solved a matrix that was assembled *)
(* to its end, on the meshes of this call, however many calls, errors and  *)
(* changes of meshes came before (problem.cpp:12695, "if one mesh have     *)
(* changed, we recompute all the matrix").                                 *)
SolvesThisMesh ==
  now.at = "solved" => data.A # None /\ data.A.whole /\ data.A.of = MeshesOfCall

(* One unknown, and test functions in another space.                       *)
PetrovGalerkin == Nb = 1 /\ ~prob.composite /\ ~(Variable(1) = Variable(2))

(* The values of a function have the size of the space it says it is on,   *)
(* and this space is there, whatever happened to its mesh since.  Not so   *)
(* after a call of a problem with one unknown and another space of test    *)
(* functions: its array, of the size of the latter, stays in the function  *)
(* that refuses it (lgfem.hpp:886).                                        *)
ValuesFit ==
  ~PetrovGalerkin => \A u \in Functions : fun[u].xx # None =>
    fun[u].Vh # None /\ count[fun[u].Vh] >= 0 /\ fun[u].xx = SizeOf(fun[u].Vh)

(* The values read for the first guess (problem.cpp:11857, "copy the       *)
(* previous soluton to initialize CG, GMRES, etc") have the size of the    *)
(* space they are read with.                                               *)
GuessFits ==
  now.at = "guess" => \A i \in 1 .. Nb : ReadsGuess(i) => Fits(i)
===============================================================================
