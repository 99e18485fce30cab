----------------------------- MODULE UmfpackSolver -----------------------------
(***************************************************************************)
(* A matrix and the direct solver attached to it: femlib/HashMatrix,       *)
(* femlib/VirtualSolver.hpp and the UMFPACK solver of                      *)
(* femlib/VirtualSolverSparseSuite.hpp.                                    *)
(*                                                                         *)
(* The solver keeps two factorizations and pointers into the arrays of the *)
(* matrix.  Before every solve it reads and lowers the flags of the matrix *)
(* and decides, by comparing codes, from which stage to compute again.     *)
(***************************************************************************)
EXTENDS HashMatrix

CONSTANTS
  Stages,   (* the stages set(A,solver=...,factorize=st) may ask for      *)
  Garbage   (* what the code members that no constructor sets may hold     *)

ASSUME SolverAssumption ==
  /\ Stages \subseteq 0 .. 3
  /\ Garbage \subseteq Int
  /\ Garbage # {}

VARIABLES
  attached,   (* the matrix has a solver                                   *)
  stage,      (* VirtualSolver::state, 0 to 3                              *)
  code,       (* codeini, codesym, codenum                                 *)
  codenew,    (* codeininew, codesymnew, codenumnew                        *)
  changes,    (* cs and cn: a change of pattern, of values, was ever seen  *)
  held,       (* Ap, Ai, Ax still are the arrays of the matrix             *)
  symbolic,   (* the pattern Symbolic was computed from, Null              *)
  numeric     (* the matrix Numeric was computed from, Null                *)

solver == <<attached, stage, code, codenew, changes, held, symbolic, numeric>>
all    == <<vars, solver>>

Null    == [kind |-> "null"]
Unknown == [kind |-> "unknown"]  (* computed from arrays that are not those of the matrix *)

(* What a factorization computed from the terms c is a factorization of. *)
Of(c) == [kind |-> "factor", dim |-> n, terms |-> MapOf(c)]

(* The same, computed through Ap, Ai and Ax: the terms, as long as these   *)
(* are the arrays of the matrix and nobody asked for another order.        *)
FromArrays == IF held /\ type_state = type_CSC THEN Of(coef) ELSE Unknown

Pattern(x) == IF x.kind = "factor" THEN [x EXCEPT !.terms = DOMAIN @] ELSE x

(* Whether umfpack_di_numeric refuses the arrays x with the Symbolic sym:  *)
(* it does without one, and may when the pattern is not that of sym.       *)
Refused(x, sym) ==
  IF sym = Null THEN {TRUE} ELSE IF Pattern(x) = sym THEN {FALSE} ELSE BOOLEAN

Detached ==
  /\ attached = FALSE
  /\ stage = 0
  /\ code = [ini |-> 0, sym |-> 0, num |-> 0]
  /\ codenew = [ini |-> 0, sym |-> 0, num |-> 0]
  /\ changes = [sym |-> FALSE, num |-> FALSE]
  /\ held = FALSE
  /\ symbolic = Null
  /\ numeric = Null

SolverInit == Init /\ n = m /\ half = 0 /\ Detached

-----------------------------------------------------------------------------
(* UpdateState: the flags of the matrix are read and lowered, and the      *)
(* codes follow them.  ChangeCodeState(ci,cs,cn) stores ci, the number of  *)
(* rows, in all three codes.                                               *)
Seen == [sym |-> changes.sym \/ re_do_symbolic = 1,
         num |-> changes.num \/ re_do_numerics = 1]

NewCodes(seen) ==
  [ini |-> n,
   sym |-> IF seen.sym THEN n ELSE codenew.sym,
   num |-> IF seen.num THEN n ELSE codenew.num]

(* Mutants of ChangeCodeState: a change of the size is not looked at; the  *)
(* values are looked at before the pattern.                                *)
ChangeCodeState_NoInit(s, old, new) ==
  CASE new.sym # old.sym -> 1
    [] new.sym = old.sym /\ new.num # old.num -> 2
    [] OTHER -> s

ChangeCodeState_ValuesFirst(s, old, new) ==
  CASE new.ini # old.ini -> 0
    [] new.ini = old.ini /\ new.num # old.num -> 2
    [] new.ini = old.ini /\ new.num = old.num /\ new.sym # old.sym -> 1
    [] OTHER -> s

(* The stage a solver at stage s is sent back to. *)
ChangeCodeState(s, old, new) ==
  CASE new.ini # old.ini -> 0
    [] new.ini = old.ini /\ new.sym # old.sym -> 1
    [] new.ini = old.ini /\ new.sym = old.sym /\ new.num # old.num -> 2
    [] OTHER -> s

(* Mutant of Refactored: the terms are not put in CSC order first. *)
Refactored_AsIs(doSymbolic) ==
  IF doSymbolic
  THEN /\ held' = TRUE
       /\ UNCHANGED <<coef, head, order>>
       /\ symbolic' = Pattern(FromArrays')
  ELSE UNCHANGED <<coef, head, order, held, symbolic>>

(* fac_symbolic: A->CSC(Ap,Ai,Ax), then umfpack_di_symbolic. *)
Refactored(doSymbolic) ==
  IF doSymbolic
  THEN /\ Sortji
       /\ state' = sorted_ji
       /\ Buildp(Cols(coef'), m, type_CSC, Len(coef))
       /\ type_state' = type_CSC
       /\ held' = TRUE
       /\ symbolic' = Pattern(FromArrays')
  ELSE UNCHANGED <<coef, head, order, held, symbolic>>

(* factorize(st): each stage above the present one and up to st, once.     *)
(* fac_numeric frees Numeric first; a refusal is an ExecError, which       *)
(* leaves the solver at the stage before.                                  *)
factorize(st) ==
  LET s0 == ChangeCodeState(stage, code, NewCodes(Seen))
      doSymbolic == s0 <= 1 /\ st >= 2
      doNumeric  == s0 <= 2 /\ st >= 3
  IN  /\ UNCHANGED <<shape, nnzmax, nhash, attached>>
      /\ changes' = Seen
      /\ codenew' = NewCodes(Seen)
      /\ re_do_numerics' = 0
      /\ re_do_symbolic' = 0
      /\ Refactored(doSymbolic)
      /\ code' = [ini |-> IF s0 = 0 /\ st >= 1 THEN codenew'.ini ELSE code.ini,
                  sym |-> IF doSymbolic THEN codenew'.sym ELSE code.sym,
                  num |-> IF doNumeric THEN codenew'.num ELSE code.num]
      /\ IF doNumeric
         THEN \E refused \in Refused(FromArrays', symbolic') :
                /\ stage' = IF refused THEN 2 ELSE 3
                /\ numeric' = IF refused THEN Null ELSE FromArrays'
         ELSE /\ stage' = Larger(s0, st)
              /\ UNCHANGED numeric

-----------------------------------------------------------------------------
(* SetSolver: a new solver replaces the old one; two of its members are    *)
(* never set.  The ini code is written before it is read.                  *)
Attach ==
  \E g, h \in Garbage :
    /\ n = m
    /\ attached' = TRUE
    /\ stage' = 0
    /\ code' = [ini |-> 0, sym |-> 0, num |-> 0]
    /\ codenew' = [ini |-> 0, sym |-> g, num |-> h]
    /\ changes' = [sym |-> FALSE, num |-> FALSE]
    /\ held' = FALSE
    /\ symbolic' = Null
    /\ numeric' = Null
    /\ UNCHANGED vars

(* set(A,solver=...,factorize=st), on the solver just made. *)
EarlyFactorize ==
  /\ attached
  /\ stage = 0
  /\ \E st \in Stages : factorize(st)

(* A^-1*b: solve is factorize(3), then dosolver unless that raised. *)
Solve ==
  /\ attached
  /\ n = m
  /\ factorize(3)

Solved == Solve /\ stage' = 3

(* The matrix is used behind the back of the solver, by the calls a script *)
(* can make on it; it stays square and whole.  Ap is the array p, freed by *)
(* the formats without a pointer; Ai and Ax are arrays that every change   *)
(* of nnzmax allocates again.                                              *)
MatrixStep ==
  /\ \/ Access
     \/ Values
     \/ \E nn \in 1 .. MaxDim, tol \in {-1, 1} : resize(nn, nn, 0, tol, 0)
     \/ clear
     \/ COO
     \/ CSR
     \/ CSC
     \/ HM
  /\ held' = (held /\ p' # NoP /\ nnzmax' = nnzmax)
  /\ UNCHANGED <<attached, stage, code, codenew, changes, symbolic, numeric>>

SolverNext == Attach \/ EarlyFactorize \/ Solve \/ MatrixStep

SolverSpec == SolverInit /\ [][SolverNext]_all

-----------------------------------------------------------------------------
Factors == {"null", "unknown", "factor"}

(* Every variable of the solver has its type. *)
SolverTypeOK ==
  /\ attached \in BOOLEAN
  /\ stage \in 0 .. 3
  /\ code \in [ini : 0 .. MaxDim, sym : Int, num : Int]
  /\ codenew \in [ini : 0 .. MaxDim, sym : Int, num : Int]
  /\ changes \in [sym : BOOLEAN, num : BOOLEAN]
  /\ held \in BOOLEAN
  /\ symbolic.kind \in Factors
  /\ numeric.kind \in Factors

(* A stage counts as done only while the code it was done for is the code  *)
(* last seen, whatever the members that are never set held: so a solve     *)
(* that finds nothing changed computes nothing again.                      *)
CodesInv ==
  /\ SolverTypeOK
  /\ stage >= 1 => code.ini = codenew.ini
  /\ stage >= 2 => code.sym = codenew.sym
  /\ stage = 3 => code.num = codenew.num /\ numeric # Null

(* Every solve that returns uses a Symbolic made for the number of rows    *)
(* the matrix has now: a resize between two solves is always noticed.      *)
SolveDimension == [][Solved => symbolic' # Null /\ symbolic'.dim = n]_all

(* The first solve after set(A,solver=...) is a solve of the matrix as it  *)
(* is, whatever an earlier solver did to its flags and its order.          *)
FirstSolveIsCurrent ==
  [][Solved /\ attached /\ stage = 0 => numeric' = Of(coef)]_all

(* What UpdateState is said to be for (VirtualSolver.hpp:206, "to see the  *)
(* code change to redo fac"): a solve that finds the flag of the values    *)
(* raised either factorizes again or has factors of the present values.    *)
SolveIsCurrent ==
  [][Solved /\ re_do_numerics = 1 /\ numeric' = numeric => numeric = Of(coef)]_all
================================================================================
