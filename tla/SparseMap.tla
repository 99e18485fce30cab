------------------------------- MODULE SparseMap -------------------------------
(***************************************************************************)
(* What the users of a HashMatrix count on: a matrix is a partial map from *)
(* cells to values, and each call has one effect on that map.  How the     *)
(* terms are ordered, hashed and allocated does not show.                  *)
(***************************************************************************)
EXTENDS Integers

CONSTANTS
  MaxDim,  (* the largest number of rows or columns   *)
  Vals,    (* the values a coefficient can take       *)
  Others   (* the maps of the matrices copied         *)

VARIABLES rows, cols, map

vars == <<rows, cols, map>>

Cells == (0 .. rows - 1) \X (0 .. cols - 1)
Empty == [c \in {} |-> 0]

Init ==
  /\ rows \in 1 .. MaxDim
  /\ cols \in 1 .. MaxDim
  /\ map = Empty

(* A(i,j) = v, A(i,j) += v: one cell gets a value. *)
Put(c) ==
  /\ UNCHANGED <<rows, cols>>
  /\ LET old == map
         new == map'
     IN  /\ DOMAIN new = DOMAIN old \cup {c}
         /\ new[c] \in Vals
         /\ \A d \in DOMAIN old \ {c} : new[d] = old[d]

(* setcoef, operator*=, operator=(v): new values for the stored cells. *)
Revalue ==
  /\ UNCHANGED <<rows, cols>>
  /\ map' \in [DOMAIN map -> Vals]

(* resize, RemoveHalf: the cells out of the new bounds, those not above    *)
(* the threshold or those of one triangle are forgotten, the others stay.  *)
Restrict(r, s, tol, InPart(_)) ==
  /\ rows' = r
  /\ cols' = s
  /\ LET old  == map
         kept == {c \in DOMAIN old : /\ c[1] < r
                                     /\ c[2] < s
                                     /\ old[c] > tol \/ -old[c] > tol
                                     /\ InPart(c)}
     IN  map' = [c \in kept |-> old[c]]

(* dotranspose. *)
Transpose ==
  /\ rows' = cols
  /\ cols' = rows
  /\ map' = [c \in {<<d[2], d[1]>> : d \in DOMAIN map} |-> map[<<c[2], c[1]>>]]

(* clear; operator= forgets all and takes the cells of another matrix. *)
Clear ==
  /\ map' = Empty
  /\ UNCHANGED <<rows, cols>>

Copy(r, s, other) ==
  /\ rows' = r
  /\ cols' = s
  /\ DOMAIN other \subseteq (0 .. r - 1) \X (0 .. s - 1)
  /\ map' = other

Next ==
  \/ Revalue
  \/ \E c \in Cells : Put(c)
  \/ \E r, s \in 1 .. MaxDim, tol \in {-1, 0} :
       \/ Restrict(r, s, tol, LAMBDA c : TRUE)
       \/ Restrict(r, s, tol, LAMBDA c : c[2] <= c[1])
       \/ Restrict(r, s, tol, LAMBDA c : c[1] <= c[2])
  \/ Transpose
  \/ Clear
  \/ \E r, s \in 1 .. MaxDim, other \in Others : Copy(r, s, other)

Spec == Init /\ [][Next]_vars
================================================================================
