------------------------------- MODULE QuadTree -------------------------------
(***************************************************************************)
(* The tree in which the vertices of a mesh are sought by their place,     *)
(* class FQuadTree of femlib/FQuadTree.hpp and .cpp, and the gluing of     *)
(* meshes that is made with it (GluMesh, fflib/glumesh2D.cpp).             *)
(*                                                                         *)
(* A place is real, here a multiple of 1/Grain; the tree knows it by the   *)
(* integers below it, its cell.  A box of the tree is <<l, x, y>>, its     *)
(* size and its corner.  The counts the boxes keep of the vertices below   *)
(* them are read for their sign only: a box has vertices or sub-boxes.     *)
(*                                                                         *)
(* A task is what the tree is made for: the constructor of a mesh, or the  *)
(* gluing of meshes under a distance, with vertices at some places.        *)
(***************************************************************************)
EXTENDS Integers, Sequences, FiniteSets, SequencesExt

CONSTANTS
  MaxISize,   (* side of the tree, a power of 2                             *)
  Grain,      (* real steps in a cell                                       *)
  Tasks,      (* [glue, seuil, places]: whether meshes are glued, hseuil in *)
              (* real steps, and the places of the vertices of the meshes   *)
  Asked,      (* the cells searched for, some of them outside of the tree    *)
  MaxVertices (* bound: vertices in the tree                                *)

ASSUME BoundsAssumption ==
  /\ {MaxISize, Grain, MaxVertices} \subseteq Nat \ {0}
  /\ \A t \in Tasks :
       /\ t.glue \in BOOLEAN /\ t.seuil \in Nat \ {0}
       /\ t.places \subseteq (0 .. MaxISize * Grain - 1) \X (0 .. MaxISize * Grain - 1)

VARIABLES
  v,       (* the vertices, by their number: their places                   *)
  tree,    (* the boxes: [leaf, v], v the vertices of a leaf                *)
  loops,   (* Add does not come to its end                                  *)
  task,    (* what the tree is made for                                     *)
  taken,   (* history: the places of the vertices taken so far              *)
  found    (* history: where the triangles found them first                 *)

vars == <<v, tree, loops, task, taken, found>>

None == 0
Root == <<MaxISize, 0, 0>>

(* R2ToI2, the cell of a place. *)
R2ToI2(P) == <<P[1] \div Grain, P[2] \div Grain>>

AbsOf(i)    == IF i < 0 THEN -i ELSE i
MaxOf(a, b) == IF a > b THEN a ELSE b
norm(p, q)  == MaxOf(AbsOf(p[1] - q[1]), AbsOf(p[2] - q[2]))
Dist2(P, Q) == (P[1] - Q[1]) ^ 2 + (P[2] - Q[2]) ^ 2

(* Sub-box k of a box, and the number of the one a cell is in.             *)
Sub(b, k) ==
  LET l == b[1] \div 2 IN <<l, b[2] + l * (k % 2), b[3] + l * (k \div 2)>>

Case(p, l) == ((p[1] \div l) % 2) + 2 * ((p[2] \div l) % 2)
SubOf(b, p) == Sub(b, Case(p, b[1] \div 2))

(* Mutant of interseg: the box is taken for its corner. *)
interseg_Corner(b, p, h) ==
  /\ p[1] + h[1] > b[2] /\ p[1] - h[1] < b[2]
  /\ p[2] + h[2] > b[3] /\ p[2] - h[2] < b[3]

(* Mutant of interseg: hb is halved once more than the box. *)
interseg_Half(b, p, h) ==
  /\ p[1] + h[1] > b[2] /\ p[1] - h[1] < b[2] + b[1] \div 2
  /\ p[2] + h[2] > b[3] /\ p[2] - h[2] < b[3] + b[1] \div 2

(* A box meets the cells at less than h of a cell. *)
interseg(b, p, h) ==
  /\ p[1] + h[1] > b[2] /\ p[1] - h[1] < b[2] + b[1]
  /\ p[2] + h[2] > b[3] /\ p[2] - h[2] < b[3] + b[1]

-----------------------------------------------------------------------------
(* Add: down to a leaf or to a box that is not there.                      *)
(* Mutant of Down: the size is halved after the case is taken. *)
RECURSIVE Down_Late(_, _, _)
Down_Late(t, b, p) ==
  IF b \in DOMAIN t /\ ~t[b].leaf THEN Down_Late(t, Sub(b, Case(p, b[1])), p) ELSE b

RECURSIVE Down(_, _, _)
Down(t, b, p) == IF b \in DOMAIN t /\ ~t[b].leaf THEN Down(t, SubOf(b, p), p) ELSE b

Leaf(ns) == [leaf |-> TRUE, v |-> ns]
Inner    == [leaf |-> FALSE, v |-> <<>>]
IsFull(t, b) == b \in DOMAIN t /\ t[b].leaf /\ Len(t[b].v) = 4

(* A full box gives its vertices to its sub-boxes. *)
Split(t, vs, b) ==
  LET In(s) == SelectSeq(t[b].v, LAMBDA n : SubOf(b, R2ToI2(vs[n])) = s)
      subs  == {SubOf(b, R2ToI2(vs[n])) : n \in Range(t[b].v)}
  IN  [s \in DOMAIN t \cup subs |->
         IF s = b THEN Inner ELSE IF s \in subs THEN Leaf(In(s)) ELSE t[s]]

(* A box of one cell that is full would be split for ever.                 *)
RECURSIVE Splits(_, _, _, _)
Splits(t, vs, b, p) ==
  IF IsFull(t, b) /\ b[1] > 1 THEN Splits(Split(t, vs, b), vs, SubOf(b, p), p)
                              ELSE <<t, b>>

Put(t, b, n) ==
  [s \in DOMAIN t \cup {b} |->
     IF s # b THEN t[s] ELSE Leaf(Append(IF b \in DOMAIN t THEN t[b].v ELSE <<>>, n))]

Add(P) ==
  LET n == Len(v) + 1
      p == R2ToI2(P)
      r == Splits(tree, v, Down(tree, Root, p), p)
  IN  /\ v' = Append(v, P)
      /\ IF IsFull(r[1], r[2]) THEN loops' = TRUE /\ UNCHANGED tree
                               ELSE tree' = Put(r[1], r[2], n) /\ UNCHANGED loops

-----------------------------------------------------------------------------
(* A search: w says what is sought, r what is found.                       *)
(* near: the nearest vertex, at less than r.h; list: vertices at less than *)
(* w.h, as far as there is room; close: ToClose, see below.                *)
Cell(n) == R2ToI2(v[n])
Side(h) == <<h, h>>

hx(delta) == MaxOf(delta \div Grain, 1)
IsClose(P, Q, delta) ==
  norm(R2ToI2(P), R2ToI2(Q)) < hx(delta) /\ Dist2(P, Q) < delta ^ 2


(* Whether a box is walked. *)
Meets(w, b, r) ==
  \/ w.op = "near"  /\ interseg(b, w.q, Side(r.h))
  \/ w.op = "list"  /\ interseg(b, w.q, Side(w.h))
  \/ w.op = "close" /\ interseg(b, w.q, Side(hx(w.delta))) /\ (w.nearest \/ r.n = None)

Takes(w, n, r) ==
  \/ w.op = "near"  /\ norm(Cell(n), w.q) < r.h
  \/ w.op = "list"  /\ norm(Cell(n), w.q) < w.h /\ Len(r.list) < w.room
  \/ w.op = "close" /\ IsClose(v[n], w.P, w.delta)
       /\ (r.n = None \/ (w.nearest /\ Dist2(v[n], w.P) < r.h))
Take(w, n, r) ==
  IF ~Takes(w, n, r) THEN r
  ELSE [n |-> n, list |-> Append(r.list, n),
        h |-> IF w.op = "close" THEN Dist2(v[n], w.P) ELSE norm(Cell(n), w.q)]

(* The walk of the searches: the vertices and the sub-boxes of a box from  *)
(* the last one, each box tested against what is found by then.            *)
RECURSIVE Walk(_, _, _)
Walk(w, b, r) ==
  IF tree[b].leaf THEN FoldRight(LAMBDA n, s : Take(w, n, s), tree[b].v, r)
  ELSE FoldLeft(LAMBDA s, k : IF Sub(b, k) \in DOMAIN tree /\ Meets(w, Sub(b, k), s)
                              THEN Walk(w, Sub(b, k), s) ELSE s,
                r, <<3, 2, 1, 0>>)

Nothing(h) == [n |-> None, list |-> <<>>, h |-> h]
Empty      == tree[Root].leaf /\ tree[Root].v = <<>>

(* The cell asked for is brought into the tree. *)
Clamp(i) == IF i < 0 THEN 0 ELSE IF i >= MaxISize THEN MaxISize - 1 ELSE i
plus(q)  == <<Clamp(q[1]), Clamp(q[2])>>

TrueNearestVertex(q) ==
  IF Empty THEN None ELSE Walk([op |-> "near", q |-> plus(q)], Root, Nothing(MaxISize)).n

(* The smallest box with a cell that is in the tree. *)
RECURSIVE Smallest(_, _)
Smallest(b, q) ==
  IF ~tree[b].leaf /\ SubOf(b, q) \in DOMAIN tree THEN Smallest(SubOf(b, q), q) ELSE b

NearestVertex(q) ==
  IF Empty THEN None
  ELSE LET b == Smallest(Root, plus(q)) IN
       Walk([op |-> "near", q |-> plus(q)], b,
            Nothing(IF tree[b].leaf THEN MaxISize ELSE b[1])).n

ListNearestVertex(q, dh, room) ==
  IF Empty THEN <<>>
  ELSE Walk([op |-> "list", q |-> plus(q), h |-> dh, room |-> room], Root, Nothing(0)).list

(* The first vertex at less than delta of P, or the nearest, among those   *)
(* whose cell is at less than hx of that of P.                             *)
ToClose(P, delta, nearest) ==
  IF Empty THEN None
  ELSE Walk([op |-> "close", P |-> P, q |-> R2ToI2(P), delta |-> delta, nearest |-> nearest],
            Root, Nothing(0)).n

-----------------------------------------------------------------------------
Init ==
  /\ v = <<>> /\ tree = [b \in {Root} |-> Leaf(<<>>)] /\ loops = FALSE
  /\ task \in Tasks /\ taken = {} /\ found = <<>>

(* The constructor from a mesh: every vertex is added. *)
AddVertex(P) ==
  /\ ~task.glue /\ ~loops /\ Len(v) < MaxVertices
  /\ Add(P) /\ UNCHANGED <<task, taken, found>>

(* GluMesh, a vertex of one of the meshes: it is added unless one is close.*)
GlueVertex(P) ==
  /\ task.glue /\ ~loops /\ Len(v) < MaxVertices
  /\ IF ToClose(P, task.seuil, FALSE) = None THEN Add(P) ELSE UNCHANGED <<v, tree, loops>>
  /\ taken' = taken \cup {P}
  /\ UNCHANGED <<task, found>>

(* Once its vertices are taken, the triangles and the edges of a mesh ask  *)
(* for them by their place; the vertices of the next mesh come after.      *)
GlueTriangles ==
  /\ task.glue /\ ~loops /\ taken # DOMAIN found
  /\ found' = [P \in taken |->
                 IF P \in DOMAIN found THEN found[P] ELSE ToClose(P, task.seuil, FALSE)]
  /\ UNCHANGED <<v, tree, loops, task, taken>>

(* The tree is full (bound), or Add never ends. *)
Ended == (loops \/ Len(v) = MaxVertices) /\ UNCHANGED vars

Next == Ended \/ GlueTriangles \/ \E P \in task.places : AddVertex(P) \/ GlueVertex(P)

Spec == Init /\ [][Next]_vars

-----------------------------------------------------------------------------
Inside(b, p) == b[2] <= p[1] /\ p[1] < b[2] + b[1] /\ b[3] <= p[2] /\ p[2] < b[3] + b[1]
Held     == UNION {Range(tree[b].v) : b \in DOMAIN tree}
Below(b) == {n \in Held : Inside(b, Cell(n))}

(* The tree is that of its vertices, whatever the order they came in: no   *)
(* vertex is lost; a box but the root is a quarter of an inner box and has *)
(* a vertex in it; a box is inner when more than 4 vertices are in it, and *)
(* otherwise holds each of them, once.                                     *)
TreeOK ==
  /\ loops \/ Held = 1 .. Len(v)
  /\ Root \in DOMAIN tree
  /\ \A b \in DOMAIN tree \ {Root} :
       /\ Below(b) # {}
       /\ \E c \in DOMAIN tree, k \in 0 .. 3 : ~tree[c].leaf /\ b = Sub(c, k)
  /\ \A b \in DOMAIN tree :
       IF Cardinality(Below(b)) > 4 THEN ~tree[b].leaf /\ tree[b].v = <<>>
       ELSE /\ tree[b].leaf /\ Range(tree[b].v) = Below(b)
            /\ Len(tree[b].v) = Cardinality(Below(b))

IsNearest(n, q, S) == n \in S /\ \A k \in S : norm(Cell(n), q) <= norm(Cell(k), q)

(* ToClose misses no vertex that is close, and with nearest it returns the *)
(* nearest of them.                                                        *)
CloseIsFound ==
  \A P \in task.places :
    LET S == {n \in Held : IsClose(v[n], P, task.seuil)}
        first   == ToClose(P, task.seuil, FALSE)
        nearest == ToClose(P, task.seuil, TRUE)
    IN  IF S = {} THEN first = None /\ nearest = None
        ELSE first \in S /\ nearest \in S
             /\ \A n \in S : Dist2(v[nearest], P) <= Dist2(v[n], P)

(* The searches skip boxes by their corners and by what is found already:  *)
(* what they find is what a look at every vertex finds.  NearestVertex     *)
(* promises less: the nearest in the smallest box around the place.        *)
SearchesAreRight ==
  /\ CloseIsFound
  /\ \A q \in Asked :
       /\ Held # {} => IsNearest(TrueNearestVertex(q), plus(q), Held)
       /\ Held # {} => LET b == Smallest(Root, plus(q)) IN
            IsNearest(NearestVertex(q), plus(q), {n \in Held : Inside(b, Cell(n))})
       /\ \A dh \in {1, 2} :
            Range(ListNearestVertex(q, dh, MaxVertices)) =
              {n \in Held : norm(Cell(n), plus(q)) < dh}

(* A vertex of a triangle is found, and where being close is transitive it *)
(* is the same one for all the meshes that have a vertex there: the glued  *)
(* mesh has no crack.                                                      *)
Transitive(S) ==
  \A P, Q \in S : IsClose(P, Q, task.seuil) =>
    \A R \in S : IsClose(Q, R, task.seuil) => IsClose(P, R, task.seuil)
NoCrack ==
  /\ \A P \in DOMAIN found : found[P] # None
  /\ Transitive(taken) =>
       \A P \in DOMAIN found : ToClose(P, task.seuil, FALSE) = found[P]
==============================================================================
