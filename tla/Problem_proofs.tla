----------------------------- MODULE Problem_proofs -----------------------------
(***************************************************************************)
(* Proofs about Problem, for any meshes, spaces, functions and problems.   *)
(***************************************************************************)
EXTENDS Problem, FiniteSetTheorems, TLAPS

-----------------------------------------------------------------------------
(* The invariant.                                                          *)

(* How often f points at o, for the indices in S, and whether a does.      *)
Pointers(f, S, o) == Cardinality({x \in S : f[x] = o})
Is(a, o) == IF a = o THEN 1 ELSE 0

(* The owners of each object but for the spaces on a mesh: the variables   *)
(* of mesh T and of space p, the functions f, and a and b of the problem.  *)
Weights(T, p, f, a, b) ==
  [o \in Objects |-> Pointers(T, MeshVars, o) + Pointers(p, FESpaces, o)
                     + Pointers(f, Functions, o) + Is(a, o) + Is(b, o)]
Vhs(f) == [u \in Functions |-> f[u].Vh]

(* Counters c and owners w agree; a space that lives owns its mesh.        *)
On(c, a) == {s \in Spaces : s[2] = a /\ c[s] >= 0}
Balanced(c, w) ==
  /\ c \in [Objects -> Int] /\ w \in [Objects -> Nat]
  /\ \A s \in Spaces : c[s] = w[s] - 1
  /\ \A a \in Meshes : c[a] = w[a] + Cardinality(On(c, a)) - 1

Counted == Balanced(count, Weights(Th, pVh, Vhs(fun), data.Uh, data.Vh))

(* Two variables never have one mesh.                                      *)
Separate == \A s, t \in MeshVars : Th[s] = Th[t] => s = t

(* The space of a variable, or of a function, is made for it.              *)
Named ==
  /\ \A V \in FESpaces : pVh[V] # None => pVh[V][1] = V
  /\ \A u \in Functions : fun[u].Vh # None => fun[u].Vh[1] = SpaceOf[u]

(* The space of V on the mesh of now.                                      *)
Fresh(V) == <<V, Th[MeshOf[V]]>>

(* When it lives, the variable has it: it is not made twice.               *)
Followed == \A V \in FESpaces : count[Fresh(V)] >= 0 => pVh[V] = Fresh(V)

(* A problem that is not composite keeps spaces when test functions and    *)
(* unknowns are in the same, or there is one unknown.                      *)
SameSpaces == \A i \in 1 .. Nb : Variable(i) = Variable(Nb + i)
Takes == ~prob.composite /\ (Nb = 1 \/ SameSpaces)

(* The spaces it keeps are on the mesh whose address it keeps.             *)
Kept ==
  IF Takes
  THEN \/ data.pTh[1] = None /\ data.Uh = None /\ data.Vh = None
       \/ /\ data.pTh[1] \in Meshes
          /\ data.Uh = <<IF Nb = 1 THEN Variable(1) ELSE Product, data.pTh[1]>>
          /\ data.Vh = <<IF Nb = 1 THEN Variable(2) ELSE Product, data.pTh[1]>>
  ELSE data.Uh = None /\ data.Vh = None

(* In a call the spaces of the problem are those of now.                   *)
UpToDate ==
  /\ now.at = "script" => now = NoCall
  /\ now.at = "update" => \A i \in 1 .. now.next - 1 : pVh[Variable(i)] = Fresh(Variable(i))
  /\ now.at \notin {"script", "update"} =>
       \A i \in 1 .. 2 * Nb : pVh[Variable(i)] = Fresh(Variable(i))
  /\ now.at \notin {"update", "dispatch"} => now.next = 1
  /\ now.next > Nb => now.at = "update"

(* From the first guess on what the problem keeps is that of the call.     *)
Recorded ==
  /\ now.at = "crash" => ~prob.composite /\ ~Takes
  /\ now.at \notin {"script", "update", "spaces", "crash"} =>
       /\ prob.composite \/ (Takes /\ OnOneMesh)
       /\ \A i \in Looked : data.pTh[i] = Space(i)[2]

(* The meshes of what the problem keeps, and its matrix.                   *)
HasMatrix == IF prob.composite THEN data.pTh[1] # None ELSE data.Uh # None
MeshesKept ==
  IF prob.composite THEN [i \in 1 .. Nb |-> number[data.pTh[i]]]
  ELSE <<number[data.Uh[2]], number[data.Vh[2]]>>
OldMatrix == now.at \in {"guess", "matrix"} /\ now.initmat
Assembled ==
  /\ prob.composite => \A i \in 1 .. Nb : data.pTh[i] = None <=> data.pTh[1] = None
  /\ HasMatrix /\ ~OldMatrix => data.A # None
  /\ data.A # None /\ data.A.vsolver => data.A.whole
  /\ now.at = "solver" /\ now.initmat => data.A.whole
  /\ now.at = "solved" => data.A.vsolver

(* It is the matrix of these meshes, unless a mesh may be put where a       *)
(* composite problem remembers one.                                        *)
NoReuse == ~prob.composite \/ ~Recycle
Current == NoReuse /\ HasMatrix /\ ~OldMatrix => data.A.of = MeshesKept

(* The values of a function fit its space.                                 *)
Fit == ~PetrovGalerkin => \A u \in Functions :
  fun[u].xx # None => fun[u].Vh # None /\ fun[u].xx = SizeOf(fun[u].Vh)

Inv == /\ TypeOK /\ Counted /\ Separate /\ Named /\ Followed /\ Kept /\ UpToDate /\ Recorded
       /\ Assembled /\ Current /\ Fit

-----------------------------------------------------------------------------
(* Counters and owners. *)

(* Memory and variables are finitely many, and kinds do not mix.           *)
LEMMA Facts ==
  /\ IsFiniteSet(Meshes) /\ IsFiniteSet(MeshVars) /\ IsFiniteSet(FESpaces) /\ IsFiniteSet(Functions)
  /\ IsFiniteSet(Spaces)
  /\ None \notin Meshes /\ None \notin Spaces /\ None \notin Matrices /\ Product \notin FESpaces
  /\ \A s \in Spaces : s \notin Meshes /\ s[1] \in FESpaces \cup {Product} /\ s[2] \in Meshes
                       /\ s = <<s[1], s[2]>> /\ s # s[2]
  /\ \A V \in FESpaces : MeshOf[V] \in MeshVars
  /\ \A u \in Functions : SpaceOf[u] \in FESpaces
<1>1. IsFiniteSet(Meshes) /\ IsFiniteSet(MeshVars) /\ IsFiniteSet(FESpaces) /\ IsFiniteSet(Functions)
  BY ProblemAssumption
<1>2. IsFiniteSet(FESpaces \cup {Product})
  BY <1>1, FS_Singleton, FS_Union
<1>3. IsFiniteSet(Spaces)
  BY <1>1, <1>2, FS_Product DEF Spaces
<1>4. None \notin Meshes /\ None \notin Spaces /\ None \notin Matrices /\ Product \notin FESpaces
  BY ProblemAssumption DEF Objects
<1>5. \A s \in Spaces : s \notin Meshes /\ s[1] \in FESpaces \cup {Product} /\ s[2] \in Meshes
                        /\ s = <<s[1], s[2]>> /\ s # s[2]
  BY ProblemAssumption DEF Spaces
<1>6. MeshOf \in [FESpaces -> MeshVars] /\ SpaceOf \in [Functions -> FESpaces]
  BY ProblemAssumption
<1> QED BY <1>1, <1>3, <1>4, <1>5, <1>6

(* Pointers are finitely many; one that points at o is one.                *)
LEMMA PointersType ==
  ASSUME NEW S, IsFiniteSet(S), NEW f, NEW o
  PROVE  /\ Pointers(f, S, o) \in Nat
         /\ \A x \in S : f[x] = o => Pointers(f, S, o) >= 1
         /\ (\A x \in S : f[x] # o) => Pointers(f, S, o) = 0
<1> DEFINE P == {x \in S : f[x] = o}
<1>1. IsFiniteSet(P)
  BY FS_Subset
<1>2. Cardinality(P) \in Nat /\ (Cardinality(P) = 0 <=> P = {})
  BY <1>1, FS_CardinalityType, FS_EmptySet
<1> QED BY <1>2 DEF Pointers

(* A pointer that moves. *)
Elsewhere(f, g, S, x) == \A y \in S \ {x} : g[y] = f[y]

LEMMA PointersMove ==
  ASSUME NEW S, IsFiniteSet(S), NEW f, NEW g, NEW x \in S, NEW o, Elsewhere(f, g, S, x)
  PROVE  Pointers(g, S, o) = Pointers(f, S, o) - Is(f[x], o) + Is(g[x], o)
<1> DEFINE R == {y \in S \ {x} : f[y] = o}
           P == {y \in S : f[y] = o}
           Q == {y \in S : g[y] = o}
<1>1. IsFiniteSet(R) /\ x \notin R /\ Cardinality(R) \in Nat
  BY FS_Subset, FS_CardinalityType
<1>2. Cardinality(R \cup {x}) = Cardinality(R) + 1
  BY <1>1, FS_AddElement
<1>3. P = IF f[x] = o THEN R \cup {x} ELSE R
  OBVIOUS
<1>4. Q = IF g[x] = o THEN R \cup {x} ELSE R
  BY DEF Elsewhere
<1>5. Cardinality(P) = Cardinality(R) + Is(f[x], o)
  BY <1>1, <1>2, <1>3 DEF Is
<1>6. Cardinality(Q) = Cardinality(R) + Is(g[x], o)
  BY <1>1, <1>2, <1>4 DEF Is
<1>7. Is(f[x], o) \in Int /\ Is(g[x], o) \in Int
  BY DEF Is
<1> HIDE DEF P, Q, R
<1>8. Cardinality(Q) = Cardinality(P) - Is(f[x], o) + Is(g[x], o)
  BY <1>1, <1>5, <1>6, <1>7
<1> QED BY <1>8 DEF P, Q, Pointers

(* One owner more, and one less, which change nothing when a is None.      *)
Gain(w, a) == [o \in Objects |-> w[o] + Is(a, o)]
Loss(w, a) == [o \in Objects |-> w[o] - Is(a, o)]

(* Spaces on a mesh: their number.                                         *)
LEMMA OnType ==
  ASSUME NEW c, NEW a
  PROVE  IsFiniteSet(On(c, a)) /\ Cardinality(On(c, a)) \in Nat
BY Facts, FS_Subset, FS_CardinalityType DEF On

(* The spaces are the same, or one more lives, or one less.                *)
LEMMA OnSame ==
  ASSUME NEW c, NEW d, \A s \in Spaces : d[s] >= 0 <=> c[s] >= 0
  PROVE  \A a \in Meshes : On(d, a) = On(c, a)
BY DEF On

LEMMA OnMore ==
  ASSUME NEW c, NEW d, NEW s \in Spaces, ~(c[s] >= 0), d[s] >= 0,
         \A r \in Spaces \ {s} : d[r] >= 0 <=> c[r] >= 0
  PROVE  \A a \in Meshes : Cardinality(On(d, a)) = Cardinality(On(c, a)) + Is(s[2], a)
<1> SUFFICES ASSUME NEW a \in Meshes
             PROVE  Cardinality(On(d, a)) = Cardinality(On(c, a)) + Is(s[2], a)
  OBVIOUS
<1>1. CASE s[2] = a
  <2>1. On(d, a) = On(c, a) \cup {s} /\ s \notin On(c, a)
    BY <1>1 DEF On
  <2> QED BY <1>1, <2>1, OnType, FS_AddElement DEF Is
<1>2. CASE s[2] # a
  <2>1. On(d, a) = On(c, a)
    BY <1>2 DEF On
  <2> QED BY <1>2, <2>1, OnType DEF Is
<1> QED BY <1>1, <1>2

(* A mesh a living space is on lives, and what is dead has no owner.       *)
LEMMA Living ==
  ASSUME NEW c, NEW w, Balanced(c, w)
  PROVE  /\ \A o \in Objects : c[o] \in Int /\ c[o] >= -1 /\ w[o] \in Nat
         /\ \A o \in Objects : w[o] >= 1 => c[o] >= 0
         /\ \A s \in Spaces : c[s] >= 0 => c[s[2]] >= 0
         /\ \A a \in Meshes : c[a] = -1 => w[a] = 0 /\ Cardinality(On(c, a)) = 0
<1>1. \A o \in Objects : c[o] \in Int /\ w[o] \in Nat
  BY DEF Balanced
<1>2. \A a \in Meshes : c[a] = w[a] + Cardinality(On(c, a)) - 1 /\ a \in Objects
  BY DEF Balanced, Objects
<1>3. \A s \in Spaces : c[s] = w[s] - 1 /\ s \in Objects
  BY DEF Balanced, Objects
<1>4. \A o \in Objects : c[o] >= -1 /\ (w[o] >= 1 => c[o] >= 0)
  BY <1>1, <1>2, <1>3, OnType DEF Objects
<1>5. ASSUME NEW s \in Spaces, c[s] >= 0 PROVE c[s[2]] >= 0
  <2>1. s \in On(c, s[2]) /\ s[2] \in Meshes
    BY <1>5, Facts DEF On
  <2>2. Cardinality(On(c, s[2])) # 0
    BY <2>1, OnType, FS_EmptySet
  <2>3. Cardinality(On(c, s[2])) \in Nat
    BY OnType
  <2> QED BY <1>1, <1>2, <2>1, <2>2, <2>3
<1>6. \A a \in Meshes : c[a] = -1 => w[a] = 0 /\ Cardinality(On(c, a)) = 0
  BY <1>1, <1>2, OnType
<1> QED BY <1>1, <1>4, <1>5, <1>6

(* A pointer to an object that is there: one owner more.                   *)
LEMMA AddBalanced ==
  ASSUME NEW c, NEW w, Balanced(c, w), NEW o \in Objects \cup {None}, o \in Spaces => c[o] >= 0
  PROVE  Balanced(Add(c, o), Gain(w, o))
<1> DEFINE d == Add(c, o)
           v == Gain(w, o)
<1>1. c \in [Objects -> Int] /\ w \in [Objects -> Nat]
  BY DEF Balanced
<1>2. CASE o = None
  <2>1. d = c /\ v = w
    <3>1. \A x \in Objects : Is(o, x) = 0 /\ w[x] + 0 = w[x]
      BY <1>1, <1>2, Facts DEF Is, Objects
    <3> QED BY <1>1, <1>2, <3>1 DEF Add, Gain
  <2> QED BY <2>1
<1>3. CASE o # None
  <2>1. o \in Objects /\ d = [c EXCEPT ![o] = @ + 1]
    BY <1>3 DEF Add
  <2>2. d \in [Objects -> Int] /\ v \in [Objects -> Nat]
    BY <1>1, <2>1 DEF Gain, Is
  <2>3. \A x \in Objects : d[x] = c[x] + Is(o, x) /\ v[x] = w[x] + Is(o, x)
    BY <1>1, <2>1 DEF Gain, Is
  <2>4. \A s \in Spaces : d[s] >= 0 <=> c[s] >= 0
    BY <1>1, <2>3 DEF Is, Objects
  <2>5. \A a \in Meshes : Cardinality(On(d, a)) = Cardinality(On(c, a)) /\ Cardinality(On(c, a)) \in Nat
    BY <2>4, OnSame, OnType
  <2>6. \A x \in Objects : Is(o, x) \in Int /\ c[x] \in Int /\ w[x] \in Nat
    BY <1>1 DEF Is
  <2>7. Balanced(d, v)
    <3> HIDE DEF d, v
    <3> QED BY <1>1, <2>2, <2>3, <2>5, <2>6 DEF Balanced, Objects
  <2> QED BY <2>7
<1> QED BY <1>2, <1>3

(* An owner lets an object go: the last one deletes it, and a space that   *)
(* goes lets its mesh go.                                                  *)
LEMMA DropBalanced ==
  ASSUME NEW c, NEW w, Balanced(c, w), NEW o \in Objects \cup {None}, o # None => w[o] >= 1
  PROVE  Balanced(Drop(c, o), Loss(w, o))
<1> DEFINE d == Drop(c, o)
           v == Loss(w, o)
<1>1. c \in [Objects -> Int] /\ w \in [Objects -> Nat]
  BY DEF Balanced
<1>2. CASE o = None
  <2>1. d = c /\ v = w
    <3>1. \A x \in Objects : Is(o, x) = 0 /\ w[x] - 0 = w[x]
      BY <1>1, <1>2, Facts DEF Is, Objects
    <3> QED BY <1>1, <1>2, <3>1 DEF Drop, Loss
  <2> QED BY <2>1
<1>3. CASE o # None
  <2>1. o \in Objects /\ w[o] >= 1
    BY <1>3
  <2>2. v \in [Objects -> Nat] /\ \A x \in Objects : v[x] = w[x] - Is(o, x)
    BY <1>1, <2>1 DEF Loss, Is
  <2>3. \A x \in Objects : Is(o, x) \in Int /\ c[x] \in Int /\ w[x] \in Nat
    BY <1>1 DEF Is
  <2>4. \A a \in Meshes : Cardinality(On(c, a)) \in Nat
    BY OnType
  <2>5. CASE o \in Spaces /\ c[o] = 0
    <3>1. o[2] \in Meshes /\ o[2] \in Objects /\ o[2] # o /\ o[2] \notin Spaces /\ o \notin Meshes
      BY <2>5, Facts DEF Objects
    <3>2. d = [c EXCEPT ![o] = -1, ![o[2]] = @ - 1]
      BY <1>3, <2>5 DEF Drop
    <3>3. /\ d \in [Objects -> Int] /\ d[o] = -1
          /\ \A x \in Objects \ {o} : d[x] = c[x] - Is(o[2], x)
      <4> HIDE DEF d
      <4> QED BY <1>1, <2>1, <3>1, <3>2 DEF Is
    <3>4. \A s \in Spaces \ {o} : d[s] = c[s]
      <4>1. \A s \in Spaces \ {o} : s \in Objects /\ Is(o[2], s) = 0
        BY <3>1 DEF Is, Objects
      <4> QED BY <1>1, <3>3, <4>1
    <3>5. \A a \in Meshes : Cardinality(On(c, a)) = Cardinality(On(d, a)) + Is(o[2], a)
      <4>1. ~(d[o] >= 0) /\ c[o] >= 0
        BY <2>5, <3>3
      <4> HIDE DEF d
      <4> QED BY <2>5, <3>4, <4>1, OnMore
    <3>6. \A s \in Spaces : d[s] = v[s] - 1
      <4>1. \A s \in Spaces \ {o} : v[s] = w[s] /\ c[s] = w[s] - 1
        BY <2>2, <2>3 DEF Balanced, Is, Objects
      <4>2. v[o] = 0
        BY <2>1, <2>2, <2>3, <2>5 DEF Balanced, Is
      <4> QED BY <3>3, <3>4, <4>1, <4>2
    <3>7. \A a \in Meshes : d[a] = v[a] + Cardinality(On(d, a)) - 1
      <4> SUFFICES ASSUME NEW a \in Meshes PROVE d[a] = v[a] + Cardinality(On(d, a)) - 1
        OBVIOUS
      <4>1. a \in Objects /\ a # o /\ Is(o, a) = 0
        BY <3>1 DEF Is, Objects
      <4>2. d[a] = c[a] - Is(o[2], a) /\ v[a] = w[a] - Is(o, a) /\ c[a] = w[a] + Cardinality(On(c, a)) - 1
        BY <2>2, <3>3, <4>1 DEF Balanced
      <4>3. Is(o[2], a) \in Int /\ Cardinality(On(d, a)) \in Nat
        BY OnType DEF Is
      <4> HIDE DEF d, v
      <4> QED BY <2>3, <2>4, <3>5, <4>1, <4>2, <4>3
    <3> QED BY <2>2, <3>3, <3>6, <3>7 DEF Balanced
  <2>6. CASE ~(o \in Spaces /\ c[o] = 0)
    <3>1. d = [c EXCEPT ![o] = @ - 1]
      BY <1>3, <2>6 DEF Drop
    <3>2. d \in [Objects -> Int] /\ \A x \in Objects : d[x] = c[x] - Is(o, x)
      BY <1>1, <2>1, <3>1 DEF Is
    <3>3. \A s \in Spaces : d[s] >= 0 <=> c[s] >= 0
      <4>1. ASSUME NEW s \in Spaces PROVE d[s] >= 0 <=> c[s] >= 0
        <5>1. s \in Objects /\ c[s] = w[s] - 1
          BY DEF Balanced, Objects
        <5> QED BY <2>1, <2>3, <2>6, <3>2, <5>1 DEF Is
      <4> QED BY <4>1
    <3>4. \A a \in Meshes : Cardinality(On(d, a)) = Cardinality(On(c, a))
      BY <3>3, OnSame
    <3>5. Balanced(d, v)
      <4> HIDE DEF d, v
      <4> QED BY <2>2, <2>3, <2>4, <3>2, <3>4 DEF Balanced, Objects
    <3> QED BY <3>5
  <2> QED BY <2>5, <2>6
<1> QED BY <1>2, <1>3

(* A new space has one owner, and owns its mesh.                           *)
LEMMA NewSpaceBalanced ==
  ASSUME NEW c, NEW w, Balanced(c, w), NEW s \in Spaces, ~(c[s] >= 0)
  PROVE  Balanced(NewSpace(c, s), Gain(w, s))
<1> DEFINE d == NewSpace(c, s)
           v == Gain(w, s)
<1>1. c \in [Objects -> Int] /\ w \in [Objects -> Nat] /\ s \in Objects /\ w[s] = 0
  BY Living DEF Balanced, Objects
<1>2. s[2] \in Meshes /\ s[2] \in Objects /\ s[2] # s /\ s[2] \notin Spaces /\ s \notin Meshes
  BY Facts DEF Objects
<1>3. d \in [Objects -> Int] /\ d[s] = 0 /\ \A x \in Objects \ {s} : d[x] = c[x] + Is(s[2], x)
  <2>1. d = [c EXCEPT ![s] = 0, ![s[2]] = @ + 1]
    BY DEF NewSpace
  <2> HIDE DEF d
  <2> QED BY <1>1, <1>2, <2>1 DEF Is
<1>4. v \in [Objects -> Nat] /\ \A x \in Objects : v[x] = w[x] + Is(s, x)
  BY <1>1 DEF Gain, Is
<1>5. \A r \in Spaces \ {s} : d[r] = c[r] /\ v[r] = w[r] /\ r \in Objects
  <2>1. \A r \in Spaces \ {s} : r \in Objects /\ Is(s[2], r) = 0 /\ Is(s, r) = 0
    BY <1>2 DEF Is, Objects
  <2> QED BY <1>1, <1>3, <1>4, <2>1
<1>6. \A a \in Meshes : Cardinality(On(d, a)) = Cardinality(On(c, a)) + Is(s[2], a)
  <2>1. d[s] >= 0
    BY <1>3
  <2> HIDE DEF d
  <2> QED BY <1>5, <2>1, OnMore
<1>7. \A r \in Spaces : d[r] = v[r] - 1
  BY <1>1, <1>3, <1>4, <1>5 DEF Balanced, Is
<1>8. \A a \in Meshes : d[a] = v[a] + Cardinality(On(d, a)) - 1
  <2> SUFFICES ASSUME NEW a \in Meshes PROVE d[a] = v[a] + Cardinality(On(d, a)) - 1
    OBVIOUS
  <2>1. a \in Objects /\ a # s /\ Is(s, a) = 0 /\ Is(s[2], a) \in Int
    BY <1>2 DEF Is, Objects
  <2>2. d[a] = c[a] + Is(s[2], a) /\ v[a] = w[a] + Is(s, a) /\ c[a] = w[a] + Cardinality(On(c, a)) - 1
        /\ c[a] \in Int /\ w[a] \in Nat
    BY <1>1, <1>3, <1>4, <2>1 DEF Balanced
  <2>3. Cardinality(On(c, a)) \in Nat /\ Cardinality(On(d, a)) \in Nat
    BY OnType
  <2> HIDE DEF d, v
  <2> QED BY <1>6, <2>1, <2>2, <2>3
<1> QED BY <1>3, <1>4, <1>7, <1>8 DEF Balanced

(* So has a new mesh. *)
LEMMA NewMeshBalanced ==
  ASSUME NEW c, NEW w, Balanced(c, w), NEW a \in Meshes, c[a] = -1
  PROVE  Balanced([c EXCEPT ![a] = 0], Gain(w, a))
<1> DEFINE d == [c EXCEPT ![a] = 0]
           v == Gain(w, a)
<1>1. /\ c \in [Objects -> Int] /\ w \in [Objects -> Nat] /\ a \in Objects
      /\ w[a] = 0 /\ Cardinality(On(c, a)) = 0
  BY Living DEF Balanced, Objects
<1>2. a \notin Spaces
  BY Facts
<1>3. d \in [Objects -> Int] /\ d[a] = 0 /\ \A x \in Objects \ {a} : d[x] = c[x]
  BY <1>1
<1>4. v \in [Objects -> Nat] /\ v[a] = 1 /\ \A x \in Objects \ {a} : v[x] = w[x]
  BY <1>1 DEF Gain, Is
<1>5. \A s \in Spaces : d[s] = c[s] /\ v[s] = w[s]
  BY <1>2, <1>3, <1>4 DEF Objects
<1>6. \A b \in Meshes : On(d, b) = On(c, b)
  <2>1. \A s \in Spaces : d[s] >= 0 <=> c[s] >= 0
    BY <1>5
  <2> HIDE DEF d
  <2> QED BY <2>1, OnSame
<1>7. \A b \in Meshes : d[b] = v[b] + Cardinality(On(d, b)) - 1
  <2> HIDE DEF d, v
  <2> QED BY <1>1, <1>3, <1>4, <1>6 DEF Balanced, Objects
<1> QED BY <1>3, <1>4, <1>5, <1>7 DEF Balanced

-----------------------------------------------------------------------------
(* Weights: what moves when a pointer moves. *)

(* Each pointer counts. *)
LEMMA WeightsType ==
  ASSUME NEW T, NEW p, NEW f, NEW a, NEW b
  PROVE  /\ Weights(T, p, f, a, b) \in [Objects -> Nat]
         /\ \A o \in Objects :
              /\ \A t \in MeshVars : T[t] = o => Weights(T, p, f, a, b)[o] >= 1
              /\ \A V \in FESpaces : p[V] = o => Weights(T, p, f, a, b)[o] >= 1
              /\ \A u \in Functions : f[u] = o => Weights(T, p, f, a, b)[o] >= 1
              /\ Weights(T, p, f, a, b)[o] >= Is(a, o) + Is(b, o)
              /\ (\A t \in MeshVars : T[t] # o) /\ (\A V \in FESpaces : p[V] # o)
                 /\ (\A u \in Functions : f[u] # o) => Weights(T, p, f, a, b)[o] = Is(a, o) + Is(b, o)
<1> SUFFICES ASSUME NEW o \in Objects
             PROVE  /\ Weights(T, p, f, a, b)[o] \in Nat
                    /\ \A t \in MeshVars : T[t] = o => Weights(T, p, f, a, b)[o] >= 1
                    /\ \A V \in FESpaces : p[V] = o => Weights(T, p, f, a, b)[o] >= 1
                    /\ \A u \in Functions : f[u] = o => Weights(T, p, f, a, b)[o] >= 1
                    /\ Weights(T, p, f, a, b)[o] >= Is(a, o) + Is(b, o)
                    /\ (\A t \in MeshVars : T[t] # o) /\ (\A V \in FESpaces : p[V] # o)
                       /\ (\A u \in Functions : f[u] # o) =>
                         Weights(T, p, f, a, b)[o] = Is(a, o) + Is(b, o)
  BY DEF Weights
<1>1. Weights(T, p, f, a, b)[o] = Pointers(T, MeshVars, o) + Pointers(p, FESpaces, o)
                                  + Pointers(f, Functions, o) + Is(a, o) + Is(b, o)
  BY DEF Weights
<1>2. /\ Pointers(T, MeshVars, o) \in Nat
      /\ \A t \in MeshVars : T[t] = o => Pointers(T, MeshVars, o) >= 1
      /\ (\A t \in MeshVars : T[t] # o) => Pointers(T, MeshVars, o) = 0
  BY Facts, PointersType
<1>3. /\ Pointers(p, FESpaces, o) \in Nat
      /\ \A V \in FESpaces : p[V] = o => Pointers(p, FESpaces, o) >= 1
      /\ (\A V \in FESpaces : p[V] # o) => Pointers(p, FESpaces, o) = 0
  BY Facts, PointersType
<1>4. /\ Pointers(f, Functions, o) \in Nat
      /\ \A u \in Functions : f[u] = o => Pointers(f, Functions, o) >= 1
      /\ (\A u \in Functions : f[u] # o) => Pointers(f, Functions, o) = 0
  BY Facts, PointersType
<1>5. Is(a, o) \in Nat /\ Is(b, o) \in Nat
  BY DEF Is
<1> QED BY <1>1, <1>2, <1>3, <1>4, <1>5

(* Weights that differ by what moved.                                      *)
LEMMA Moved ==
  ASSUME NEW w, NEW v, NEW x, NEW y,
         \A o \in Objects : w[o] \in Int /\ v[o] = w[o] + Is(x, o) - Is(y, o)
  PROVE  [o \in Objects |-> v[o]] = Loss(Gain(w, x), y)
<1> DEFINE L == [o \in Objects |-> (w[o] + Is(x, o)) - Is(y, o)]
<1>1. L = Loss(Gain(w, x), y)
  BY DEF Loss, Gain
<1>2. \A o \in Objects : L[o] = v[o]
  <2>1. \A o \in Objects : Is(x, o) \in Int /\ Is(y, o) \in Int
    BY DEF Is
  <2> QED BY <2>1
<1>3. L = [o \in Objects |-> L[o]]
  OBVIOUS
<1>4. L = [o \in Objects |-> v[o]]
  <2> HIDE DEF L
  <2> QED BY <1>2, <1>3
<1> QED BY <1>1, <1>4

(* A variable takes another mesh, *)
LEMMA MoveMesh ==
  ASSUME NEW T, NEW U, NEW p, NEW f, NEW a, NEW b, NEW t \in MeshVars, NEW m,
         U[t] = m, \A s \in MeshVars \ {t} : U[s] = T[s]
  PROVE  Weights(U, p, f, a, b) = Loss(Gain(Weights(T, p, f, a, b), m), T[t])
<1> DEFINE W == Weights(T, p, f, a, b)
           X == Weights(U, p, f, a, b)
<1>1. ASSUME NEW o \in Objects PROVE X[o] = W[o] + Is(m, o) - Is(T[t], o)
  <2>1. Elsewhere(T, U, MeshVars, t)
    BY DEF Elsewhere
  <2>2. Pointers(U, MeshVars, o) = Pointers(T, MeshVars, o) - Is(T[t], o) + Is(m, o)
    BY <2>1, Facts, PointersMove
  <2>3. Pointers(T, MeshVars, o) \in Nat /\ Pointers(p, FESpaces, o) \in Nat
        /\ Pointers(f, Functions, o) \in Nat
    BY Facts, PointersType
  <2>4. Is(m, o) \in Int /\ Is(T[t], o) \in Int /\ Is(a, o) \in Int /\ Is(b, o) \in Int
    BY DEF Is
  <2> QED BY <2>2, <2>3, <2>4 DEF Weights
<1>2. X = [o \in Objects |-> X[o]]
  BY DEF Weights
<1>3. X = Loss(Gain(W, m), T[t])
  <2>1. \A o \in Objects : W[o] \in Int
    BY WeightsType
  <2> HIDE DEF W, X
  <2> QED BY <1>1, <1>2, <2>1, Moved
<1> QED BY <1>3

(* a variable another space, *)
LEMMA MoveSpace ==
  ASSUME NEW T, NEW p, NEW q, NEW f, NEW a, NEW b, NEW V \in FESpaces, NEW s,
         q[V] = s, \A x \in FESpaces \ {V} : q[x] = p[x]
  PROVE  Weights(T, q, f, a, b) = Loss(Gain(Weights(T, p, f, a, b), s), p[V])
<1> DEFINE W == Weights(T, p, f, a, b)
           X == Weights(T, q, f, a, b)
<1>1. ASSUME NEW o \in Objects PROVE X[o] = W[o] + Is(s, o) - Is(p[V], o)
  <2>1. Elsewhere(p, q, FESpaces, V)
    BY DEF Elsewhere
  <2>2. Pointers(q, FESpaces, o) = Pointers(p, FESpaces, o) - Is(p[V], o) + Is(s, o)
    BY <2>1, Facts, PointersMove
  <2>3. Pointers(T, MeshVars, o) \in Nat /\ Pointers(p, FESpaces, o) \in Nat
        /\ Pointers(f, Functions, o) \in Nat
    BY Facts, PointersType
  <2>4. Is(s, o) \in Int /\ Is(p[V], o) \in Int /\ Is(a, o) \in Int /\ Is(b, o) \in Int
    BY DEF Is
  <2> QED BY <2>2, <2>3, <2>4 DEF Weights
<1>2. X = [o \in Objects |-> X[o]]
  BY DEF Weights
<1>3. X = Loss(Gain(W, s), p[V])
  <2>1. \A o \in Objects : W[o] \in Int
    BY WeightsType
  <2> HIDE DEF W, X
  <2> QED BY <1>1, <1>2, <2>1, Moved
<1> QED BY <1>3

(* a function another space. *)
LEMMA MoveFunction ==
  ASSUME NEW T, NEW p, NEW F, NEW G, NEW a, NEW b, NEW u \in Functions, NEW s,
         G[u] = s, \A x \in Functions \ {u} : G[x] = F[x]
  PROVE  Weights(T, p, G, a, b) = Loss(Gain(Weights(T, p, F, a, b), s), F[u])
<1> DEFINE W == Weights(T, p, F, a, b)
           X == Weights(T, p, G, a, b)
<1>1. ASSUME NEW o \in Objects PROVE X[o] = W[o] + Is(s, o) - Is(F[u], o)
  <2>1. Elsewhere(F, G, Functions, u)
    BY DEF Elsewhere
  <2>2. Pointers(G, Functions, o) = Pointers(F, Functions, o) - Is(F[u], o) + Is(s, o)
    BY <2>1, Facts, PointersMove
  <2>3. Pointers(T, MeshVars, o) \in Nat /\ Pointers(p, FESpaces, o) \in Nat
        /\ Pointers(F, Functions, o) \in Nat
    BY Facts, PointersType
  <2>4. Is(s, o) \in Int /\ Is(F[u], o) \in Int /\ Is(a, o) \in Int /\ Is(b, o) \in Int
    BY DEF Is
  <2> QED BY <2>2, <2>3, <2>4 DEF Weights
<1>2. X = [o \in Objects |-> X[o]]
  BY DEF Weights
<1>3. X = Loss(Gain(W, s), F[u])
  <2>1. \A o \in Objects : W[o] \in Int
    BY WeightsType
  <2> HIDE DEF W, X
  <2> QED BY <1>1, <1>2, <2>1, Moved
<1> QED BY <1>3

(* The problem takes other spaces, or none. *)
LEMMA MoveKept ==
  ASSUME NEW T, NEW p, NEW f, NEW a, NEW b, NEW c, NEW d
  PROVE  /\ Weights(T, p, f, c, b) = Loss(Gain(Weights(T, p, f, a, b), c), a)
         /\ Weights(T, p, f, a, d) = Loss(Gain(Weights(T, p, f, a, b), d), b)
<1> DEFINE W == Weights(T, p, f, a, b)
           X == Weights(T, p, f, c, b)
           Y == Weights(T, p, f, a, d)
<1>1. ASSUME NEW o \in Objects
      PROVE  /\ X[o] = W[o] + Is(c, o) - Is(a, o)
             /\ Y[o] = W[o] + Is(d, o) - Is(b, o)
  <2>1. Pointers(T, MeshVars, o) \in Nat /\ Pointers(p, FESpaces, o) \in Nat
        /\ Pointers(f, Functions, o) \in Nat
    BY Facts, PointersType
  <2>2. Is(a, o) \in Int /\ Is(b, o) \in Int /\ Is(c, o) \in Int /\ Is(d, o) \in Int
    BY DEF Is
  <2> QED BY <2>1, <2>2 DEF Weights
<1>2. X = [o \in Objects |-> X[o]] /\ Y = [o \in Objects |-> Y[o]]
  BY DEF Weights
<1>3. X = Loss(Gain(W, c), a) /\ Y = Loss(Gain(W, d), b)
  <2>0. \A o \in Objects : W[o] \in Int
    BY WeightsType
  <2> HIDE DEF W, X, Y
  <2>1. X = Loss(Gain(W, c), a)
    BY <1>1, <1>2, <2>0, Moved
  <2>2. Y = Loss(Gain(W, d), b)
    BY <1>1, <1>2, <2>0, Moved
  <2> QED BY <2>1, <2>2
<1> QED BY <1>3

-----------------------------------------------------------------------------
(* Spaces and values. *)

(* The order of a gain and a loss does not matter. *)
LEMMA GainLoss ==
  ASSUME NEW w \in [Objects -> Int], NEW a, NEW b
  PROVE  Gain(Loss(w, a), b) = Loss(Gain(w, b), a)
<1>1. \A o \in Objects : w[o] \in Int /\ Is(a, o) \in Int /\ Is(b, o) \in Int
  BY DEF Is
<1> QED BY <1>1 DEF Gain, Loss

(* The weight of each object after a move. *)
LEMMA MovedAt ==
  ASSUME NEW w \in [Objects -> Int], NEW a, NEW b, NEW o \in Objects
  PROVE  /\ Gain(w, a)[o] = w[o] + Is(a, o)
         /\ Loss(w, a)[o] = w[o] - Is(a, o)
         /\ Loss(Gain(w, a), b)[o] = w[o] + Is(a, o) - Is(b, o)
         /\ Gain(w, a) \in [Objects -> Int] /\ Loss(w, a) \in [Objects -> Int]
<1>1. \A x \in Objects : w[x] \in Int /\ Is(a, x) \in Int /\ Is(b, x) \in Int
  BY DEF Is
<1> QED BY <1>1 DEF Gain, Loss

(* The space of a variable on the mesh of now. *)
LEMMA FreshType ==
  ASSUME TypeOK, NEW V \in FESpaces
  PROVE  Fresh(V) \in Spaces /\ Fresh(V)[1] = V /\ Fresh(V)[2] = Th[MeshOf[V]] /\ Fresh(V) # None
BY Facts DEF TypeOK, Fresh, Spaces

(* A use of the space of V: it is that of now, and counted.                *)
LEMMA OpenSpace ==
  ASSUME TypeOK, Counted, Named, Followed, NEW V \in FESpaces, NEW h, h = operatorFESpace(Now, V)
  PROVE  /\ h.pVh \in [FESpaces -> Spaces \cup {None}]
         /\ h.pVh[V] = Fresh(V) /\ \A X \in FESpaces \ {V} : h.pVh[X] = pVh[X]
         /\ Balanced(h.count, Weights(Th, h.pVh, Vhs(fun), data.Uh, data.Vh))
         /\ \A X \in FESpaces : h.count[Fresh(X)] >= 0 => h.pVh[X] = Fresh(X)
         /\ \A X \in FESpaces : h.pVh[X] # None => h.pVh[X][1] = X
<1> DEFINE s == Fresh(V)
           W == Weights(Th, pVh, Vhs(fun), data.Uh, data.Vh)
<1>1. s \in Spaces /\ s \in Objects /\ s # None
  BY FreshType DEF Objects
<1>2. pVh \in [FESpaces -> Spaces \cup {None}] /\ Balanced(count, W)
  BY DEF TypeOK, Counted
<1>3. CASE pVh[V] = s
  <2>1. h = Now
    BY <1>3 DEF operatorFESpace, Now, Fresh
  <2> QED BY <1>2, <1>3, <2>1 DEF Now, Named, Followed
<1>4. CASE pVh[V] # s
  <2> DEFINE c == NewSpace(count, s)
             p == [pVh EXCEPT ![V] = s]
             d == Drop(c, pVh[V])
             X == Weights(Th, p, Vhs(fun), data.Uh, data.Vh)
  <2>1. h.count = d /\ h.pVh = p
    BY <1>4 DEF operatorFESpace, Now, Fresh
  <2>2. ~(count[s] >= 0)
    BY <1>4 DEF Followed
  <2>3. Balanced(c, Gain(W, s))
    <3> HIDE DEF W, s
    <3> QED BY <1>1, <1>2, <2>2, NewSpaceBalanced
  <2>4. W \in [Objects -> Int] /\ \A Y \in FESpaces : pVh[Y] \in Objects => W[pVh[Y]] >= 1
    <3>1. W \in [Objects -> Nat] /\ \A Y \in FESpaces : pVh[Y] \in Objects => W[pVh[Y]] >= 1
      BY WeightsType
    <3> HIDE DEF W
    <3> QED BY <3>1
  <2>5. pVh[V] \in Objects \cup {None}
    BY <1>2 DEF Objects
  <2>6. pVh[V] # None => Gain(W, s)[pVh[V]] >= 1
    <3> HIDE DEF W, s
    <3>1. pVh[V] # None => Gain(W, s)[pVh[V]] = W[pVh[V]] + Is(s, pVh[V]) /\ W[pVh[V]] \in Int /\ W[pVh[V]] >= 1
      BY <2>4, <2>5, MovedAt
    <3> QED BY <3>1 DEF Is
  <2>7. Balanced(d, Loss(Gain(W, s), pVh[V]))
    <3> HIDE DEF W, s, c
    <3> QED BY <2>3, <2>5, <2>6, DropBalanced
  <2>8. p \in [FESpaces -> Spaces \cup {None}] /\ p[V] = s /\ \A Y \in FESpaces \ {V} : p[Y] = pVh[Y]
    BY <1>1, <1>2
  <2>9. X = Loss(Gain(W, s), pVh[V])
    <3> HIDE DEF s, p
    <3> QED BY <2>8, MoveSpace
  <2>10. Balanced(d, X)
    BY <2>7, <2>9
  <2>11. ASSUME NEW Y \in FESpaces \ {V}, d[Fresh(Y)] >= 0 PROVE p[Y] = Fresh(Y)
    <3>1. Fresh(Y) \in Spaces /\ Fresh(Y) \in Objects /\ Fresh(Y) # s
      BY FreshType DEF Objects
    <3>2. d[Fresh(Y)] = X[Fresh(Y)] - 1 /\ count[Fresh(Y)] = W[Fresh(Y)] - 1
      <4> HIDE DEF X, W, d
      <4> QED BY <1>2, <2>10, <3>1 DEF Balanced
    <3>3. X[Fresh(Y)] = W[Fresh(Y)] + Is(s, Fresh(Y)) - Is(pVh[V], Fresh(Y))
      <4> HIDE DEF X, W, s
      <4> QED BY <2>4, <2>9, <3>1, MovedAt
    <3>4. Is(s, Fresh(Y)) = 0 /\ Is(pVh[V], Fresh(Y)) \in {0, 1} /\ W[Fresh(Y)] \in Int
      BY <2>4, <3>1 DEF Is
    <3>5. count[Fresh(Y)] >= 0
      <4> HIDE DEF X, W, s, d
      <4> QED BY <2>11, <3>2, <3>3, <3>4
    <3> QED BY <2>8, <3>5 DEF Followed
  <2>12. \A Y \in FESpaces : p[Y] # None => p[Y][1] = Y
    BY <2>8, FreshType DEF Named
  <2> HIDE DEF p, d
  <2> QED BY <2>1, <2>8, <2>10, <2>11, <2>12
<1> QED BY <1>3, <1>4

(* A function takes values: it is on the space of now, and counted.        *)
LEMMA SetValuesOK ==
  ASSUME TypeOK, Counted, Named, Followed, NEW u \in Functions, NEW xx, NEW h, h = SetValues(Now, fun, u, xx)
  PROVE  /\ h.pVh \in [FESpaces -> Spaces \cup {None}]
         /\ h.pVh[SpaceOf[u]] = Fresh(SpaceOf[u])
         /\ \A X \in FESpaces \ {SpaceOf[u]} : h.pVh[X] = pVh[X]
         /\ h.fun = [fun EXCEPT ![u] = [Vh |-> Fresh(SpaceOf[u]), xx |-> xx]]
         /\ Balanced(h.count, Weights(Th, h.pVh, Vhs(h.fun), data.Uh, data.Vh))
         /\ \A X \in FESpaces : h.count[Fresh(X)] >= 0 => h.pVh[X] = Fresh(X)
         /\ \A X \in FESpaces : h.pVh[X] # None => h.pVh[X][1] = X
<1> DEFINE V == SpaceOf[u]
           s == Fresh(V)
           g == operatorFESpace(Now, V)
           old == fun[u].Vh
           k == [fun EXCEPT ![u] = [Vh |-> s, xx |-> xx]]
           W == Weights(Th, g.pVh, Vhs(fun), data.Uh, data.Vh)
           X == Weights(Th, g.pVh, Vhs(k), data.Uh, data.Vh)
           d == Point(g.count, old, s)
<1>1. V \in FESpaces /\ s \in Spaces /\ s \in Objects
  BY Facts, FreshType DEF Objects
<1>2. /\ g.pVh \in [FESpaces -> Spaces \cup {None}]
      /\ g.pVh[V] = s /\ \A Y \in FESpaces \ {V} : g.pVh[Y] = pVh[Y]
      /\ Balanced(g.count, W)
      /\ \A Y \in FESpaces : g.count[Fresh(Y)] >= 0 => g.pVh[Y] = Fresh(Y)
      /\ \A Y \in FESpaces : g.pVh[Y] # None => g.pVh[Y][1] = Y
  BY <1>1, OpenSpace
<1>3. h.count = d /\ h.pVh = g.pVh /\ h.fun = k
  <2>1. h = [count |-> Point(g.count, old, g.pVh[V]), pVh |-> g.pVh, fun |-> [fun EXCEPT ![u] = [Vh |-> g.pVh[V], xx |-> xx]]]
    BY DEF SetValues
  <2> HIDE DEF g
  <2> QED BY <1>2, <2>1
<1>4. fun[u].Vh \in Objects \cup {None} /\ k[u].Vh = s /\ \A v \in Functions \ {u} : k[v] = fun[v]
  BY DEF TypeOK, Objects
<1> HIDE DEF g, k, s, V
<1>5. /\ W \in [Objects -> Int] /\ X \in [Objects -> Int] /\ W[s] >= 1
      /\ old # None => W[old] >= 1
  <2>1. /\ W \in [Objects -> Nat] /\ X \in [Objects -> Nat] /\ W[s] >= 1
        /\ old # None => W[old] >= 1
    <3>2. Vhs(fun)[u] = old
      BY DEF Vhs
    <3> HIDE DEF old
    <3>3. W \in [Objects -> Nat] /\ X \in [Objects -> Nat] /\ W[s] >= 1
      BY <1>1, <1>2, WeightsType
    <3>4. old # None => W[old] >= 1
      BY <1>4, <3>2, WeightsType DEF old
    <3> QED BY <3>3, <3>4
  <2> HIDE DEF W, X
  <2> QED BY <2>1
<1>6. X = Loss(Gain(W, s), old)
  <2>1. Vhs(k)[u] = s /\ Vhs(fun)[u] = old /\ \A v \in Functions \ {u} : Vhs(k)[v] = Vhs(fun)[v]
    BY <1>4 DEF Vhs
  <2> HIDE DEF old
  <2> QED BY <2>1, MoveFunction
<1>7. Balanced(d, X)
  <2>1. CASE old = s
    <3>1. X = W
      <4>1. \A v \in Functions : k[v].Vh = fun[v].Vh
        BY <1>4, <2>1
      <4>2. Vhs(k) = Vhs(fun)
        BY <4>1 DEF Vhs
      <4> QED BY <4>2
    <3> QED BY <1>2, <2>1, <3>1 DEF Point
  <2>2. CASE old # s
    <3>1. d = Add(Drop(g.count, old), s)
      BY <2>2 DEF Point
    <3> HIDE DEF W, X, d, old
    <3>2. Balanced(Drop(g.count, old), Loss(W, old))
      BY <1>2, <1>4, <1>5, DropBalanced DEF old
    <3>3. Loss(W, old)[s] >= 1
      <4>1. Loss(W, old)[s] = W[s] - Is(old, s) /\ W[s] \in Int
        BY <1>1, <1>5, MovedAt
      <4> QED BY <1>5, <2>2, <4>1 DEF Is
    <3>4. Drop(g.count, old)[s] >= 0
      BY <1>1, <3>2, <3>3, Living
    <3>5. Balanced(d, Gain(Loss(W, old), s))
      BY <1>1, <3>1, <3>2, <3>4, AddBalanced
    <3> QED BY <1>5, <1>6, <3>5, GainLoss
  <2> QED BY <2>1, <2>2
<1>8. ASSUME NEW Y \in FESpaces, d[Fresh(Y)] >= 0 PROVE g.pVh[Y] = Fresh(Y)
  <2>1. CASE Fresh(Y) = s
    <3>1. Y = V
      BY <1>1, <2>1, FreshType DEF s
    <3> QED BY <1>2, <3>1, <2>1
  <2>2. CASE Fresh(Y) # s
    <3>1. Fresh(Y) \in Spaces /\ Fresh(Y) \in Objects
      BY FreshType DEF Objects
    <3>2. d[Fresh(Y)] = X[Fresh(Y)] - 1 /\ g.count[Fresh(Y)] = W[Fresh(Y)] - 1
      <4> HIDE DEF X, W, d
      <4> QED BY <1>2, <1>7, <3>1 DEF Balanced
    <3>3. X[Fresh(Y)] = W[Fresh(Y)] + Is(s, Fresh(Y)) - Is(old, Fresh(Y))
      <4> HIDE DEF X, W, old
      <4> QED BY <1>5, <1>6, <3>1, MovedAt
    <3>4. Is(s, Fresh(Y)) = 0 /\ Is(old, Fresh(Y)) \in {0, 1} /\ W[Fresh(Y)] \in Int
      BY <1>5, <2>2, <3>1 DEF Is
    <3>5. g.count[Fresh(Y)] >= 0
      <4> HIDE DEF X, W, d, old
      <4> QED BY <1>8, <3>2, <3>3, <3>4
    <3> QED BY <1>2, <3>5
  <2> QED BY <2>1, <2>2
<1> QED BY <1>2, <1>3, <1>7, <1>8 DEF k, s, V

-----------------------------------------------------------------------------
(* The problem and its variables. *)

(* It has unknowns, as many test functions, and a space for each.          *)
LEMMA ProblemFacts ==
  ASSUME TypeOK
  PROVE  /\ Nb \in Nat /\ Nb >= 1 /\ prob.composite \in BOOLEAN
         /\ \A i \in 1 .. Nb : prob.unknowns[i] \in Functions /\ prob.tests[i] \in FESpaces
         /\ \A i \in 1 .. Nb : /\ Variable(i) = SpaceOf[prob.unknowns[i]]
                               /\ Variable(Nb + i) = prob.tests[i] /\ Nb + i \in 1 .. 2 * Nb
         /\ \A i \in 1 .. 2 * Nb : Variable(i) \in FESpaces
         /\ DOMAIN prob.unknowns = 1 .. Nb /\ DOMAIN data.pTh = 1 .. Nb
         /\ Looked \subseteq 1 .. Nb /\ 1 \in Looked
<1> DEFINE n == Nb
<1>1. /\ prob.unknowns \in Seq(Functions) \ {<<>>} /\ prob.composite \in BOOLEAN
      /\ prob.tests \in [DOMAIN prob.unknowns -> FESpaces]
  BY ProblemAssumption DEF TypeOK
<1>2. n \in Nat /\ n >= 1 /\ DOMAIN prob.unknowns = 1 .. n
  BY <1>1 DEF Nb
<1>3. \A i \in 1 .. n : prob.unknowns[i] \in Functions /\ prob.tests[i] \in FESpaces
  BY <1>1, <1>2
<1> HIDE DEF n
<1>4. \A i \in 1 .. n : n + i \in 1 .. 2 * n /\ ~(n + i <= n) /\ (n + i) - n = i /\ i <= n /\ i \in 1 .. 2 * n
  BY <1>2
<1>5. \A i \in 1 .. n : Variable(i) = SpaceOf[prob.unknowns[i]] /\ Variable(n + i) = prob.tests[i]
  BY <1>4 DEF Variable, n
<1>6. \A i \in 1 .. 2 * n : Variable(i) \in FESpaces
  <2> SUFFICES ASSUME NEW i \in 1 .. 2 * n PROVE Variable(i) \in FESpaces
    OBVIOUS
  <2>1. CASE i <= n
    <3>1. i \in 1 .. n
      BY <1>2, <2>1
    <3> QED BY <1>3, <1>5, <3>1, Facts
  <2>2. CASE ~(i <= n)
    <3>1. i - n \in 1 .. n /\ n + (i - n) = i
      BY <1>2, <2>2
    <3>2. Variable(n + (i - n)) = prob.tests[i - n]
      BY <1>5, <3>1
    <3> QED BY <1>3, <3>1, <3>2
  <2> QED BY <2>1, <2>2
<1>7. DOMAIN data.pTh = 1 .. Nb
  BY DEF TypeOK
<1>8. Looked \subseteq 1 .. n /\ 1 \in Looked
  BY <1>2 DEF Looked, n
<1> QED BY <1>1, <1>2, <1>3, <1>4, <1>5, <1>6, <1>7, <1>8 DEF n

(* In a call: the spaces it uses. *)
LEMMA SpacesNow ==
  ASSUME TypeOK, \A i \in 1 .. 2 * Nb : pVh[Variable(i)] = Fresh(Variable(i))
  PROVE  /\ \A i \in 1 .. Nb : /\ Space(i) = Fresh(Variable(i)) /\ Space(i) \in Spaces
                               /\ Space(i)[1] = Variable(i) /\ Space(i)[2] \in Meshes
                               /\ Test(i) = Fresh(Variable(Nb + i)) /\ Test(i) \in Spaces
                               /\ Test(i)[1] = Variable(Nb + i)
                               /\ pVh[Variable(i)] = Space(i) /\ pVh[Variable(Nb + i)] = Test(i)
         /\ Galerkin <=> SameSpaces
<1> SUFFICES ASSUME NEW i \in 1 .. Nb
             PROVE  /\ Space(i) = Fresh(Variable(i)) /\ Space(i) \in Spaces
                    /\ Space(i)[1] = Variable(i) /\ Space(i)[2] \in Meshes
                    /\ Test(i) = Fresh(Variable(Nb + i)) /\ Test(i) \in Spaces
                    /\ Test(i)[1] = Variable(Nb + i)
                    /\ pVh[Variable(i)] = Space(i) /\ pVh[Variable(Nb + i)] = Test(i)
                    /\ Space(i) = Test(i) <=> Variable(i) = Variable(Nb + i)
  BY DEF Galerkin, SameSpaces
<1>1. /\ Nb \in Nat /\ i \in 1 .. 2 * Nb /\ Nb + i \in 1 .. 2 * Nb
      /\ Variable(i) \in FESpaces /\ Variable(Nb + i) \in FESpaces
      /\ Variable(i) = SpaceOf[prob.unknowns[i]] /\ Variable(Nb + i) = prob.tests[i]
  BY ProblemFacts
<1>2. pVh[Variable(i)] = Fresh(Variable(i)) /\ pVh[Variable(Nb + i)] = Fresh(Variable(Nb + i))
  BY <1>1
<1>3. Space(i) = pVh[Variable(i)] /\ Test(i) = pVh[Variable(Nb + i)]
  BY <1>1 DEF Space, Test
<1>4. /\ Fresh(Variable(i)) \in Spaces /\ Fresh(Variable(i))[1] = Variable(i)
      /\ Fresh(Variable(Nb + i)) \in Spaces /\ Fresh(Variable(Nb + i))[1] = Variable(Nb + i)
  BY <1>1, FreshType
<1>5. Fresh(Variable(i))[2] \in Meshes
  BY <1>4, Facts
<1> QED BY <1>2, <1>3, <1>4, <1>5

(* A step of a call that leaves counters, meshes and functions alone.      *)
LEMMA Still ==
  ASSUME Inv, UNCHANGED <<prob, Th, made, number, count, pVh, fun>>,
         data'.Uh = data.Uh, data'.Vh = data.Vh
  PROVE  Counted' /\ Separate' /\ Named' /\ Followed' /\ Fit'
<1>1. Counted'
  BY DEF Inv, Counted, Weights, Balanced
<1>2. Separate' /\ Named' /\ Followed'
  BY DEF Inv, Separate, Named, Followed, Fresh
<1>3. Fit'
  BY DEF Inv, Fit, PetrovGalerkin, Nb, Variable, SizeOf
<1> QED BY <1>1, <1>2, <1>3

-----------------------------------------------------------------------------
(* The steps of a call: those that change no counter. *)

(* What an unchanged script leaves as it is. *)
LEMMA SameProblem ==
  ASSUME UNCHANGED <<prob, Th, pVh>>
  PROVE  /\ Nb' = Nb /\ NoReuse' = NoReuse /\ Looked' = Looked /\ OnOneMesh' = OnOneMesh
         /\ Takes' = Takes /\ Galerkin' = Galerkin
         /\ \A i : Variable(i)' = Variable(i) /\ Space(i)' = Space(i) /\ Test(i)' = Test(i)
                   /\ Fresh(Variable(i))' = Fresh(Variable(i))
BY DEF Nb, NoReuse, Looked, OnOneMesh, Takes, SameSpaces, Galerkin, Variable, Space, Test, Fresh

LEMMA CallInv == ASSUME Inv, NEW init \in BOOLEAN, Call(init) PROVE Inv'
<1>1. now = NoCall /\ now' = [at |-> "update", initmat |-> ~init, next |-> 1]
      /\ UNCHANGED <<prob, Th, made, number, count, pVh, fun, data>>
  BY DEF Call
<1>2. Counted' /\ Separate' /\ Named' /\ Followed' /\ Fit'
  BY <1>1, Still
<1>3. TypeOK /\ Nb \in Nat /\ Nb >= 1
  BY ProblemFacts DEF Inv
<1>4. TypeOK'
  BY <1>1, <1>3 DEF TypeOK, At, Nb
<1>5. Kept' /\ Recorded'
  BY <1>1 DEF Inv, Kept, Takes, SameSpaces, Variable, Nb, Recorded
<1>6. UpToDate'
  <2>1. now'.at = "update" /\ now'.next = 1 /\ Nb' = Nb
    BY <1>1 DEF Nb
  <2> QED BY <1>3, <2>1 DEF UpToDate
<1>7. Assembled' /\ Current'
  BY <1>1 DEF Inv, NoReuse, Assembled, Current, NoCall, HasMatrix, MeshesKept, OldMatrix, Nb
<1> QED BY <1>2, <1>4, <1>5, <1>6, <1>7 DEF Inv

LEMMA GuessInv == ASSUME Inv, Guess PROVE Inv'
<1>1. now.at = "guess" /\ now' = [now EXCEPT !.at = "matrix"]
      /\ UNCHANGED <<prob, Th, made, number, count, pVh, fun, data>>
  BY DEF Guess
<1>2. Counted' /\ Separate' /\ Named' /\ Followed' /\ Fit'
  BY <1>1, Still
<1>3. TypeOK
  BY DEF Inv
<1>4. TypeOK'
  BY <1>1, <1>3 DEF TypeOK, At, Nb
<1>5. now'.at = "matrix" /\ now'.initmat = now.initmat /\ now'.next = now.next
  BY <1>1, <1>3 DEF TypeOK
<1>6. Kept' /\ Recorded'
  BY <1>1, <1>5, SameProblem DEF Inv, Kept, Recorded
<1>7. UpToDate'
  BY <1>1, <1>5, SameProblem DEF Inv, UpToDate
<1>8. Assembled' /\ Current'
  BY <1>1, <1>5 DEF Inv, NoReuse, Assembled, Current, HasMatrix, MeshesKept, OldMatrix, Nb
<1> QED BY <1>2, <1>4, <1>6, <1>7, <1>8 DEF Inv

(* The new matrix is made for the meshes the problem keeps.                *)
LEMMA NewMatrixInv == ASSUME Inv, NewMatrix PROVE Inv'
<1>1. /\ now.at = "matrix" /\ now' = [now EXCEPT !.at = "assembly"]
      /\ data' = IF now.initmat THEN [data EXCEPT !.A = [of |-> MeshesOfCall, whole |-> FALSE, vsolver |-> FALSE]]
                 ELSE data
      /\ UNCHANGED <<prob, Th, made, number, count, pVh, fun>>
  BY DEF NewMatrix
<1>2. TypeOK /\ now.at \notin {"script", "update", "spaces", "crash"}
  BY <1>1 DEF Inv
<1>3. data'.Uh = data.Uh /\ data'.Vh = data.Vh /\ data'.pTh = data.pTh
  BY <1>1, <1>2 DEF TypeOK
<1>4. Counted' /\ Separate' /\ Named' /\ Followed' /\ Fit'
  BY <1>1, <1>3, Still
<1>5. now'.at = "assembly" /\ now'.initmat = now.initmat /\ now'.next = now.next
  BY <1>1, <1>2 DEF TypeOK
<1>6. Nb \in Nat /\ \A i \in 1 .. Nb : Space(i)[2] \in Meshes
  BY <1>2, ProblemFacts, SpacesNow DEF Inv, UpToDate
<1>7. MeshesOfCall = MeshesKept
  <2>1. CASE prob.composite
    <3>1. \A i \in 1 .. Nb : data.pTh[i] = Space(i)[2]
      BY <1>2, <2>1 DEF Inv, Recorded, Looked
    <3> QED BY <2>1, <3>1 DEF MeshesOfCall, MeshesKept
  <2>2. CASE ~prob.composite
    BY <2>2 DEF MeshesOfCall, MeshesKept
  <2> QED BY <2>1, <2>2
<1>8. MeshesOfCall \in Seq(Nat)
  <2>1. number \in [Meshes -> 0 .. made] /\ made \in Nat
    BY <1>2 DEF TypeOK
  <2>2. CASE prob.composite
    <3>1. \A i \in 1 .. Nb : number[Space(i)[2]] \in Nat
      BY <1>6, <2>1
    <3> QED BY <1>6, <2>2, <3>1 DEF MeshesOfCall
  <2>3. CASE ~prob.composite
    <3>1. Takes /\ data.pTh[1] = Space(1)[2] /\ Space(1)[2] \in Meshes
      BY <1>2, <1>6, <2>3, ProblemFacts DEF Inv, Recorded
    <3>2. data.Uh[2] \in Meshes /\ data.Vh[2] \in Meshes
      BY <3>1, Facts DEF Inv, Kept
    <3> QED BY <2>1, <2>3, <3>2 DEF MeshesOfCall
  <2> QED BY <2>2, <2>3
<1>9. TypeOK'
  <2>1. [of |-> MeshesOfCall, whole |-> FALSE, vsolver |-> FALSE] \in Matrices
    BY <1>8 DEF Matrices
  <2>2. data' \in [pTh : [1 .. Nb -> Meshes \cup {None}], Uh : Spaces \cup {None},
                   Vh : Spaces \cup {None}, A : Matrices \cup {None}]
    BY <1>1, <1>2, <2>1 DEF TypeOK
  <2>3. now' \in [at : At, initmat : BOOLEAN, next : 1 .. 2 * Nb]
    BY <1>1, <1>2 DEF TypeOK, At
  <2> QED BY <1>1, <1>2, <2>2, <2>3 DEF TypeOK, Nb
<1>10. Kept' /\ Recorded'
  BY <1>1, <1>2, <1>3, <1>5, SameProblem DEF Inv, Kept, Recorded
<1>11. UpToDate'
  BY <1>1, <1>5, SameProblem DEF Inv, UpToDate
<1>12. Assembled' /\ Current'
  <2>1. HasMatrix' = HasMatrix /\ MeshesKept' = MeshesKept /\ ~OldMatrix'
    BY <1>1, <1>3, <1>5 DEF HasMatrix, MeshesKept, OldMatrix, Nb
  <2>2. CASE now.initmat
    <3>1. data'.A = [of |-> MeshesOfCall, whole |-> FALSE, vsolver |-> FALSE]
      BY <1>1, <1>2, <2>2 DEF TypeOK
    <3>2. data'.A \in Matrices
      BY <1>8, <3>1 DEF Matrices
    <3>3. data'.A # None /\ data'.A.of = MeshesKept /\ data'.A.vsolver = FALSE
      <4>1. data'.A # None
        BY <3>2, Facts
      <4>2. data'.A.of = MeshesOfCall /\ data'.A.vsolver = FALSE
        BY <3>1
      <4> QED BY <1>7, <4>1, <4>2
    <3> QED BY <1>1, <1>3, <1>5, <2>1, <3>3, SameProblem DEF Inv, Assembled, Current
  <2>3. CASE ~now.initmat
    BY <1>1, <1>5, <2>1, <2>3, SameProblem DEF Inv, Assembled, Current, OldMatrix
  <2> QED BY <2>2, <2>3
<1> QED BY <1>4, <1>9, <1>10, <1>11, <1>12 DEF Inv

(* From the first guess on the problem keeps something to assemble on, and *)
(* so it has a matrix after NewMatrix.                                     *)
LEMMA MatrixThere ==
  ASSUME Inv, now.at \in {"assembly", "solver", "solve", "solved"}
  PROVE  HasMatrix /\ data.A \in Matrices /\ data.A # None
<1>1. TypeOK /\ now.at \notin {"script", "update", "spaces", "crash"}
  BY DEF Inv
<1>2. 1 \in 1 .. Nb /\ Space(1)[2] \in Meshes /\ data.pTh[1] = Space(1)[2]
  BY <1>1, ProblemFacts, SpacesNow DEF Inv, UpToDate, Recorded
<1>3. HasMatrix
  <2>1. CASE prob.composite
    BY <1>2, <2>1, Facts DEF HasMatrix
  <2>2. CASE ~prob.composite
    <3>1. Takes
      BY <1>1, <2>2 DEF Inv, Recorded
    <3>2. data.Uh = <<IF Nb = 1 THEN Variable(1) ELSE Product, data.pTh[1]>>
      BY <1>2, <3>1, Facts DEF Inv, Kept
    <3>3. data.Uh \in Spaces
      BY <1>1, <1>2, <3>2, ProblemFacts DEF Spaces
    <3> QED BY <2>2, <3>3, Facts DEF HasMatrix
  <2> QED BY <2>1, <2>2
<1> QED BY <1>1, <1>3 DEF Inv, Assembled, OldMatrix, TypeOK

LEMMA AssembleInv == ASSUME Inv, Assemble PROVE Inv'
<1>1. /\ now.at = "assembly" /\ now' = [now EXCEPT !.at = "solver"]
      /\ data' = IF now.initmat THEN [data EXCEPT !.A.whole = TRUE] ELSE data
      /\ UNCHANGED <<prob, Th, made, number, count, pVh, fun>>
  BY DEF Assemble
<1>2. TypeOK /\ now.at \notin {"script", "update", "spaces", "crash"}
  BY <1>1 DEF Inv
<1>3. data'.Uh = data.Uh /\ data'.Vh = data.Vh /\ data'.pTh = data.pTh
  BY <1>1, <1>2 DEF TypeOK
<1>4. Counted' /\ Separate' /\ Named' /\ Followed' /\ Fit'
  BY <1>1, <1>3, Still
<1>5. now'.at = "solver" /\ now'.initmat = now.initmat /\ now'.next = now.next
  BY <1>1, <1>2 DEF TypeOK
<1>6. HasMatrix /\ data.A \in Matrices /\ data.A # None
  BY <1>1, MatrixThere
<1>7. /\ data' \in [pTh : [1 .. Nb -> Meshes \cup {None}], Uh : Spaces \cup {None},
                    Vh : Spaces \cup {None}, A : Matrices]
      /\ data'.A.of = data.A.of /\ data'.A.vsolver = data.A.vsolver
      /\ now.initmat => data'.A.whole
      /\ ~now.initmat => data'.A.whole = data.A.whole
  <2>1. data \in [pTh : [1 .. Nb -> Meshes \cup {None}], Uh : Spaces \cup {None},
                  Vh : Spaces \cup {None}, A : Matrices]
    BY <1>2, <1>6 DEF TypeOK
  <2> QED BY <1>1, <1>6, <2>1 DEF Matrices
<1>8. TypeOK'
  <2>1. now' \in [at : At, initmat : BOOLEAN, next : 1 .. 2 * Nb]
    BY <1>1, <1>2 DEF TypeOK, At
  <2> QED BY <1>1, <1>2, <1>7, <2>1 DEF TypeOK, Nb
<1>9. Kept' /\ Recorded'
  BY <1>1, <1>2, <1>3, <1>5, SameProblem DEF Inv, Kept, Recorded
<1>10. UpToDate'
  BY <1>1, <1>5, SameProblem DEF Inv, UpToDate
<1>11. Assembled' /\ Current'
  <2>1. HasMatrix' = HasMatrix /\ MeshesKept' = MeshesKept /\ ~OldMatrix' /\ ~OldMatrix
    BY <1>1, <1>3, <1>5 DEF HasMatrix, MeshesKept, OldMatrix, Nb
  <2>2. data'.A # None
    BY <1>7, Facts
  <2> QED BY <1>1, <1>3, <1>5, <1>7, <2>1, <2>2, SameProblem DEF Inv, Assembled, Current
<1> QED BY <1>4, <1>8, <1>9, <1>10, <1>11 DEF Inv

(* A new solver is set for a matrix that was assembled to its end.         *)
LEMMA DefSolverInv == ASSUME Inv, DefSolver PROVE Inv'
<1>1. /\ now.at = "solver"
      /\ UNCHANGED <<prob, Th, made, number, count, pVh, fun>>
      /\ \/ /\ data' = IF now.initmat THEN [data EXCEPT !.A.vsolver = TRUE] ELSE data
            /\ now' = [now EXCEPT !.at = "solve"]
         \/ now' = [now EXCEPT !.at = "failed"] /\ data' = data
  BY DEF DefSolver
<1>2. TypeOK /\ now.at \notin {"script", "update", "spaces", "crash"}
  BY <1>1 DEF Inv
<1>3. data'.Uh = data.Uh /\ data'.Vh = data.Vh /\ data'.pTh = data.pTh
  BY <1>1, <1>2 DEF TypeOK
<1>4. Counted' /\ Separate' /\ Named' /\ Followed' /\ Fit'
  BY <1>1, <1>3, Still
<1>5. now'.at \in {"solve", "failed"} /\ now'.initmat = now.initmat /\ now'.next = now.next
  BY <1>1, <1>2 DEF TypeOK
<1>6. HasMatrix /\ data.A \in Matrices /\ data.A # None
  BY <1>1, MatrixThere
<1>7. /\ data' \in [pTh : [1 .. Nb -> Meshes \cup {None}], Uh : Spaces \cup {None},
                    Vh : Spaces \cup {None}, A : Matrices]
      /\ data'.A.of = data.A.of /\ data'.A.whole = data.A.whole
      /\ ~now.initmat => data'.A.vsolver = data.A.vsolver
      /\ now.initmat => data.A.whole
  <2>1. data \in [pTh : [1 .. Nb -> Meshes \cup {None}], Uh : Spaces \cup {None},
                  Vh : Spaces \cup {None}, A : Matrices]
    BY <1>2, <1>6 DEF TypeOK
  <2>2. now.initmat => data.A.whole
    BY <1>1 DEF Inv, Assembled
  <2>3. CASE data' = data
    BY <2>1, <2>2, <2>3
  <2>4. CASE data' = IF now.initmat THEN [data EXCEPT !.A.vsolver = TRUE] ELSE data
    BY <1>6, <2>1, <2>2, <2>4 DEF Matrices
  <2> QED BY <1>1, <2>3, <2>4
<1>8. TypeOK'
  <2>1. now' \in [at : At, initmat : BOOLEAN, next : 1 .. 2 * Nb]
    BY <1>1, <1>2 DEF TypeOK, At
  <2> QED BY <1>1, <1>2, <1>7, <2>1 DEF TypeOK, Nb
<1>9. Kept' /\ Recorded'
  BY <1>1, <1>2, <1>3, <1>5, SameProblem DEF Inv, Kept, Recorded
<1>10. UpToDate'
  BY <1>1, <1>5, SameProblem DEF Inv, UpToDate
<1>11. Assembled' /\ Current'
  <2>1. HasMatrix' = HasMatrix /\ MeshesKept' = MeshesKept /\ ~OldMatrix' /\ ~OldMatrix
    BY <1>1, <1>3, <1>5 DEF HasMatrix, MeshesKept, OldMatrix, Nb
  <2>2. data'.A # None
    BY <1>7, Facts
  <2> QED BY <1>1, <1>3, <1>5, <1>7, <2>1, <2>2, SameProblem DEF Inv, Assembled, Current
<1> QED BY <1>4, <1>8, <1>9, <1>10, <1>11 DEF Inv

LEMMA SolveInv == ASSUME Inv, Solve PROVE Inv'
<1>1. now.at = "solve" /\ UNCHANGED <<prob, Th, made, number, count, pVh, fun, data>>
  BY DEF Solve
<1>2. TypeOK /\ now.at \notin {"script", "update", "spaces", "crash"}
  BY <1>1 DEF Inv
<1>3. PICK r \in {"solved", "failed"} : (r = "solved" => data.A.vsolver) /\ now' = [now EXCEPT !.at = r]
  BY DEF Solve
<1>4. Counted' /\ Separate' /\ Named' /\ Followed' /\ Fit'
  BY <1>1, Still
<1>5. now'.at = r /\ now'.initmat = now.initmat /\ now'.next = now.next
  BY <1>2, <1>3 DEF TypeOK
<1>6. TypeOK'
  BY <1>1, <1>2, <1>3 DEF TypeOK, At, Nb
<1>7. Kept' /\ Recorded'
  BY <1>1, <1>2, <1>5, SameProblem DEF Inv, Kept, Recorded
<1>8. UpToDate'
  BY <1>1, <1>5, SameProblem DEF Inv, UpToDate
<1>9. Assembled' /\ Current'
  BY <1>1, <1>3, <1>5 DEF Inv, NoReuse, Assembled, Current, HasMatrix, MeshesKept, OldMatrix, Nb
<1> QED BY <1>4, <1>6, <1>7, <1>8, <1>9 DEF Inv

(* A call that raises ends: the problem keeps what it has.                 *)
LEMMA AssemblyFailsInv == ASSUME Inv, AssemblyFails PROVE Inv'
<1>1. now.at = "assembly" /\ now' = NoCall /\ UNCHANGED <<prob, Th, made, number, count, pVh, fun, data>>
  BY DEF AssemblyFails
<1>2. TypeOK /\ Nb \in Nat /\ Nb >= 1
  BY ProblemFacts DEF Inv
<1>3. Counted' /\ Separate' /\ Named' /\ Followed' /\ Fit'
  BY <1>1, Still
<1>4. now'.at = "script" /\ now'.initmat = FALSE /\ now'.next = 1 /\ NoCall' = NoCall /\ Nb' = Nb
  BY <1>1 DEF NoCall, Nb
<1>5. TypeOK'
  BY <1>1, <1>2 DEF TypeOK, At, Nb, NoCall
<1>6. Kept' /\ Recorded'
  BY <1>1, <1>4, SameProblem DEF Inv, Kept, Recorded
<1>7. UpToDate'
  BY <1>1, <1>2, <1>4 DEF UpToDate
<1>8. Assembled' /\ Current'
  BY <1>1, <1>4 DEF Inv, NoReuse, Assembled, Current, HasMatrix, MeshesKept, OldMatrix, Nb
<1> QED BY <1>3, <1>5, <1>6, <1>7, <1>8 DEF Inv

(* Such a problem keeps no spaces: its spaces never were those of a call.  *)
LEMMA CrashInv == ASSUME Inv, Crash PROVE Inv'
<1>1. /\ now.at = "spaces" /\ ~prob.composite /\ OnOneMesh /\ ~MeshChanged /\ data.Uh = None
      /\ now' = [now EXCEPT !.at = "crash"]
      /\ UNCHANGED <<prob, Th, made, number, count, pVh, fun, data>>
  BY DEF Crash
<1>2. TypeOK
  BY DEF Inv
<1>3. Counted' /\ Separate' /\ Named' /\ Followed' /\ Fit'
  BY <1>1, Still
<1>4. now'.at = "crash" /\ now'.initmat = now.initmat /\ now'.next = now.next
  BY <1>1, <1>2 DEF TypeOK
<1>5. ~Takes
  <2>1. 1 \in 1 .. Nb /\ 1 \in Looked /\ Space(1)[2] \in Meshes
    BY <1>1, <1>2, ProblemFacts, SpacesNow DEF Inv, UpToDate
  <2>2. data.pTh[1] \in Meshes
    BY <1>1, <2>1 DEF MeshChanged
  <2>3. Takes => data.Uh \in Spaces
    <3>1. Takes => data.Uh = <<IF Nb = 1 THEN Variable(1) ELSE Product, data.pTh[1]>>
      BY <2>2, Facts DEF Inv, Kept
    <3>2. 1 \in 1 .. 2 * Nb /\ Variable(1) \in FESpaces
      BY <1>2, ProblemFacts
    <3> QED BY <2>2, <3>1, <3>2 DEF Spaces
  <2> QED BY <1>1, <2>3, Facts
<1>6. TypeOK'
  BY <1>1, <1>2 DEF TypeOK, At, Nb
<1>7. Kept' /\ Recorded'
  BY <1>1, <1>4, <1>5, SameProblem DEF Inv, Kept, Recorded
<1>8. UpToDate'
  BY <1>1, <1>4, SameProblem DEF Inv, UpToDate
<1>9. Assembled' /\ Current'
  BY <1>1, <1>4 DEF Inv, NoReuse, Assembled, Current, HasMatrix, MeshesKept, OldMatrix, Nb
<1> QED BY <1>3, <1>6, <1>7, <1>8, <1>9 DEF Inv

(* A refused problem may have taken the address of the mesh, and nothing   *)
(* else.                                                                   *)
LEMMA RefuseInv == ASSUME Inv, Refuse PROVE Inv'
<1>1. /\ now.at = "spaces" /\ now' = NoCall /\ UNCHANGED <<prob, Th, made, number, count, pVh, fun>>
      /\ \/ UNCHANGED data
         \/ /\ ~prob.composite /\ Nb > 1 /\ ~Galerkin
            /\ data' = [data EXCEPT !.pTh = [i \in DOMAIN @ |-> Space(i)[2]]]
  BY DEF Refuse
<1>2. TypeOK /\ Nb \in Nat /\ Nb >= 1 /\ DOMAIN data.pTh = 1 .. Nb
  BY ProblemFacts DEF Inv
<1>3. \A i \in 1 .. Nb : Space(i)[2] \in Meshes
  BY <1>1, <1>2, SpacesNow DEF Inv, UpToDate
<1>4. Galerkin <=> SameSpaces
  BY <1>1, <1>2, SpacesNow DEF Inv, UpToDate
<1>5. /\ data' \in [pTh : [1 .. Nb -> Meshes \cup {None}], Uh : Spaces \cup {None},
                    Vh : Spaces \cup {None}, A : Matrices \cup {None}]
      /\ data'.Uh = data.Uh /\ data'.Vh = data.Vh /\ data'.A = data.A
      /\ data' = data \/ (~prob.composite /\ ~Takes)
  <2>1. CASE UNCHANGED data
    BY <1>2, <2>1 DEF TypeOK
  <2>2. CASE /\ ~prob.composite /\ Nb > 1 /\ ~Galerkin
             /\ data' = [data EXCEPT !.pTh = [i \in DOMAIN @ |-> Space(i)[2]]]
    <3>1. [i \in DOMAIN data.pTh |-> Space(i)[2]] \in [1 .. Nb -> Meshes \cup {None}]
      BY <1>2, <1>3
    <3>2. ~Takes
      BY <1>2, <1>4, <2>2 DEF Takes
    <3> QED BY <1>2, <2>2, <3>1, <3>2 DEF TypeOK
  <2> QED BY <1>1, <2>1, <2>2
<1>6. Counted' /\ Separate' /\ Named' /\ Followed' /\ Fit'
  BY <1>1, <1>5, Still
<1>7. now'.at = "script" /\ now'.initmat = FALSE /\ now'.next = 1 /\ NoCall' = NoCall /\ Nb' = Nb
  BY <1>1 DEF NoCall, Nb
<1>8. TypeOK'
  BY <1>1, <1>2, <1>5 DEF TypeOK, At, Nb, NoCall
<1>9. Kept' /\ Recorded'
  <2>1. Kept'
    BY <1>1, <1>5, SameProblem DEF Inv, Kept
  <2> QED BY <1>7, <2>1 DEF Recorded
<1>10. UpToDate'
  BY <1>1, <1>2, <1>7 DEF UpToDate
<1>11. Assembled' /\ Current'
  <2>1. ~OldMatrix /\ ~OldMatrix'
    BY <1>1, <1>7 DEF OldMatrix
  <2>2. CASE data' = data
    BY <1>1, <1>7, <2>1, <2>2 DEF Inv, NoReuse, Assembled, Current, HasMatrix, MeshesKept, Nb
  <2>3. CASE ~prob.composite /\ ~Takes
    <3>1. ~HasMatrix /\ ~HasMatrix'
      BY <1>1, <1>5, <2>3 DEF Inv, Kept, HasMatrix
    <3> QED BY <1>1, <1>5, <1>7, <2>3, <3>1 DEF Inv, Assembled, Current
  <2> QED BY <1>5, <2>2, <2>3
<1> QED BY <1>6, <1>8, <1>9, <1>10, <1>11 DEF Inv

-----------------------------------------------------------------------------
(* The steps that use a space or give values.                              *)

(* Counters and owners agree: what TypeOK says of counters.                *)
LEMMA CountType ==
  ASSUME NEW c, NEW w, Balanced(c, w)
  PROVE  DOMAIN c = Objects /\ \A o \in Objects : c[o] \in Int /\ c[o] >= -1
BY Living DEF Balanced

(* The space of V is used: all but UpToDate is as it was.                  *)
LEMMA UseKeeps ==
  ASSUME Inv, NEW V \in FESpaces, UNCHANGED <<prob, Th, made, number, fun, data>>,
         count' = operatorFESpace(Now, V).count, pVh' = operatorFESpace(Now, V).pVh
  PROVE  /\ pVh' \in [FESpaces -> Spaces \cup {None}] /\ pVh'[V] = Fresh(V)
         /\ \A X \in FESpaces \ {V} : pVh'[X] = pVh[X]
         /\ DOMAIN count' = Objects /\ \A o \in Objects : count'[o] \in Int /\ count'[o] >= -1
         /\ Counted' /\ Separate' /\ Named' /\ Followed' /\ Kept' /\ Fit'
<1>1. /\ pVh' \in [FESpaces -> Spaces \cup {None}] /\ pVh'[V] = Fresh(V)
      /\ \A X \in FESpaces \ {V} : pVh'[X] = pVh[X]
      /\ Balanced(count', Weights(Th, pVh', Vhs(fun), data.Uh, data.Vh))
      /\ \A X \in FESpaces : count'[Fresh(X)] >= 0 => pVh'[X] = Fresh(X)
      /\ \A X \in FESpaces : pVh'[X] # None => pVh'[X][1] = X
  BY OpenSpace DEF Inv
<1>2. Counted'
  BY <1>1 DEF Counted, Balanced, Weights
<1>3. Separate' /\ Named' /\ Followed' /\ Kept' /\ Fit'
  BY <1>1 DEF Inv, Separate, Named, Followed, Fresh, Kept, Takes, SameSpaces, Nb, Variable, Fit,
     PetrovGalerkin, SizeOf
<1>4. DOMAIN count' = Objects /\ \A o \in Objects : count'[o] \in Int /\ count'[o] >= -1
  BY <1>1, CountType
<1> QED BY <1>1, <1>2, <1>3, <1>4

LEMMA newVhInv == ASSUME Inv, newVh PROVE Inv'
<1> DEFINE V == Variable(now.next)
<1>1. /\ now.at = "update" /\ UNCHANGED <<prob, Th, made, number, fun, data>>
      /\ count' = operatorFESpace(Now, V).count /\ pVh' = operatorFESpace(Now, V).pVh
      /\ now' = IF now.next < 2 * Nb THEN [now EXCEPT !.next = @ + 1]
                                      ELSE [now EXCEPT !.at = "spaces", !.next = 1]
  BY DEF newVh
<1>2. TypeOK /\ Nb \in Nat /\ Nb >= 1 /\ now.next \in 1 .. 2 * Nb /\ V \in FESpaces
      /\ \A i \in 1 .. 2 * Nb : Variable(i) \in FESpaces
  <2>1. TypeOK /\ now.next \in 1 .. 2 * Nb
    BY DEF Inv, TypeOK
  <2> QED BY <2>1, ProblemFacts
<1>3. now \in [at : At, initmat : BOOLEAN, next : 1 .. 2 * Nb]
  BY <1>2 DEF TypeOK
<1> HIDE DEF V
<1>4. /\ pVh' \in [FESpaces -> Spaces \cup {None}] /\ pVh'[V] = Fresh(V)
      /\ \A X \in FESpaces \ {V} : pVh'[X] = pVh[X]
      /\ DOMAIN count' = Objects /\ \A o \in Objects : count'[o] \in Int /\ count'[o] >= -1
      /\ Counted' /\ Separate' /\ Named' /\ Followed' /\ Kept' /\ Fit'
  BY <1>1, <1>2, UseKeeps
<1>5. \/ now.next < 2 * Nb /\ now'.at = "update" /\ now'.next = now.next + 1
      \/ now.next = 2 * Nb /\ now'.at = "spaces" /\ now'.next = 1
  BY <1>1, <1>2, <1>3
<1>6. now' \in [at : At, initmat : BOOLEAN, next : 1 .. 2 * Nb]
  <2>1. now.next < 2 * Nb => now.next + 1 \in 1 .. 2 * Nb
    BY <1>2
  <2>2. 1 \in 1 .. 2 * Nb
    BY <1>2
  <2> QED BY <1>1, <1>3, <2>1, <2>2 DEF At
<1>7. Nb' = Nb /\ \A i : Variable(i)' = Variable(i)
  BY <1>1 DEF Nb, Variable
<1>8. TypeOK'
  BY <1>1, <1>2, <1>4, <1>6, <1>7 DEF TypeOK
<1>9. \A i \in 1 .. now.next : pVh'[Variable(i)] = Fresh(Variable(i))
  <2> SUFFICES ASSUME NEW i \in 1 .. now.next PROVE pVh'[Variable(i)] = Fresh(Variable(i))
    OBVIOUS
  <2>1. CASE Variable(i) = V
    BY <1>4, <2>1
  <2>2. CASE Variable(i) # V
    <3>1. i \in 1 .. now.next - 1 /\ i \in 1 .. 2 * Nb
      BY <1>2, <2>2 DEF V
    <3>2. pVh[Variable(i)] = Fresh(Variable(i)) /\ Variable(i) \in FESpaces
      BY <1>1, <1>2, <3>1 DEF Inv, UpToDate
    <3> QED BY <1>4, <2>2, <3>2
  <2> QED BY <2>1, <2>2
<1>10. UpToDate'
  <2>1. \A i : Fresh(Variable(i))' = Fresh(Variable(i))
    BY <1>1, <1>7 DEF Fresh
  <2>2. CASE now.next < 2 * Nb /\ now'.at = "update" /\ now'.next = now.next + 1
    <3>1. now'.next - 1 = now.next
      BY <1>2, <2>2
    <3> QED BY <1>7, <1>9, <2>1, <2>2, <3>1 DEF UpToDate
  <2>3. CASE now.next = 2 * Nb /\ now'.at = "spaces" /\ now'.next = 1
    BY <1>2, <1>7, <1>9, <2>1, <2>3 DEF UpToDate
  <2> QED BY <1>5, <2>2, <2>3
<1>11. Recorded'
  BY <1>5 DEF Recorded
<1>12. Assembled' /\ Current'
  <2>1. now'.at \notin {"guess", "matrix", "solver", "solved"}
    BY <1>5
  <2> QED BY <1>1, <2>1 DEF Inv, NoReuse, Assembled, Current, HasMatrix, MeshesKept, OldMatrix, Nb
<1> QED BY <1>4, <1>8, <1>10, <1>11, <1>12 DEF Inv

(* Between two calls nothing is required of the spaces.                    *)
LEMMA Idle ==
  ASSUME Inv, now = NoCall, UNCHANGED <<prob, now>>
  PROVE  /\ UpToDate' /\ Recorded'
         /\ UNCHANGED <<number, data>> => Assembled' /\ Current'
<1>1. now' = NoCall' /\ now'.at = "script" /\ now'.next = 1 /\ now.at = "script" /\ Nb' = Nb
  BY DEF NoCall, Nb
<1>2. Nb >= 1 /\ Nb \in Nat
  BY ProblemFacts DEF Inv
<1>3. UpToDate' /\ Recorded'
  BY <1>1, <1>2 DEF UpToDate, Recorded
<1>4. UNCHANGED <<number, data>> => Assembled' /\ Current'
  BY <1>1 DEF Inv, NoReuse, Assembled, Current, HasMatrix, MeshesKept, OldMatrix, Nb
<1> QED BY <1>3, <1>4

LEMMA UseSpaceInv == ASSUME Inv, NEW V \in FESpaces, UseSpace(V) PROVE Inv'
<1>1. /\ now = NoCall /\ UNCHANGED <<prob, Th, made, number, fun, data, now>>
      /\ count' = operatorFESpace(Now, V).count /\ pVh' = operatorFESpace(Now, V).pVh
  BY DEF UseSpace
<1>2. /\ pVh' \in [FESpaces -> Spaces \cup {None}]
      /\ DOMAIN count' = Objects /\ \A o \in Objects : count'[o] \in Int /\ count'[o] >= -1
      /\ Counted' /\ Separate' /\ Named' /\ Followed' /\ Kept' /\ Fit'
  BY <1>1, UseKeeps
<1>3. TypeOK'
  BY <1>1, <1>2 DEF Inv, TypeOK, Nb
<1>4. UpToDate' /\ Recorded' /\ Assembled' /\ Current'
  BY <1>1, Idle
<1> QED BY <1>2, <1>3, <1>4 DEF Inv

(* The size of a space is one, and those of spaces of now are known.       *)
LEMMA SizeType ==
  ASSUME TypeOK, NEW s \in Spaces
  PROVE  SizeOf(s) \in (FESpaces \cup {Product}) \X Nat
<1>1. s[1] \in FESpaces \cup {Product} /\ s[2] \in Meshes
  BY Facts
<1>2. number[s[2]] \in Nat
  BY <1>1 DEF TypeOK
<1> QED BY <1>1, <1>2 DEF SizeOf

(* Function u takes values of size xx. *)
LEMMA GiveKeeps ==
  ASSUME Inv, NEW u \in Functions, NEW xx \in (FESpaces \cup {Product}) \X Nat,
         ~PetrovGalerkin => xx = SizeOf(Fresh(SpaceOf[u])),
         UNCHANGED <<prob, Th, made, number, data>>,
         count' = SetValues(Now, fun, u, xx).count, pVh' = SetValues(Now, fun, u, xx).pVh,
         fun' = SetValues(Now, fun, u, xx).fun
  PROVE  /\ pVh' \in [FESpaces -> Spaces \cup {None}] /\ pVh'[SpaceOf[u]] = Fresh(SpaceOf[u])
         /\ \A X \in FESpaces \ {SpaceOf[u]} : pVh'[X] = pVh[X]
         /\ fun' \in [Functions -> [Vh : Spaces \cup {None},
                                    xx : ((FESpaces \cup {Product}) \X Nat) \cup {None}]]
         /\ DOMAIN count' = Objects /\ \A o \in Objects : count'[o] \in Int /\ count'[o] >= -1
         /\ Counted' /\ Separate' /\ Named' /\ Followed' /\ Kept' /\ Fit'
<1> DEFINE s == Fresh(SpaceOf[u])
<1>1. /\ pVh' \in [FESpaces -> Spaces \cup {None}] /\ pVh'[SpaceOf[u]] = s
      /\ \A X \in FESpaces \ {SpaceOf[u]} : pVh'[X] = pVh[X]
      /\ fun' = [fun EXCEPT ![u] = [Vh |-> s, xx |-> xx]]
      /\ Balanced(count', Weights(Th, pVh', Vhs(fun'), data.Uh, data.Vh))
      /\ \A X \in FESpaces : count'[Fresh(X)] >= 0 => pVh'[X] = Fresh(X)
      /\ \A X \in FESpaces : pVh'[X] # None => pVh'[X][1] = X
  BY SetValuesOK DEF Inv
<1>2. s \in Spaces /\ s[1] = SpaceOf[u] /\ s # None
  BY Facts, FreshType DEF Inv
<1> HIDE DEF s
<1>3. /\ fun' \in [Functions -> [Vh : Spaces \cup {None}, xx : ((FESpaces \cup {Product}) \X Nat) \cup {None}]]
      /\ fun'[u] = [Vh |-> s, xx |-> xx] /\ \A v \in Functions \ {u} : fun'[v] = fun[v]
  BY <1>1, <1>2 DEF Inv, TypeOK
<1>4. Counted'
  <2>1. Balanced(count', Weights(Th', pVh', Vhs(fun'), data'.Uh, data'.Vh))
    BY <1>1
  <2> QED BY <2>1 DEF Counted
<1>5. Separate' /\ Followed' /\ Kept'
  BY <1>1 DEF Inv, Separate, Followed, Fresh, Kept, Takes, SameSpaces, Nb, Variable
<1>6. Named'
  BY <1>1, <1>2, <1>3 DEF Inv, Named
<1>7. Fit'
  <2>1. PetrovGalerkin' = PetrovGalerkin /\ \A r : SizeOf(r)' = SizeOf(r)
    BY DEF PetrovGalerkin, Nb, Variable, SizeOf
  <2>2. ~PetrovGalerkin => xx = SizeOf(s)
    BY DEF s
  <2> QED BY <1>2, <1>3, <2>1, <2>2 DEF Inv, Fit
<1>8. DOMAIN count' = Objects /\ \A o \in Objects : count'[o] \in Int /\ count'[o] >= -1
  BY <1>1, CountType
<1> QED BY <1>1, <1>3, <1>4, <1>5, <1>6, <1>7, <1>8 DEF s

LEMMA AssignInv == ASSUME Inv, NEW u \in Functions, Assign(u) PROVE Inv'
<1> DEFINE xx == SizeOf(operatorFESpace(Now, SpaceOf[u]).pVh[SpaceOf[u]])
<1>1. /\ now = NoCall /\ UNCHANGED <<prob, Th, made, number, data, now>>
      /\ count' = SetValues(Now, fun, u, xx).count /\ pVh' = SetValues(Now, fun, u, xx).pVh
      /\ fun' = SetValues(Now, fun, u, xx).fun
  BY DEF Assign
<1>2. SpaceOf[u] \in FESpaces /\ TypeOK
  BY Facts DEF Inv
<1>3. operatorFESpace(Now, SpaceOf[u]).pVh[SpaceOf[u]] = Fresh(SpaceOf[u])
  BY <1>2, OpenSpace DEF Inv
<1>4. xx = SizeOf(Fresh(SpaceOf[u])) /\ xx \in (FESpaces \cup {Product}) \X Nat
  <2>1. xx = SizeOf(Fresh(SpaceOf[u]))
    BY <1>3
  <2>2. SizeOf(Fresh(SpaceOf[u])) \in (FESpaces \cup {Product}) \X Nat
    BY <1>2, FreshType, SizeType
  <2> QED BY <2>1, <2>2
<1> HIDE DEF xx
<1>5. /\ pVh' \in [FESpaces -> Spaces \cup {None}]
      /\ fun' \in [Functions -> [Vh : Spaces \cup {None}, xx : ((FESpaces \cup {Product}) \X Nat) \cup {None}]]
      /\ DOMAIN count' = Objects /\ \A o \in Objects : count'[o] \in Int /\ count'[o] >= -1
      /\ Counted' /\ Separate' /\ Named' /\ Followed' /\ Kept' /\ Fit'
  BY <1>1, <1>4, GiveKeeps
<1>6. TypeOK'
  BY <1>1, <1>2, <1>5 DEF TypeOK, Nb
<1>7. UpToDate' /\ Recorded' /\ Assembled' /\ Current'
  BY <1>1, Idle
<1> QED BY <1>5, <1>6, <1>7 DEF Inv

(* The spaces the problem keeps, from the first guess on. *)
LEMMA SpacesKept ==
  ASSUME Inv, now.at \notin {"script", "update", "spaces", "crash"}, ~prob.composite
  PROVE  /\ Takes /\ OnOneMesh /\ data.pTh[1] = Space(1)[2] /\ Space(1)[2] \in Meshes
         /\ data.Uh = <<IF Nb = 1 THEN Variable(1) ELSE Product, Space(1)[2]>> /\ data.Uh \in Spaces
         /\ data.Vh = <<IF Nb = 1 THEN Variable(2) ELSE Product, Space(1)[2]>> /\ data.Vh \in Spaces
<1>1. TypeOK /\ Nb \in Nat /\ Nb >= 1 /\ 1 \in 1 .. Nb
  BY ProblemFacts DEF Inv
<1>2. Takes /\ OnOneMesh /\ data.pTh[1] = Space(1)[2]
  BY <1>1, ProblemFacts DEF Inv, Recorded
<1>3. Space(1)[2] \in Meshes
  BY <1>1, SpacesNow DEF Inv, UpToDate
<1>4. /\ data.Uh = <<IF Nb = 1 THEN Variable(1) ELSE Product, Space(1)[2]>>
      /\ data.Vh = <<IF Nb = 1 THEN Variable(2) ELSE Product, Space(1)[2]>>
  BY <1>2, <1>3, Facts DEF Inv, Kept
<1>5. 1 \in 1 .. 2 * Nb /\ 2 \in 1 .. 2 * Nb
  BY <1>1
<1>6. Variable(1) \in FESpaces /\ Variable(2) \in FESpaces
  BY <1>1, <1>5, ProblemFacts
<1>7. data.Uh \in Spaces /\ data.Vh \in Spaces
  BY <1>3, <1>4, <1>6 DEF Spaces
<1> QED BY <1>2, <1>3, <1>4, <1>7

LEMMA DispatchSolutionInv == ASSUME Inv, DispatchSolution PROVE Inv'
<1> DEFINE i == now.next
           u == prob.unknowns[now.next]
           xx == SizeOfX(now.next)
<1>1. /\ now.at \in {"solved", "failed", "dispatch"} /\ UNCHANGED <<prob, Th, made, number, data>>
      /\ count' = SetValues(Now, fun, u, xx).count /\ pVh' = SetValues(Now, fun, u, xx).pVh
      /\ fun' = SetValues(Now, fun, u, xx).fun
      /\ now' = IF i < Nb THEN [now EXCEPT !.at = "dispatch", !.next = @ + 1] ELSE NoCall
  BY DEF DispatchSolution
<1>2. TypeOK /\ Nb \in Nat /\ Nb >= 1 /\ now \in [at : At, initmat : BOOLEAN, next : 1 .. 2 * Nb]
  BY ProblemFacts DEF Inv, TypeOK
<1>3. i \in 1 .. Nb
  BY <1>1, <1>2 DEF Inv, UpToDate
<1>4. u \in Functions /\ SpaceOf[u] = Variable(i) /\ Variable(i) \in FESpaces
  BY <1>2, <1>3, ProblemFacts
<1>5. /\ \A j \in 1 .. 2 * Nb : pVh[Variable(j)] = Fresh(Variable(j))
      /\ Space(i) = Fresh(Variable(i)) /\ Space(i) \in Spaces
  BY <1>1, <1>2, <1>3, SpacesNow DEF Inv, UpToDate
<1>6. xx \in (FESpaces \cup {Product}) \X Nat /\ (~PetrovGalerkin => xx = SizeOf(Fresh(SpaceOf[u])))
  <2>1. CASE Nb = 1 /\ ~prob.composite
    <3>1. xx = SizeOf(data.Vh) /\ i = 1
      BY <1>3, <2>1 DEF SizeOfX
    <3>2. data.Vh = <<Variable(2), Space(1)[2]>> /\ data.Vh \in Spaces
      BY <1>1, <2>1, SpacesKept
    <3>3. ~PetrovGalerkin => Variable(2) = Variable(1)
      BY <2>1 DEF PetrovGalerkin
    <3>4. Fresh(Variable(1)) = <<Variable(1), Space(1)[2]>>
      BY <1>5, <3>1 DEF Fresh
    <3>5. ~PetrovGalerkin => data.Vh = Fresh(SpaceOf[u])
      BY <1>4, <3>1, <3>2, <3>3, <3>4
    <3> HIDE DEF xx
    <3> QED BY <1>2, <3>1, <3>2, <3>5, SizeType
  <2>2. CASE ~(Nb = 1 /\ ~prob.composite)
    <3>1. xx = SizeOf(Fresh(SpaceOf[u])) /\ Fresh(SpaceOf[u]) \in Spaces
      BY <1>4, <1>5, <2>2 DEF SizeOfX
    <3> HIDE DEF xx
    <3> QED BY <1>2, <3>1, SizeType
  <2> QED BY <2>1, <2>2
<1> HIDE DEF xx, u
<1>7. /\ pVh' \in [FESpaces -> Spaces \cup {None}] /\ pVh'[Variable(i)] = Fresh(Variable(i))
      /\ \A X \in FESpaces \ {Variable(i)} : pVh'[X] = pVh[X]
      /\ fun' \in [Functions -> [Vh : Spaces \cup {None}, xx : ((FESpaces \cup {Product}) \X Nat) \cup {None}]]
      /\ DOMAIN count' = Objects /\ \A o \in Objects : count'[o] \in Int /\ count'[o] >= -1
      /\ Counted' /\ Separate' /\ Named' /\ Followed' /\ Kept' /\ Fit'
  BY <1>1, <1>4, <1>6, GiveKeeps
<1>8. pVh' = pVh
  <2>1. pVh[Variable(i)] = Fresh(Variable(i))
    BY <1>2, <1>3, <1>5
  <2>2. pVh \in [FESpaces -> Spaces \cup {None}]
    BY <1>2 DEF TypeOK
  <2>3. \A X \in FESpaces : pVh'[X] = pVh[X]
    BY <1>7, <2>1
  <2> QED BY <1>7, <2>2, <2>3
<1>9. \/ i < Nb /\ now'.at = "dispatch" /\ now'.next = i + 1 /\ i + 1 \in 1 .. Nb
      \/ now' = NoCall /\ now'.at = "script" /\ now'.next = 1
  <2>1. CASE i < Nb
    <3>1. i + 1 \in 1 .. Nb
      BY <1>2, <1>3, <2>1
    <3> QED BY <1>1, <1>2, <2>1, <3>1
  <2>2. CASE ~(i < Nb)
    BY <1>1, <2>2 DEF NoCall
  <2> QED BY <2>1, <2>2
<1>10. now' \in [at : At, initmat : BOOLEAN, next : 1 .. 2 * Nb]
  <2>1. i + 1 \in 1 .. Nb => i + 1 \in 1 .. 2 * Nb
    BY <1>2
  <2>2. 1 \in 1 .. 2 * Nb
    BY <1>2
  <2> QED BY <1>1, <1>2, <1>9, <2>1, <2>2 DEF At, NoCall
<1>11. TypeOK'
  BY <1>1, <1>2, <1>7, <1>10 DEF TypeOK, Nb
<1>12. UpToDate'
  <2>1. /\ \A j \in 1 .. 2 * Nb' : pVh'[Variable(j)'] = Fresh(Variable(j))'
        /\ Nb' = Nb /\ NoCall' = NoCall
    BY <1>1, <1>5, <1>8, SameProblem DEF NoCall
  <2>2. ~(now'.next > Nb)
    BY <1>2, <1>9
  <2> QED BY <1>9, <2>1, <2>2 DEF UpToDate
<1>13. Recorded'
  <2>1. now.at \notin {"script", "update", "spaces", "crash"} /\ now'.at # "crash"
    BY <1>1, <1>9
  <2> QED BY <1>1, <1>8, <2>1, SameProblem DEF Inv, Recorded
<1>14. Assembled' /\ Current'
  <2>1. /\ now'.at \notin {"guess", "matrix", "solver", "solved"}
        /\ now.at \notin {"guess", "matrix", "solver"}
    BY <1>1, <1>9
  <2> QED BY <1>1, <2>1 DEF Inv, NoReuse, Assembled, Current, HasMatrix, MeshesKept, OldMatrix, Nb
<1> QED BY <1>7, <1>11, <1>12, <1>13, <1>14 DEF Inv

-----------------------------------------------------------------------------
(* The steps that change what has an owner. *)

(* A pointer of the problem goes to a living space.                        *)
LEMMA PointBalanced ==
  ASSUME NEW c, NEW w, Balanced(c, w), NEW old \in Objects \cup {None}, NEW s \in Spaces,
         old # None => w[old] >= 1, w[s] >= 1
  PROVE  Balanced(Point(c, old, s), Loss(Gain(w, s), old))
<1>1. s \in Objects /\ w \in [Objects -> Nat] /\ w \in [Objects -> Int]
  <2>1. w \in [Objects -> Nat] /\ \A o \in Objects : w[o] \in Int
    BY DEF Balanced
  <2> QED BY <2>1 DEF Objects
<1>2. CASE old = s
  <2> DEFINE v == Loss(Gain(w, s), s)
  <2>1. \A o \in Objects : v[o] = w[o]
    <3>1. \A o \in Objects : v[o] = w[o] + Is(s, o) - Is(s, o) /\ w[o] \in Int /\ Is(s, o) \in Int
      <4> SUFFICES ASSUME NEW o \in Objects
                   PROVE  v[o] = w[o] + Is(s, o) - Is(s, o) /\ w[o] \in Int /\ Is(s, o) \in Int
        OBVIOUS
      <4>1. v[o] = w[o] + Is(s, o) - Is(s, o)
        BY <1>1, MovedAt
      <4> QED BY <1>1, <4>1 DEF Is
    <3> HIDE DEF v
    <3> QED BY <3>1
  <2>2. v = [o \in Objects |-> v[o]]
    BY DEF Loss
  <2>3. v = w
    <3> HIDE DEF v
    <3> QED BY <1>1, <2>1, <2>2
  <2> QED BY <1>2, <2>3 DEF Point
<1>3. CASE old # s
  <2>1. Point(c, old, s) = Add(Drop(c, old), s)
    BY <1>3 DEF Point
  <2>2. Balanced(Drop(c, old), Loss(w, old))
    BY DropBalanced
  <2>3. Loss(w, old)[s] >= 1
    <3>1. Loss(w, old)[s] = w[s] - Is(old, s) /\ w[s] \in Int
      BY <1>1, MovedAt
    <3> QED BY <1>3, <3>1 DEF Is
  <2>4. Drop(c, old)[s] >= 0
    BY <1>1, <2>2, <2>3, Living
  <2>5. Balanced(Add(Drop(c, old), s), Gain(Loss(w, old), s))
    BY <1>1, <2>2, <2>4, AddBalanced
  <2> QED BY <1>1, <2>1, <2>5, GainLoss
<1> QED BY <1>2, <1>3

(* A space of now that lives does so after a step that gives no owner to   *)
(* a space that had none.                                                  *)
LEMMA FollowedKept ==
  ASSUME TypeOK, Followed, NEW c, NEW w, NEW v, Balanced(count, w), Balanced(c, v),
         \A V \in FESpaces : v[Fresh(V)] >= 1 => w[Fresh(V)] >= 1
  PROVE  \A V \in FESpaces : c[Fresh(V)] >= 0 => pVh[V] = Fresh(V)
<1> SUFFICES ASSUME NEW V \in FESpaces, c[Fresh(V)] >= 0 PROVE pVh[V] = Fresh(V)
  OBVIOUS
<1>1. Fresh(V) \in Spaces /\ Fresh(V) \in Objects
  BY FreshType DEF Objects
<1>2. /\ c[Fresh(V)] = v[Fresh(V)] - 1 /\ count[Fresh(V)] = w[Fresh(V)] - 1
      /\ v[Fresh(V)] \in Nat /\ w[Fresh(V)] \in Nat
  BY <1>1 DEF Balanced
<1>3. count[Fresh(V)] >= 0
  BY <1>2
<1> QED BY <1>3 DEF Followed

(* The problem is destroyed: its two spaces lose an owner.                 *)
LEMMA RedeclareInv == ASSUME Inv, Redeclare PROVE Inv'
<1> DEFINE W == Weights(Th, pVh, Vhs(fun), data.Uh, data.Vh)
           X == Weights(Th, pVh, Vhs(fun), None, data.Vh)
           Y == Weights(Th, pVh, Vhs(fun), None, None)
           c == Drop(count, data.Uh)
           d == Drop(c, data.Vh)
<1>1. now = NoCall /\ count' = d /\ data' = NoData /\ UNCHANGED <<prob, Th, made, number, pVh, fun, now>>
  BY DEF Redeclare
<1>2. TypeOK /\ Balanced(count, W) /\ Nb \in Nat /\ Nb >= 1 /\ DOMAIN prob.unknowns = 1 .. Nb
      /\ 1 \in 1 .. Nb
  <2>1. TypeOK /\ Balanced(count, W)
    BY DEF Inv, Counted
  <2> QED BY <2>1, ProblemFacts
<1>3. data.Uh \in Objects \cup {None} /\ data.Vh \in Objects \cup {None}
  BY <1>2 DEF TypeOK, Objects
<1>4. /\ W \in [Objects -> Int] /\ X \in [Objects -> Int]
      /\ data.Uh # None => W[data.Uh] >= 1
      /\ data.Vh # None => X[data.Vh] >= 1
  <2>1. /\ W \in [Objects -> Nat] /\ X \in [Objects -> Nat]
        /\ data.Uh # None => W[data.Uh] >= Is(data.Uh, data.Uh) + Is(data.Vh, data.Uh)
        /\ data.Vh # None => X[data.Vh] >= Is(None, data.Vh) + Is(data.Vh, data.Vh)
    BY <1>3, WeightsType
  <2> HIDE DEF W, X
  <2> QED BY <1>3, <2>1 DEF Is
<1>5. X = Loss(Gain(W, None), data.Uh) /\ Y = Loss(Gain(X, None), data.Vh)
  BY MoveKept
<1> HIDE DEF W, X, Y, c, d
<1>6. Gain(W, None) = W /\ Gain(X, None) = X
  <2>1. \A o \in Objects : Is(None, o) = 0
    BY ProblemAssumption DEF Is
  <2>2. \A o \in Objects : W[o] + Is(None, o) = W[o] /\ X[o] + Is(None, o) = X[o]
    BY <1>4, <2>1
  <2> QED BY <1>4, <2>2 DEF Gain
<1>7. Balanced(c, X)
  BY <1>2, <1>3, <1>4, <1>5, <1>6, DropBalanced DEF c
<1>8. Balanced(d, Y)
  BY <1>3, <1>4, <1>5, <1>6, <1>7, DropBalanced DEF d
<1>9. data'.Uh = None /\ data'.Vh = None /\ data'.A = None /\ data'.pTh = [i \in 1 .. Nb |-> None]
  BY <1>1, <1>2 DEF NoData
<1>10. Counted'
  <2>1. Balanced(count', Weights(Th', pVh', Vhs(fun'), data'.Uh, data'.Vh))
    BY <1>1, <1>8, <1>9 DEF Y
  <2> QED BY <2>1 DEF Counted
<1>11. Followed'
  <2>1. \A V \in FESpaces : Y[Fresh(V)] >= 1 => W[Fresh(V)] >= 1
    <3> SUFFICES ASSUME NEW V \in FESpaces, Y[Fresh(V)] >= 1 PROVE W[Fresh(V)] >= 1
      OBVIOUS
    <3>1. Fresh(V) \in Objects
      BY <1>2, FreshType DEF Objects
    <3>2. /\ Y[Fresh(V)] = X[Fresh(V)] - Is(data.Vh, Fresh(V))
          /\ X[Fresh(V)] = W[Fresh(V)] - Is(data.Uh, Fresh(V))
      BY <1>4, <1>5, <1>6, <3>1, MovedAt
    <3>3. X[Fresh(V)] \in Int /\ W[Fresh(V)] \in Int
          /\ Is(data.Vh, Fresh(V)) \in {0, 1} /\ Is(data.Uh, Fresh(V)) \in {0, 1}
      BY <1>4, <3>1 DEF Is
    <3> QED BY <3>2, <3>3
  <2>2. \A V \in FESpaces : d[Fresh(V)] >= 0 => pVh[V] = Fresh(V)
    BY <1>2, <1>8, <2>1, FollowedKept DEF Inv
  <2> QED BY <1>1, <2>2 DEF Followed, Fresh
<1>12. TypeOK'
  <2>1. DOMAIN count' = Objects /\ \A o \in Objects : count'[o] \in Int /\ count'[o] >= -1
    BY <1>1, <1>8, CountType
  <2>2. data' \in [pTh : [1 .. Nb -> Meshes \cup {None}], Uh : Spaces \cup {None},
                   Vh : Spaces \cup {None}, A : Matrices \cup {None}]
    BY <1>1, <1>2 DEF NoData
  <2> QED BY <1>1, <1>2, <2>1, <2>2 DEF TypeOK, Nb
<1>13. Separate' /\ Named' /\ Fit'
  BY <1>1 DEF Inv, Separate, Named, Fit, PetrovGalerkin, Nb, Variable, SizeOf
<1>14. Kept'
  <2>1. data'.pTh[1] = None
    BY <1>2, <1>9
  <2> QED BY <1>9, <2>1 DEF Kept
<1>15. UpToDate' /\ Recorded'
  BY <1>1, Idle
<1>16. Assembled' /\ Current'
  <2>1. now'.at = "script" /\ Nb' = Nb /\ prob' = prob /\ \A i \in 1 .. Nb : data'.pTh[i] = None
    BY <1>1, <1>9 DEF NoCall, Nb
  <2>2. ~HasMatrix'
    BY <1>2, <1>9, <2>1 DEF HasMatrix
  <2> QED BY <1>2, <1>9, <2>1, <2>2 DEF Assembled, Current
<1> QED BY <1>10, <1>11, <1>12, <1>13, <1>14, <1>15, <1>16 DEF Inv

(* A mesh where there is none: it is not the mesh of a variable, and no    *)
(* space that has an owner is on it.                                       *)
LEMMA DeadMesh ==
  ASSUME Inv, NEW a \in Meshes, count[a] = -1
  PROVE  /\ \A t \in MeshVars : Th[t] # a
         /\ \A s \in Spaces : count[s] >= 0 => s[2] # a
         /\ data.Uh # None => data.Uh[2] # a
         /\ data.Vh # None => data.Vh[2] # a
         /\ \A u \in Functions : fun[u].Vh # None => fun[u].Vh[2] # a
<1> DEFINE W == Weights(Th, pVh, Vhs(fun), data.Uh, data.Vh)
<1>1. TypeOK /\ Balanced(count, W)
  BY DEF Inv, Counted
<1>2. a \in Objects
  BY DEF Objects
<1>3. \A t \in MeshVars : Th[t] # a
  <2> SUFFICES ASSUME NEW t \in MeshVars, Th[t] = a PROVE FALSE
    OBVIOUS
  <2>1. W[a] >= 1
    BY <1>2, WeightsType
  <2> HIDE DEF W
  <2> QED BY <1>1, <1>2, <2>1, Living
<1>4. \A s \in Spaces : count[s] >= 0 => s[2] # a
  <2> HIDE DEF W
  <2>1. \A s \in Spaces : count[s] >= 0 => count[s[2]] >= 0
    BY <1>1, Living
  <2> QED BY <2>1
<1>5. /\ data.Uh # None => data.Uh \in Spaces /\ W[data.Uh] >= 1
      /\ data.Vh # None => data.Vh \in Spaces /\ W[data.Vh] >= 1
  <2>1. /\ data.Uh # None => data.Uh \in Spaces /\ data.Uh \in Objects
        /\ data.Vh # None => data.Vh \in Spaces /\ data.Vh \in Objects
    BY <1>1 DEF TypeOK, Objects
  <2>2. /\ data.Uh # None => W[data.Uh] >= Is(data.Uh, data.Uh) + Is(data.Vh, data.Uh)
        /\ data.Vh # None => W[data.Vh] >= Is(data.Uh, data.Vh) + Is(data.Vh, data.Vh)
    BY <2>1, WeightsType
  <2>3. W \in [Objects -> Nat]
    BY <1>1 DEF Balanced
  <2> HIDE DEF W
  <2> QED BY <2>1, <2>2, <2>3 DEF Is
<1>6. \A u \in Functions : fun[u].Vh # None => fun[u].Vh \in Spaces /\ W[fun[u].Vh] >= 1
  <2> SUFFICES ASSUME NEW u \in Functions, fun[u].Vh # None PROVE fun[u].Vh \in Spaces /\ W[fun[u].Vh] >= 1
    OBVIOUS
  <2>1. fun[u].Vh \in Spaces /\ fun[u].Vh \in Objects /\ Vhs(fun)[u] = fun[u].Vh
    BY <1>1 DEF TypeOK, Objects, Vhs
  <2> QED BY <2>1, WeightsType
<1>7. \A s \in Spaces : W[s] >= 1 => count[s] >= 0
  <2> HIDE DEF W
  <2> QED BY <1>1, Living DEF Objects
<1> HIDE DEF W
<1> QED BY <1>3, <1>4, <1>5, <1>6, <1>7

LEMMA NewMeshInv == ASSUME Inv, NEW t \in MeshVars, NEW a \in Meshes, NewMesh(t, a) PROVE Inv'
<1> DEFINE W == Weights(Th, pVh, Vhs(fun), data.Uh, data.Vh)
           X == Weights(Th', pVh, Vhs(fun), data.Uh, data.Vh)
           c == [count EXCEPT ![a] = 0]
           d == Drop(c, Th[t])
<1>1. /\ now = NoCall /\ made < MaxMade /\ count[a] = -1 /\ (Recycle \/ ~prob.composite \/ a \notin Remembered)
      /\ made' = made + 1 /\ number' = [number EXCEPT ![a] = made + 1]
      /\ count' = d /\ Th' = [Th EXCEPT ![t] = a] /\ UNCHANGED <<prob, pVh, fun, data, now>>
  BY DEF NewMesh
<1>2. TypeOK /\ Balanced(count, W) /\ Nb \in Nat /\ Nb >= 1 /\ DOMAIN data.pTh = 1 .. Nb /\ 1 \in 1 .. Nb
  <2>1. TypeOK /\ Balanced(count, W)
    BY DEF Inv, Counted
  <2> QED BY <2>1, ProblemFacts
<1>3. /\ Th' \in [MeshVars -> Meshes] /\ Th'[t] = a /\ \A s \in MeshVars \ {t} : Th'[s] = Th[s]
      /\ Th[t] \in Meshes /\ Th[t] \in Objects /\ a \in Objects
  BY <1>1, <1>2 DEF TypeOK, Objects
<1>4. /\ \A s \in MeshVars : Th[s] # a
      /\ \A s \in Spaces : count[s] >= 0 => s[2] # a
      /\ data.Uh # None => data.Uh[2] # a
      /\ data.Vh # None => data.Vh[2] # a
      /\ \A u \in Functions : fun[u].Vh # None => fun[u].Vh[2] # a
  BY <1>1, DeadMesh
<1>5. W \in [Objects -> Int] /\ W[Th[t]] >= 1
  <2>1. W \in [Objects -> Nat] /\ W[Th[t]] >= 1
    BY <1>3, WeightsType
  <2> HIDE DEF W
  <2> QED BY <2>1
<1>6. X = Loss(Gain(W, a), Th[t])
  BY <1>3, MoveMesh
<1> HIDE DEF W, X, c, d
<1>7. Balanced(c, Gain(W, a))
  BY <1>1, <1>2, NewMeshBalanced DEF c
<1>8. Gain(W, a)[Th[t]] >= 1
  <2>1. Gain(W, a)[Th[t]] = W[Th[t]] + Is(a, Th[t]) /\ W[Th[t]] \in Int
    BY <1>3, <1>5, MovedAt
  <2> QED BY <1>5, <2>1 DEF Is
<1>9. Balanced(d, X)
  BY <1>3, <1>6, <1>7, <1>8, DropBalanced DEF d
<1>10. Counted'
  <2>1. Balanced(count', Weights(Th', pVh', Vhs(fun'), data'.Uh, data'.Vh))
    BY <1>1, <1>9 DEF X
  <2> QED BY <2>1 DEF Counted
<1>11. Separate' /\ Named'
  BY <1>1, <1>3, <1>4 DEF Inv, Separate, Named
<1>12. \A s \in Spaces : d[s] = count[s]
  <2> SUFFICES ASSUME NEW s \in Spaces PROVE d[s] = count[s]
    OBVIOUS
  <2>1. s \in Objects /\ s # a /\ s # Th[t]
    BY <1>3, Facts DEF Objects
  <2>2. X[s] = W[s] + Is(a, s) - Is(Th[t], s) /\ W[s] \in Int
    BY <1>5, <1>6, <2>1, MovedAt
  <2>3. X[s] = W[s]
    BY <2>1, <2>2 DEF Is
  <2> QED BY <1>2, <1>9, <2>3 DEF Balanced
<1>13. Followed'
  <2> SUFFICES ASSUME NEW V \in FESpaces, d[<<V, Th'[MeshOf[V]]>>] >= 0
               PROVE  pVh[V] = <<V, Th'[MeshOf[V]]>>
    BY <1>1 DEF Followed, Fresh
  <2>1. MeshOf[V] \in MeshVars /\ <<V, Th'[MeshOf[V]]>> \in Spaces
    BY <1>3, Facts DEF Spaces
  <2>2. count[<<V, Th'[MeshOf[V]]>>] >= 0
    BY <1>12, <2>1
  <2>3. <<V, Th'[MeshOf[V]]>>[2] # a
    BY <1>4, <2>1, <2>2
  <2>4. Th'[MeshOf[V]] = Th[MeshOf[V]]
    BY <1>3, <2>1, <2>3
  <2> QED BY <2>2, <2>4 DEF Inv, Followed, Fresh
<1>14. TypeOK'
  <2>1. DOMAIN count' = Objects /\ \A o \in Objects : count'[o] \in Int /\ count'[o] >= -1
    BY <1>1, <1>9, CountType
  <2>2. made \in Nat /\ made + 1 \in 0 .. MaxMade
    BY <1>1, <1>2, ProblemAssumption DEF TypeOK
  <2>3. number' \in [Meshes -> 0 .. made']
    BY <1>1, <1>2, <2>2 DEF TypeOK
  <2> QED BY <1>1, <1>2, <1>3, <2>1, <2>2, <2>3 DEF TypeOK, Nb
<1>15. Kept'
  BY <1>1 DEF Inv, Kept, Takes, SameSpaces, Nb, Variable
<1>16. UpToDate' /\ Recorded'
  BY <1>1, Idle
<1>17. \A m \in Meshes \ {a} : number'[m] = number[m]
  BY <1>1, <1>2 DEF TypeOK
<1>18. Fit'
  <2> SUFFICES ASSUME ~PetrovGalerkin, NEW u \in Functions, fun[u].xx # None
               PROVE  fun[u].Vh # None /\ fun[u].xx = SizeOf(fun[u].Vh)'
    BY <1>1 DEF Fit, PetrovGalerkin, Nb, Variable
  <2>1. fun[u].Vh # None /\ fun[u].xx = SizeOf(fun[u].Vh) /\ fun[u].Vh \in Spaces
    BY <1>2 DEF Inv, Fit, TypeOK
  <2>2. fun[u].Vh[2] \in Meshes \ {a}
    BY <1>4, <2>1, Facts
  <2> QED BY <1>1, <1>17, <2>1, <2>2 DEF SizeOf
<1>19. Assembled'
  BY <1>1 DEF Inv, Assembled, HasMatrix, OldMatrix, Nb, NoCall
<1>20. Current'
  <2>1. now.at = "script" /\ Nb' = Nb
    BY <1>1 DEF NoCall, Nb
  <2>2. NoReuse /\ HasMatrix => MeshesKept' = MeshesKept
    <3>1. CASE prob.composite
      <4> SUFFICES ASSUME ~Recycle, data.pTh[1] # None PROVE MeshesKept' = MeshesKept
        BY <3>1 DEF NoReuse, HasMatrix
      <4>1. \A i \in 1 .. Nb : data.pTh[i] \in Meshes \ {a}
        <5>1. \A i \in 1 .. Nb : data.pTh[i] # None /\ data.pTh[i] \in Meshes
          BY <1>2, <3>1 DEF Inv, Assembled, TypeOK
        <5>2. \A i \in 1 .. Nb : data.pTh[i] # a
          BY <1>1, <1>2, <3>1 DEF Remembered
        <5> QED BY <5>1, <5>2
      <4>2. \A i \in 1 .. Nb : number'[data.pTh[i]] = number[data.pTh[i]]
        BY <1>17, <4>1
      <4> QED BY <1>1, <2>1, <3>1, <4>2 DEF MeshesKept
    <3>2. CASE ~prob.composite
      <4> SUFFICES ASSUME data.Uh # None PROVE MeshesKept' = MeshesKept
        BY <3>2 DEF HasMatrix
      <4>1. data.Uh \in Spaces /\ data.Vh \in Spaces
        <5>1. data.Uh \in Spaces
          BY <1>2 DEF TypeOK
        <5>2. data.Vh # None
          <6>1. Takes /\ data.pTh[1] \in Meshes
                /\ data.Vh = <<IF Nb = 1 THEN Variable(2) ELSE Product, data.pTh[1]>>
            BY DEF Inv, Kept
          <6>2. Nb = 1 => 2 \in 1 .. 2 * Nb
            BY <1>2
          <6>3. Nb = 1 => Variable(2) \in FESpaces
            BY <1>2, <6>2, ProblemFacts
          <6>4. data.Vh \in Spaces
            BY <6>1, <6>3 DEF Spaces
          <6> QED BY <6>4, Facts
        <5> QED BY <1>2, <5>1, <5>2 DEF TypeOK
      <4>2. data.Uh[2] \in Meshes \ {a} /\ data.Vh[2] \in Meshes \ {a}
        BY <1>4, <4>1, Facts
      <4> QED BY <1>1, <1>17, <3>2, <4>2 DEF MeshesKept
    <3> QED BY <3>1, <3>2
  <2> QED BY <1>1, <2>1, <2>2 DEF Inv, Current, NoReuse, HasMatrix, OldMatrix
<1> QED BY <1>10, <1>11, <1>13, <1>14, <1>15, <1>16, <1>18, <1>19, <1>20 DEF Inv

(* The problem takes the spaces of the call, or makes their product.       *)
LEMMA TakeSpacesOK ==
  ASSUME Inv, now.at = "spaces", ~prob.composite, OnOneMesh, Nb = 1 \/ Galerkin,
         data.pTh[1] # Space(1)[2]
  PROVE  /\ TakeSpaces.Uh = <<IF Nb = 1 THEN Variable(1) ELSE Product, Space(1)[2]>>
         /\ TakeSpaces.Vh = <<IF Nb = 1 THEN Variable(2) ELSE Product, Space(1)[2]>>
         /\ TakeSpaces.Uh \in Spaces /\ TakeSpaces.Vh \in Spaces
         /\ Balanced(TakeSpaces.count, Weights(Th, pVh, Vhs(fun), TakeSpaces.Uh, TakeSpaces.Vh))
         /\ \A V \in FESpaces : TakeSpaces.count[Fresh(V)] >= 0 => pVh[V] = Fresh(V)
<1> DEFINE W == Weights(Th, pVh, Vhs(fun), data.Uh, data.Vh)
           s == IF Nb = 1 THEN Space(1) ELSE <<Product, Space(1)[2]>>
           r == IF Nb = 1 THEN Test(1) ELSE <<Product, Space(1)[2]>>
           X == Weights(Th, pVh, Vhs(fun), s, data.Vh)
           Y == Weights(Th, pVh, Vhs(fun), s, r)
           c == IF Nb = 1 THEN Point(count, data.Uh, s) ELSE Drop(NewSpace(count, s), data.Uh)
           d == Point(c, data.Vh, r)
<1>1. TakeSpaces = [count |-> d, Uh |-> s, Vh |-> r]
  BY DEF TakeSpaces
<1>2. TypeOK /\ Balanced(count, W) /\ Nb \in Nat /\ Nb >= 1 /\ 1 \in 1 .. Nb /\ 1 \in 1 .. 2 * Nb
      /\ Variable(1) \in FESpaces /\ \A i \in 1 .. 2 * Nb : pVh[Variable(i)] = Fresh(Variable(i))
  <2>1. TypeOK /\ Balanced(count, W)
    BY DEF Inv, Counted
  <2>2. Nb \in Nat /\ Nb >= 1
    BY <2>1, ProblemFacts
  <2>3. 1 \in 1 .. Nb /\ 1 \in 1 .. 2 * Nb
    BY <2>2
  <2> QED BY <2>1, <2>2, <2>3, ProblemFacts DEF Inv, UpToDate
<1>3. /\ Space(1) \in Spaces /\ Test(1) \in Spaces /\ Space(1)[2] \in Meshes /\ Test(1)[2] = Space(1)[2]
      /\ Space(1)[1] = Variable(1) /\ Test(1)[1] = Variable(Nb + 1)
      /\ pVh[Variable(1)] = Space(1) /\ pVh[Variable(Nb + 1)] = Test(1) /\ Nb + 1 \in 1 .. 2 * Nb
  BY <1>2, SpacesNow DEF OnOneMesh
<1>4. Variable(Nb + 1) \in FESpaces /\ <<Product, Space(1)[2]>> \in Spaces
  BY <1>2, <1>3, ProblemFacts DEF Spaces
<1>5. s \in Spaces /\ r \in Spaces /\ s \in Objects /\ r \in Objects
  BY <1>3, <1>4 DEF Objects
<1>6. /\ s = <<IF Nb = 1 THEN Variable(1) ELSE Product, Space(1)[2]>>
      /\ r = <<IF Nb = 1 THEN Variable(2) ELSE Product, Space(1)[2]>>
  <2>1. CASE Nb = 1
    <3>1. Space(1) = <<Space(1)[1], Space(1)[2]>> /\ Test(1) = <<Test(1)[1], Test(1)[2]>>
      BY <1>3, Facts
    <3>2. Nb + 1 = 2
      BY <2>1
    <3> QED BY <1>3, <2>1, <3>1, <3>2
  <2>2. CASE Nb # 1
    BY <2>2
  <2> QED BY <2>1, <2>2
<1>7. data.Uh \in Objects \cup {None} /\ data.Vh \in Objects \cup {None}
  BY <1>2 DEF TypeOK, Objects
<1>8. /\ W \in [Objects -> Int] /\ X \in [Objects -> Int] /\ Y \in [Objects -> Int]
      /\ data.Uh # None => W[data.Uh] >= 1
      /\ data.Vh # None => X[data.Vh] >= 1
      /\ X[s] >= 1
      /\ Nb = 1 => W[s] >= 1 /\ X[r] >= 1
  <2>1. /\ W \in [Objects -> Nat] /\ X \in [Objects -> Nat] /\ Y \in [Objects -> Nat]
        /\ data.Uh # None => W[data.Uh] >= Is(data.Uh, data.Uh) + Is(data.Vh, data.Uh)
        /\ data.Vh # None => X[data.Vh] >= Is(s, data.Vh) + Is(data.Vh, data.Vh)
        /\ X[s] >= Is(s, s) + Is(data.Vh, s)
    BY <1>5, <1>7, WeightsType
  <2>2. Nb = 1 => W[s] >= 1 /\ X[r] >= 1
    <3> SUFFICES ASSUME Nb = 1 PROVE W[s] >= 1 /\ X[r] >= 1
      OBVIOUS
    <3>1. pVh[Variable(1)] = s /\ pVh[Variable(Nb + 1)] = r
      BY <1>3
    <3> HIDE DEF s, r
    <3> QED BY <1>2, <1>4, <1>5, <3>1, WeightsType
  <2> HIDE DEF W, X, Y, s, r
  <2>3. \A x, o : Is(x, o) \in {0, 1} /\ Is(x, x) = 1
    BY DEF Is
  <2>4. data.Uh # None => W[data.Uh] \in Nat
    BY <1>7, <2>1
  <2>5. data.Vh # None => X[data.Vh] \in Nat
    BY <1>7, <2>1
  <2>6. X[s] \in Nat
    BY <1>5, <2>1
  <2>7. data.Uh # None => W[data.Uh] >= 1
    BY <2>1, <2>3, <2>4
  <2>8. data.Vh # None => X[data.Vh] >= 1
    BY <2>1, <2>3, <2>5
  <2>9. X[s] >= 1
    BY <2>1, <2>3, <2>6
  <2>10. W \in [Objects -> Int] /\ X \in [Objects -> Int] /\ Y \in [Objects -> Int]
    BY <2>1
  <2> QED BY <2>2, <2>7, <2>8, <2>9, <2>10
<1>9. X = Loss(Gain(W, s), data.Uh) /\ Y = Loss(Gain(X, r), data.Vh)
  <2> HIDE DEF s, r
  <2> QED BY MoveKept
<1>10. Balanced(c, X)
  <2>1. CASE Nb = 1
    <3>1. c = Point(count, data.Uh, s)
      BY <2>1
    <3> HIDE DEF W, X, c, s
    <3> QED BY <1>2, <1>5, <1>7, <1>8, <1>9, <2>1, <3>1, PointBalanced
  <2>2. CASE Nb # 1
    <3>1. c = Drop(NewSpace(count, s), data.Uh) /\ s = <<Product, Space(1)[2]>>
      BY <2>2
    <3>2. s[1] = Product /\ s[2] = Space(1)[2]
      BY <3>1
    <3>3. data.Uh # s /\ data.Vh # s
      <4>1. \/ data.Uh = None /\ data.Vh = None
            \/ data.Uh[2] = data.pTh[1] /\ data.Vh[2] = data.pTh[1]
        BY DEF Inv, Kept
      <4> HIDE DEF s
      <4> QED BY <1>5, <3>2, <4>1, Facts
    <3>4. /\ \A t \in MeshVars : Th[t] # s
          /\ \A V \in FESpaces : pVh[V] # s
          /\ \A u \in Functions : Vhs(fun)[u] # s
      <4> HIDE DEF s
      <4>1. \A t \in MeshVars : Th[t] # s
        BY <1>2, <1>5, Facts DEF TypeOK
      <4>2. s # None /\ Product \notin FESpaces
        BY <1>5, Facts
      <4>3. \A V \in FESpaces : pVh[V] # s
        BY <3>2, <4>2 DEF Inv, Named
      <4>4. \A u \in Functions : Vhs(fun)[u] # s
        <5> SUFFICES ASSUME NEW u \in Functions, fun[u].Vh = s PROVE FALSE
          BY DEF Vhs
        <5>1. s[1] = SpaceOf[u] /\ SpaceOf[u] \in FESpaces
          BY <4>2, Facts DEF Inv, Named
        <5> QED BY <3>2, <4>2, <5>1
      <4> QED BY <4>1, <4>3, <4>4
    <3>5. W[s] = 0
      <4>1. W[s] = Is(data.Uh, s) + Is(data.Vh, s)
        BY <1>5, <3>4, WeightsType
      <4> HIDE DEF s, W
      <4> QED BY <3>3, <4>1 DEF Is
    <3> HIDE DEF W, X, c, s
    <3>6. ~(count[s] >= 0)
      BY <1>2, <1>5, <3>5 DEF Balanced
    <3>7. Balanced(NewSpace(count, s), Gain(W, s))
      BY <1>2, <1>5, <3>6, NewSpaceBalanced
    <3>8. data.Uh # None => Gain(W, s)[data.Uh] >= 1
      <4>1. data.Uh # None => Gain(W, s)[data.Uh] = W[data.Uh] + Is(s, data.Uh) /\ W[data.Uh] \in Int
        BY <1>7, <1>8, MovedAt
      <4> QED BY <1>8, <4>1 DEF Is
    <3> QED BY <1>7, <1>9, <3>1, <3>7, <3>8, DropBalanced
  <2> QED BY <2>1, <2>2
<1>11. X[r] >= 1
  <2>1. Nb # 1 => r = s
    OBVIOUS
  <2> HIDE DEF r, s, X
  <2> QED BY <1>8, <2>1
<1>12. Balanced(d, Y)
  <2> HIDE DEF c, X, Y, r, s
  <2> QED BY <1>5, <1>7, <1>8, <1>9, <1>10, <1>11, PointBalanced
<1>13. \A V \in FESpaces : d[Fresh(V)] >= 0 => pVh[V] = Fresh(V)
  <2> SUFFICES ASSUME NEW V \in FESpaces, d[Fresh(V)] >= 0, pVh[V] # Fresh(V) PROVE FALSE
    OBVIOUS
  <2>1. Fresh(V) \in Spaces /\ Fresh(V) \in Objects /\ Fresh(V)[1] = V
    BY <1>2, FreshType DEF Objects
  <2>2. Fresh(V) # s /\ Fresh(V) # r
    <3>1. CASE Nb = 1
      <4>1. s = Space(1) /\ r = Test(1)
        BY <3>1
      <4> HIDE DEF s, r
      <4>2. Fresh(V) = s => V = Variable(1)
        BY <1>3, <2>1, <4>1
      <4>3. Fresh(V) = r => V = Variable(Nb + 1)
        BY <1>3, <2>1, <4>1
      <4> QED BY <1>3, <4>1, <4>2, <4>3
    <3>2. CASE Nb # 1
      <4>1. s[1] = Product /\ r[1] = Product
        BY <3>2
      <4> HIDE DEF s, r
      <4> QED BY <2>1, <4>1, Facts
    <3> QED BY <3>1, <3>2
  <2> HIDE DEF W, X, Y, d, c, r, s
  <2>3. /\ X[Fresh(V)] = W[Fresh(V)] + Is(s, Fresh(V)) - Is(data.Uh, Fresh(V))
        /\ Y[Fresh(V)] = X[Fresh(V)] + Is(r, Fresh(V)) - Is(data.Vh, Fresh(V))
    BY <1>8, <1>9, <2>1, MovedAt
  <2>4. /\ Is(s, Fresh(V)) = 0 /\ Is(r, Fresh(V)) = 0
        /\ Is(data.Uh, Fresh(V)) \in {0, 1} /\ Is(data.Vh, Fresh(V)) \in {0, 1}
    BY <2>2 DEF Is
  <2>5. W[Fresh(V)] \in Int /\ X[Fresh(V)] \in Int /\ Y[Fresh(V)] \in Int
    BY <1>8, <2>1
  <2>6. d[Fresh(V)] = Y[Fresh(V)] - 1 /\ count[Fresh(V)] = W[Fresh(V)] - 1
    BY <1>2, <1>12, <2>1 DEF Balanced
  <2>7. count[Fresh(V)] >= 0
    BY <2>3, <2>4, <2>5, <2>6
  <2> QED BY <2>7 DEF Inv, Followed
<1>14. TakeSpaces.count = d /\ TakeSpaces.Uh = s /\ TakeSpaces.Vh = r
  BY <1>1
<1> HIDE DEF s, r, d
<1> QED BY <1>5, <1>6, <1>12, <1>13, <1>14

(* What the problem keeps becomes that of the call, or is found to be.     *)
LEMMA RecordInv == ASSUME Inv, Record PROVE Inv'
<1>1. /\ now.at = "spaces" /\ UNCHANGED <<prob, Th, made, number, pVh, fun>>
      /\ IF prob.composite THEN Galerkin ELSE OnOneMesh
  BY DEF Record
<1>2. /\ TypeOK /\ Nb \in Nat /\ Nb >= 1 /\ 1 \in 1 .. Nb /\ DOMAIN data.pTh = 1 .. Nb /\ 1 \in Looked
      /\ Looked \subseteq 1 .. Nb /\ prob.composite \in BOOLEAN
      /\ now \in [at : At, initmat : BOOLEAN, next : 1 .. 2 * Nb] /\ now.next = 1
  <2>1. TypeOK /\ now.next = 1
    BY <1>1 DEF Inv, UpToDate
  <2> QED BY <2>1, ProblemFacts DEF TypeOK
<1>3. /\ \A i \in 1 .. 2 * Nb : pVh[Variable(i)] = Fresh(Variable(i))
      /\ \A i \in 1 .. Nb : Space(i)[2] \in Meshes
      /\ Galerkin <=> SameSpaces
  BY <1>1, <1>2, SpacesNow DEF Inv, UpToDate
<1> DEFINE P == [i \in 1 .. Nb |-> Space(i)[2]]
<1>4. P \in [1 .. Nb -> Meshes \cup {None}] /\ \A i \in 1 .. Nb : P[i] = Space(i)[2] /\ P[i] # None
  BY <1>3, Facts
<1>5. /\ UNCHANGED data \/ data' = [data EXCEPT !.pTh = P]
         \/ \E x, y \in Spaces : data' = [data EXCEPT !.pTh = P, !.Uh = x, !.Vh = y]
      /\ data'.pTh \in [1 .. Nb -> Meshes \cup {None}] /\ data'.A = data.A
      /\ \/ /\ ~MeshChanged /\ UNCHANGED <<data, count>> /\ now' = [now EXCEPT !.at = "guess"]
            /\ prob.composite \/ data.Uh # None
         \/ /\ MeshChanged /\ prob.composite /\ data'.pTh = P /\ UNCHANGED count
            /\ data'.Uh = data.Uh /\ data'.Vh = data.Vh
            /\ now' = [now EXCEPT !.at = "guess", !.initmat = TRUE]
         \/ /\ data.pTh[1] # Space(1)[2] /\ ~prob.composite /\ (Nb = 1 \/ Galerkin) /\ data'.pTh = P
            /\ count' = TakeSpaces.count /\ data'.Uh = TakeSpaces.Uh /\ data'.Vh = TakeSpaces.Vh
            /\ now' = [now EXCEPT !.at = "guess", !.initmat = TRUE]
  <2> HIDE DEF P
  <2>1. CASE ~MeshChanged
    BY <1>2, <2>1 DEF Record, TypeOK
  <2>2. CASE MeshChanged /\ prob.composite
    <3>1. data' = [data EXCEPT !.pTh = P] /\ UNCHANGED count
          /\ now' = [now EXCEPT !.at = "guess", !.initmat = TRUE]
      BY <1>2, <2>2 DEF Record, P
    <3> QED BY <1>2, <1>4, <2>2, <3>1 DEF TypeOK
  <2>3. CASE MeshChanged /\ ~prob.composite
    <3>1. /\ data' = [data EXCEPT !.pTh = P, !.Uh = TakeSpaces.Uh, !.Vh = TakeSpaces.Vh]
          /\ count' = TakeSpaces.count /\ (Nb = 1 \/ Galerkin)
          /\ now' = [now EXCEPT !.at = "guess", !.initmat = TRUE]
      BY <1>2, <2>3 DEF Record, P
    <3>2. data.pTh[1] # Space(1)[2]
      BY <2>3 DEF MeshChanged, Looked
    <3>3. TakeSpaces.Uh \in Spaces /\ TakeSpaces.Vh \in Spaces
      BY <1>1, <2>3, <3>1, <3>2, TakeSpacesOK
    <3> QED BY <1>2, <1>4, <2>3, <3>1, <3>2, <3>3 DEF TypeOK
  <2> QED BY <2>1, <2>2, <2>3
<1> HIDE DEF P
<1>6. /\ now'.at = "guess" /\ now'.next = 1 /\ now' \in [at : At, initmat : BOOLEAN, next : 1 .. 2 * Nb]
      /\ MeshChanged => now'.initmat
  <2>1. CASE now' = [now EXCEPT !.at = "guess"] /\ ~MeshChanged
    BY <1>2, <2>1 DEF At
  <2>2. CASE now' = [now EXCEPT !.at = "guess", !.initmat = TRUE]
    BY <1>2, <2>2 DEF At
  <2> QED BY <1>5, <2>1, <2>2
<1>7. /\ DOMAIN count' = Objects /\ \A o \in Objects : count'[o] \in Int /\ count'[o] >= -1
      /\ data'.Uh \in Spaces \cup {None} /\ data'.Vh \in Spaces \cup {None}
      /\ Counted' /\ Followed'
  <2>1. CASE UNCHANGED count /\ data'.Uh = data.Uh /\ data'.Vh = data.Vh
    <3>1. Counted' /\ Followed'
      BY <1>1, <2>1, Still
    <3> QED BY <1>2, <2>1, <3>1 DEF TypeOK
  <2>2. CASE /\ data.pTh[1] # Space(1)[2] /\ ~prob.composite /\ (Nb = 1 \/ Galerkin)
             /\ count' = TakeSpaces.count /\ data'.Uh = TakeSpaces.Uh /\ data'.Vh = TakeSpaces.Vh
    <3>1. /\ data'.Uh \in Spaces /\ data'.Vh \in Spaces
          /\ Balanced(count', Weights(Th, pVh, Vhs(fun), data'.Uh, data'.Vh))
          /\ \A V \in FESpaces : count'[Fresh(V)] >= 0 => pVh[V] = Fresh(V)
      BY <1>1, <2>2, TakeSpacesOK
    <3>2. Counted'
      <4>1. Balanced(count', Weights(Th', pVh', Vhs(fun'), data'.Uh, data'.Vh))
        BY <1>1, <3>1
      <4> QED BY <4>1 DEF Counted
    <3>3. Followed'
      BY <1>1, <3>1 DEF Followed, Fresh
    <3> QED BY <3>1, <3>2, <3>3, CountType
  <2> QED BY <1>5, <2>1, <2>2
<1>8. TypeOK'
  <2>1. data' \in [pTh : [1 .. Nb -> Meshes \cup {None}], Uh : Spaces \cup {None},
                   Vh : Spaces \cup {None}, A : Matrices \cup {None}]
    BY <1>2, <1>4, <1>5 DEF TypeOK
  <2> QED BY <1>1, <1>2, <1>6, <1>7, <2>1 DEF TypeOK, Nb
<1>9. Separate' /\ Named' /\ Fit'
  BY <1>1 DEF Inv, Separate, Named, Fit, PetrovGalerkin, Nb, Variable, SizeOf
<1>10. Kept'
  <2>1. CASE UNCHANGED data
    BY <1>1, <2>1, SameProblem DEF Inv, Kept
  <2>2. CASE prob.composite /\ data'.Uh = data.Uh /\ data'.Vh = data.Vh
    BY <1>1, <2>2, SameProblem DEF Inv, Kept, Takes
  <2>3. CASE /\ data.pTh[1] # Space(1)[2] /\ ~prob.composite /\ (Nb = 1 \/ Galerkin) /\ data'.pTh = P
             /\ data'.Uh = TakeSpaces.Uh /\ data'.Vh = TakeSpaces.Vh
    <3>1. data'.pTh[1] = Space(1)[2] /\ Space(1)[2] \in Meshes
      BY <1>2, <1>3, <1>4, <2>3
    <3>2. /\ data'.Uh = <<IF Nb = 1 THEN Variable(1) ELSE Product, data'.pTh[1]>>
          /\ data'.Vh = <<IF Nb = 1 THEN Variable(2) ELSE Product, data'.pTh[1]>>
      BY <1>1, <2>3, <3>1, TakeSpacesOK
    <3>3. Takes
      BY <1>3, <2>3 DEF Takes
    <3> QED BY <1>1, <3>1, <3>2, <3>3, SameProblem DEF Kept
  <2> QED BY <1>5, <2>1, <2>2, <2>3
<1>11. UpToDate'
  BY <1>1, <1>2, <1>3, <1>6, SameProblem DEF UpToDate
<1>12. prob.composite \/ (Takes /\ OnOneMesh)
  <2> SUFFICES ASSUME ~prob.composite PROVE Takes /\ OnOneMesh
    OBVIOUS
  <2>1. CASE data.Uh # None
    BY <1>1, <2>1 DEF Inv, Kept
  <2>2. CASE Nb = 1 \/ Galerkin
    BY <1>1, <1>3, <2>2 DEF Takes
  <2> QED BY <1>5, <2>1, <2>2
<1>13. \A i \in Looked : data'.pTh[i] = Space(i)[2]
  <2>1. CASE ~MeshChanged /\ UNCHANGED data
    BY <2>1 DEF MeshChanged
  <2>2. CASE data'.pTh = P
    BY <1>2, <1>4, <2>2
  <2> QED BY <1>5, <2>1, <2>2
<1>14. Recorded'
  BY <1>1, <1>6, <1>12, <1>13, SameProblem DEF Recorded
<1>15. Assembled' /\ Current'
  <2>1. CASE ~MeshChanged /\ UNCHANGED data
    <3>1. HasMatrix' = HasMatrix /\ MeshesKept' = MeshesKept /\ ~OldMatrix
      BY <1>1, <2>1 DEF HasMatrix, MeshesKept, OldMatrix, Nb
    <3> QED BY <1>1, <1>6, <2>1, <3>1, SameProblem DEF Inv, Assembled, Current
  <2>2. CASE MeshChanged /\ data'.pTh = P
    <3>1. OldMatrix'
      BY <1>6, <2>2 DEF OldMatrix
    <3>2. \A i \in 1 .. Nb : data'.pTh[i] # None
      BY <1>4, <2>2
    <3>3. data'.A = data.A
      BY <1>5
    <3> QED BY <1>1, <1>2, <1>6, <3>1, <3>2, <3>3, SameProblem DEF Inv, Assembled, Current
  <2>3. data.pTh[1] # Space(1)[2] => MeshChanged
    BY <1>2 DEF MeshChanged
  <2> QED BY <1>5, <2>1, <2>2, <2>3
<1> QED BY <1>7, <1>8, <1>9, <1>10, <1>11, <1>14, <1>15 DEF Inv

-----------------------------------------------------------------------------
(* The invariant holds. *)

LEMMA InitInv == Init => Inv
<1> SUFFICES ASSUME Init PROVE Inv
  OBVIOUS
<1> DEFINE W == Weights(Th, pVh, Vhs(fun), data.Uh, data.Vh)
<1>1. /\ prob \in Problems /\ Th \in [MeshVars -> Meshes] /\ made = Cardinality(MeshVars)
      /\ number \in [Meshes -> 0 .. made]
      /\ \A s, t \in MeshVars : Th[s] = Th[t] => s = t
      /\ pVh = [V \in FESpaces |-> None] /\ fun = [u \in Functions |-> [Vh |-> None, xx |-> None]]
      /\ count = [o \in Objects |-> IF \E t \in MeshVars : Th[t] = o THEN 0 ELSE -1]
      /\ data = NoData /\ now = NoCall
  BY DEF Init
<1>2. Nb \in Nat /\ Nb >= 1 /\ DOMAIN prob.unknowns = 1 .. Nb /\ prob.composite \in BOOLEAN
  <2>1. prob.unknowns \in Seq(Functions) \ {<<>>} /\ prob.composite \in BOOLEAN
    BY <1>1, ProblemAssumption
  <2> QED BY <2>1 DEF Nb
<1>3. /\ data.Uh = None /\ data.Vh = None /\ data.A = None /\ data.pTh = [i \in 1 .. Nb |-> None]
      /\ data \in [pTh : [1 .. Nb -> Meshes \cup {None}], Uh : Spaces \cup {None},
                   Vh : Spaces \cup {None}, A : Matrices \cup {None}]
  BY <1>1, <1>2 DEF NoData
<1>4. TypeOK
  <2>1. made \in 0 .. MaxMade
    BY <1>1, Facts, FS_CardinalityType, ProblemAssumption
  <2>2. 1 \in 1 .. 2 * Nb
    BY <1>2
  <2>3. DOMAIN count = Objects /\ \A o \in Objects : count[o] \in Int /\ count[o] >= -1
    BY <1>1
  <2> QED BY <1>1, <1>3, <2>1, <2>2, <2>3 DEF TypeOK, NoCall, At
<1>5. \A s \in Spaces : s \in Objects /\ count[s] = -1 /\ W[s] = 0
  <2> SUFFICES ASSUME NEW s \in Spaces PROVE s \in Objects /\ count[s] = -1 /\ W[s] = 0
    OBVIOUS
  <2>1. s \in Objects /\ s # None /\ \A t \in MeshVars : Th[t] # s
    BY <1>1, Facts DEF Objects
  <2>2. (\A V \in FESpaces : pVh[V] # s) /\ (\A u \in Functions : Vhs(fun)[u] # s)
    BY <1>1, <2>1 DEF Vhs
  <2>3. W[s] = Is(data.Uh, s) + Is(data.Vh, s)
    BY <2>1, <2>2, WeightsType
  <2> HIDE DEF W
  <2> QED BY <1>1, <1>3, <2>1, <2>3 DEF Is
<1>6. \A a \in Meshes : a \in Objects /\ W[a] = count[a] + 1 /\ On(count, a) = {}
  <2> SUFFICES ASSUME NEW a \in Meshes PROVE a \in Objects /\ W[a] = count[a] + 1 /\ On(count, a) = {}
    OBVIOUS
  <2>1. a \in Objects /\ a # None
    BY Facts DEF Objects
  <2>2. On(count, a) = {}
    BY <1>5 DEF On
  <2>3. Pointers(pVh, FESpaces, a) = 0 /\ Pointers(Vhs(fun), Functions, a) = 0
    <3>1. (\A V \in FESpaces : pVh[V] # a) /\ (\A u \in Functions : Vhs(fun)[u] # a)
      BY <1>1, <2>1 DEF Vhs
    <3> QED BY <3>1, Facts, PointersType
  <2>4. Is(data.Uh, a) = 0 /\ Is(data.Vh, a) = 0
    BY <1>3, <2>1 DEF Is
  <2>5. Pointers(Th, MeshVars, a) \in Nat
    BY Facts, PointersType
  <2>6. W[a] = Pointers(Th, MeshVars, a)
    BY <2>1, <2>3, <2>4, <2>5 DEF Weights
  <2>7. Pointers(Th, MeshVars, a) = count[a] + 1
    <3>1. CASE \E t \in MeshVars : Th[t] = a
      <4>1. PICK t \in MeshVars : Th[t] = a
        BY <3>1
      <4>2. {s \in MeshVars : Th[s] = a} = {t}
        BY <1>1, <4>1
      <4>3. Cardinality({t}) = 1
        BY FS_Singleton
      <4>4. Pointers(Th, MeshVars, a) = 1
        BY <4>2, <4>3 DEF Pointers
      <4>5. count[a] = 0
        BY <1>1, <2>1, <3>1
      <4> QED BY <4>4, <4>5
    <3>2. CASE \A t \in MeshVars : Th[t] # a
      <4>1. Pointers(Th, MeshVars, a) = 0
        BY <3>2, Facts, PointersType
      <4> QED BY <1>1, <2>1, <3>2, <4>1
    <3> QED BY <3>1, <3>2
  <2> HIDE DEF W
  <2> QED BY <2>1, <2>2, <2>6, <2>7
<1>7. Counted
  <2>1. W \in [Objects -> Nat]
    BY WeightsType
  <2>2. count \in [Objects -> Int]
    BY <1>1
  <2>3. Cardinality({}) = 0
    BY FS_EmptySet
  <2>4. \A a \in Meshes : count[a] = W[a] + Cardinality(On(count, a)) - 1
    <3> HIDE DEF W
    <3>1. \A a \in Meshes : count[a] \in Int /\ W[a] = count[a] + 1 /\ Cardinality(On(count, a)) = 0
      BY <1>6, <2>2, <2>3
    <3> QED BY <3>1
  <2>5. \A s \in Spaces : count[s] = W[s] - 1
    <3> HIDE DEF W
    <3> QED BY <1>5
  <2> QED BY <2>1, <2>2, <2>4, <2>5 DEF Counted, Balanced
<1>8. Separate /\ Named
  BY <1>1 DEF Separate, Named
<1>9. Followed
  <2>1. \A V \in FESpaces : Fresh(V) \in Spaces
    BY <1>4, FreshType
  <2> QED BY <1>5, <2>1 DEF Followed
<1>10. Kept
  BY <1>2, <1>3 DEF Kept
<1>11. UpToDate /\ Recorded
  BY <1>1, <1>2 DEF UpToDate, Recorded, NoCall
<1>12. Assembled /\ Current
  <2>1. ~HasMatrix /\ now.at = "script"
    BY <1>1, <1>2, <1>3 DEF HasMatrix, NoCall
  <2> QED BY <1>2, <1>3, <2>1 DEF Assembled, Current
<1>13. Fit
  BY <1>1 DEF Fit
<1> QED BY <1>4, <1>7, <1>8, <1>9, <1>10, <1>11, <1>12, <1>13 DEF Inv

LEMMA NextInv == Inv /\ [Next]_vars => Inv'
<1> SUFFICES ASSUME Inv, [Next]_vars PROVE Inv'
  OBVIOUS
<1>1. \A i \in 1 .. Nb : prob.unknowns[i] \in Functions
  BY ProblemFacts DEF Inv
<1>2. \A i \in 1 .. Nb : /\ SpaceOf[prob.unknowns[i]] \in FESpaces
                         /\ MeshOf[SpaceOf[prob.unknowns[i]]] \in MeshVars
  BY <1>1, Facts
<1>3. ASSUME NEW i \in 1 .. Nb, NEW a \in Meshes, NewMesh(MeshOf[SpaceOf[prob.unknowns[i]]], a)
      PROVE  Inv'
  BY <1>2, <1>3, NewMeshInv
<1>4. ASSUME NEW i \in 1 .. Nb, UseSpace(SpaceOf[prob.unknowns[i]])
      PROVE  Inv'
  BY <1>2, <1>4, UseSpaceInv
<1>5. ASSUME NEW i \in 1 .. Nb, Assign(prob.unknowns[i])
      PROVE  Inv'
  BY <1>1, <1>5, AssignInv
<1>6. CASE Redeclare
  BY <1>6, RedeclareInv
<1>7. ASSUME NEW init \in BOOLEAN, Call(init) PROVE Inv'
  BY <1>7, CallInv
<1>8. CASE newVh \/ Refuse \/ Record \/ Crash \/ Guess \/ NewMatrix
  BY <1>8, newVhInv, RefuseInv, RecordInv, CrashInv, GuessInv, NewMatrixInv
<1>9. CASE Assemble \/ AssemblyFails \/ DefSolver \/ Solve \/ DispatchSolution
  BY <1>9, AssembleInv, AssemblyFailsInv, DefSolverInv, SolveInv, DispatchSolutionInv
<1>10. CASE UNCHANGED vars
  <2>1. UNCHANGED <<prob, Th, made, number, count, pVh, fun, data, now>>
    BY <1>10 DEF vars
  <2>2. Counted' /\ Separate' /\ Named' /\ Followed' /\ Fit'
    BY <2>1, Still
  <2>3. TypeOK' /\ Kept' /\ Recorded' /\ UpToDate'
    BY <2>1, SameProblem DEF Inv, TypeOK, Kept, Recorded, UpToDate, NoCall
  <2>4. Assembled' /\ Current'
    BY <2>1 DEF Inv, NoReuse, Assembled, Current, HasMatrix, MeshesKept, OldMatrix, Nb
  <2> QED BY <2>2, <2>3, <2>4 DEF Inv
<1> QED BY <1>3, <1>4, <1>5, <1>6, <1>7, <1>8, <1>9, <1>10 DEF Next, Script, Eval

(* What every reachable state satisfies. *)
THEOREM InvCorrect == Spec => []Inv
BY InitInv, NextInv, PTL DEF Spec

-----------------------------------------------------------------------------
(* Properties. *)

(* CountInv: counters are the owners minus one, through updates of spaces, *)
(* products, failed calls and ends of scopes.                              *)
LEMMA InvCountInv == Inv => CountInv
<1> SUFFICES ASSUME Inv, NEW o \in Objects PROVE count[o] = Owners(o) - 1
  BY DEF CountInv, Inv
<1> DEFINE W == Weights(Th, pVh, Vhs(fun), data.Uh, data.Vh)
<1>1. Balanced(count, W)
  BY DEF Inv, Counted
<1>2. {u \in Functions : fun[u].Vh = o} = {u \in Functions : Vhs(fun)[u] = o}
  BY DEF Vhs
<1>3. Cardinality({k \in {"Uh", "Vh"} : data[k] = o}) = Is(data.Uh, o) + Is(data.Vh, o)
  <2>1. data["Uh"] = data.Uh /\ data["Vh"] = data.Vh
    BY DEF Inv, TypeOK
  <2>2. /\ {k \in {"Uh", "Vh"} : data[k] = o} =
             (IF data.Uh = o THEN {"Uh"} ELSE {}) \cup (IF data.Vh = o THEN {"Vh"} ELSE {})
    BY <2>1
  <2>3. Cardinality({}) = 0 /\ Cardinality({"Uh"}) = 1 /\ Cardinality({"Vh"}) = 1
        /\ Cardinality({"Uh"} \cup {"Vh"}) = 2
    <3>1. IsFiniteSet({"Uh"}) /\ Cardinality({"Uh"}) = 1 /\ Cardinality({"Vh"}) = 1 /\ "Vh" \notin {"Uh"}
      BY FS_Singleton
    <3>2. Cardinality({"Uh"} \cup {"Vh"}) = 1 + 1
      BY <3>1, FS_AddElement
    <3> QED BY <3>1, <3>2, FS_EmptySet
  <2> DEFINE K == {k \in {"Uh", "Vh"} : data[k] = o}
  <2>4. /\ data.Uh = o /\ data.Vh = o => K = {"Uh"} \cup {"Vh"}
        /\ data.Uh = o /\ data.Vh # o => K = {"Uh"}
        /\ data.Uh # o /\ data.Vh = o => K = {"Vh"}
        /\ data.Uh # o /\ data.Vh # o => K = {}
    BY <2>2
  <2> HIDE DEF K
  <2>5. Cardinality(K) = Is(data.Uh, o) + Is(data.Vh, o)
    BY <2>3, <2>4 DEF Is
  <2> QED BY <2>5 DEF K
<1>4. W[o] = Pointers(Th, MeshVars, o) + Pointers(pVh, FESpaces, o) + Pointers(Vhs(fun), Functions, o)
             + Is(data.Uh, o) + Is(data.Vh, o)
  BY DEF Weights
<1>5. Owners(o) = Pointers(Th, MeshVars, o) + Cardinality(On(count, o)) + Pointers(pVh, FESpaces, o)
                  + Pointers(Vhs(fun), Functions, o) + Cardinality({k \in {"Uh", "Vh"} : data[k] = o})
  BY <1>2 DEF Owners, Pointers, On
<1>6. /\ Pointers(Th, MeshVars, o) \in Nat /\ Pointers(pVh, FESpaces, o) \in Nat
      /\ Pointers(Vhs(fun), Functions, o) \in Nat /\ Cardinality(On(count, o)) \in Nat
      /\ Is(data.Uh, o) \in Int /\ Is(data.Vh, o) \in Int
  BY Facts, PointersType, OnType DEF Is
<1>7. count[o] = W[o] + Cardinality(On(count, o)) - 1
  <2>1. CASE o \in Meshes
    BY <1>1, <2>1 DEF Balanced
  <2>2. CASE o \in Spaces
    <3>1. On(count, o) = {}
      BY <2>2, Facts DEF On
    <3>2. Cardinality(On(count, o)) = 0
      BY <3>1, FS_EmptySet
    <3>3. count[o] = W[o] - 1 /\ W[o] \in Nat
      BY <1>1, <2>2 DEF Balanced
    <3> HIDE DEF W
    <3> QED BY <3>2, <3>3
  <2> QED BY <2>1, <2>2 DEF Objects
<1> HIDE DEF W
<1> QED BY <1>3, <1>4, <1>5, <1>6, <1>7

(* Counted pointers keep an object as long as it has an owner, and no      *)
(* longer (RefCounter.hpp:56).                                             *)
THEOREM CountCorrect == Spec => []CountInv
BY InvCorrect, InvCountInv, PTL

(* SpacesOfCall: the spaces a call uses are there and on its mesh.         *)
LEMMA InvSpacesOfCall == Inv => SpacesOfCall
<1> SUFFICES ASSUME Inv, now.at \notin {"script", "update", "spaces"}, ~prob.composite, Nb = 1 \/ Galerkin
             PROVE  /\ data.Uh \in Spaces /\ data.Vh \in Spaces
                    /\ data.Uh[2] = Space(1)[2] /\ data.Vh[2] = Space(1)[2]
                    /\ \A i \in 1 .. Nb : Space(i)[2] = data.Uh[2]
  BY DEF SpacesOfCall
<1>1. Takes
  BY SpacesNow DEF Inv, UpToDate, Takes
<1>2. now.at # "crash"
  BY <1>1 DEF Inv, Recorded
<1>3. /\ OnOneMesh /\ data.Uh \in Spaces /\ data.Vh \in Spaces
      /\ data.Uh = <<IF Nb = 1 THEN Variable(1) ELSE Product, Space(1)[2]>>
      /\ data.Vh = <<IF Nb = 1 THEN Variable(2) ELSE Product, Space(1)[2]>>
  BY <1>2, SpacesKept
<1> QED BY <1>3 DEF OnOneMesh

(* From the first guess to the solution the spaces the problem keeps are   *)
(* there and lie on the mesh of the call (problem.cpp:12695).              *)
THEOREM SpacesOfCallCorrect == Spec => []SpacesOfCall
BY InvCorrect, InvSpacesOfCall, PTL

(* SolvesThisMesh: the matrix that is solved was assembled to its end on   *)
(* the meshes of this call.                                                *)
LEMMA InvSolves == Inv /\ NoReuse => SolvesThisMesh
<1> SUFFICES ASSUME Inv, NoReuse, now.at = "solved"
             PROVE  data.A # None /\ data.A.whole /\ data.A.of = MeshesOfCall
  BY DEF SolvesThisMesh
<1>1. HasMatrix /\ data.A # None
  BY MatrixThere
<1>2. data.A.whole /\ data.A.of = MeshesKept
  BY <1>1 DEF Inv, Assembled, Current, OldMatrix
<1>3. MeshesOfCall = MeshesKept
  BY DEF Inv, Recorded, Looked, MeshesOfCall, MeshesKept
<1> QED BY <1>1, <1>2, <1>3

(* A solution comes from a matrix assembled to its end on the meshes of    *)
(* its call, when no mesh is put at an address that only a composite       *)
(* problem remembers: ChangedMesh shows what happens otherwise.            *)
THEOREM SolvesThisMeshCorrect == ASSUME ~Recycle PROVE Spec => []SolvesThisMesh
<1>1. Inv => SolvesThisMesh
  BY InvSolves DEF NoReuse
<1> QED BY <1>1, InvCorrect, PTL

(* For a problem that is not composite it does not matter where meshes are *)
(* put: a counted space keeps the mesh whose address the problem has.      *)
THEOREM SolvesItsMeshCorrect == Spec => [](~prob.composite => SolvesThisMesh)
<1>1. Inv => (~prob.composite => SolvesThisMesh)
  BY InvSolves DEF NoReuse
<1> QED BY <1>1, InvCorrect, PTL

(* ValuesFit: values have the size of the space of their function.         *)
LEMMA InvValuesFit == Inv => ValuesFit
<1> SUFFICES ASSUME Inv, ~PetrovGalerkin, NEW u \in Functions, fun[u].xx # None
             PROVE  fun[u].Vh # None /\ count[fun[u].Vh] >= 0 /\ fun[u].xx = SizeOf(fun[u].Vh)
  BY DEF ValuesFit
<1> DEFINE W == Weights(Th, pVh, Vhs(fun), data.Uh, data.Vh)
<1>1. fun[u].Vh # None /\ fun[u].xx = SizeOf(fun[u].Vh)
  BY DEF Inv, Fit
<1>2. fun[u].Vh \in Objects /\ Vhs(fun)[u] = fun[u].Vh
  BY <1>1 DEF Inv, TypeOK, Objects, Vhs
<1>3. W[fun[u].Vh] >= 1 /\ Balanced(count, W)
  BY <1>2, WeightsType DEF Inv, Counted
<1> HIDE DEF W
<1> QED BY <1>1, <1>2, <1>3, Living

(* The values of a function fit the space it says it is on, and the space  *)
(* is there, whatever happened to its mesh.                                *)
THEOREM ValuesFitCorrect == Spec => []ValuesFit
BY InvCorrect, InvValuesFit, PTL
===============================================================================
