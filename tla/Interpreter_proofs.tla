--------------------------- MODULE Interpreter_proofs ---------------------------
(***************************************************************************)
(* Theorems about Interpreter, for all scripts of the grammar, however     *)
(* deep their calls, loops and blocks, as long as there is memory.         *)
(***************************************************************************)
EXTENDS Interpreter, SequenceTheorems, FiniteSetTheorems, WellFoundedInduction, TLAPS

-----------------------------------------------------------------------------
(* There is memory for one more object and, when a function is called, one *)
(* more list.                                                              *)
EnoughMemory ==
  /\ \E o \in Objects : heap[o] = None
  /\ Given("do") /\ now.node.op = "call" => Cardinality(DOMAIN lists) \in Lists

-----------------------------------------------------------------------------
(* The invariant. *)

Values == Objects \cup {None}
Codes  == {"error", "break", "continue", "return"}
Code   == Seq(Nodes) \ {<<>>}

(* What may be given to evaluate. *)
Doable(n) ==
  \/ n \in Nodes
  \/ /\ n.op \in {"block", "list"} /\ n.ins \in Code /\ n.base \in SUBSET Variables

ListFrame == [f : {"list"}, ins : Code, i : Nat \ {0}, sptr : Nat, param : Values,
              base : SUBSET Variables, close : BOOLEAN]
ForFrame  == [f : {"for"}, body : Nodes, left : Nat, sptr : Nat, sptrclean : BOOLEAN]
TryFrame  == {fr \in [f : {"try"}, node : Nodes] : fr.node.op = "try"}
Operand   == {fr \in [f : {"left"}, node : Nodes] : fr.node.op = "plus"}
             \cup [f : {"right"}, left : Values]
             \cup [f : {"decl"}, v : Variables] \cup [f : {"return"}]
Routine   == [f : {"routine"}, where : Nat, param : Values]
Plain     == ListFrame \cup ForFrame \cup TryFrame \cup Operand
Frame     == Plain \cup Routine

IsCall(fr) == fr.f = "routine"
Works(fr)  == fr.f \in {"left", "right", "decl", "return"}

NowOK ==
  /\ now.k \in {"do", "ok", "throw", "end", "failed"}
  /\ now.k = "do" => Doable(now.node)
  /\ now.k = "throw" => now.code \in Codes
  /\ now.val \in Values
  /\ now.val # None => now.k = "ok" \/ (now.k = "throw" /\ now.code = "return")

(* Frame i belongs to the function that runs; frame k is the call that has *)
(* suspended the function of frame i.                                      *)
Runs(s, i) == \A j \in i + 1 .. Len(s) : ~IsCall(s[j])
SuspendedBy(s, i, k) ==
  k \in i + 1 .. Len(s) /\ IsCall(s[k]) /\ \A j \in i + 1 .. k - 1 : ~IsCall(s[j])

HasList(fr, w, p) == fr.f \in {"list", "for"} => fr.sptr = w /\ (fr.f = "list" => fr.param = p)

(* The list of a call is younger than those of its callers. *)
Younger(s, w) ==
  \A k \in 1 .. Len(s) : IsCall(s[k]) =>
    s[k].where < w /\ \A j \in k + 1 .. Len(s) : IsCall(s[j]) => s[k].where < s[j].where

(* The list of the script is 0. *)
Based(s, w) ==
  /\ (\A k \in 1 .. Len(s) : ~IsCall(s[k])) => w = 0
  /\ \A k \in 1 .. Len(s) :
       IsCall(s[k]) /\ (\A j \in 1 .. k - 1 : ~IsCall(s[j])) => s[k].where = 0

(* Every list and loop counts on the list and the parameters of its        *)
(* function: those of now, w and p, or those the call that suspended it    *)
(* will restore.                                                           *)
StackOK(s, w, p) ==
  /\ s \in Seq(Frame) /\ w \in Nat /\ p \in Values
  /\ \A i \in 1 .. Len(s) : s[i].f = "list" => s[i].i <= Len(s[i].ins)
  /\ \A i \in 1 .. Len(s) : Runs(s, i) => HasList(s[i], w, p)
  /\ \A i, k \in 1 .. Len(s) : SuspendedBy(s, i, k) => HasList(s[i], s[k].where, s[k].param)
  /\ Younger(s, w) /\ Based(s, w)

(* The lists in use, their objects and those of the variables. *)
MemoryOK(L, h, v) ==
  /\ \E n \in Nat : DOMAIN L = 0 .. n
  /\ \A m \in DOMAIN L : L[m] \in [objects : SUBSET Objects, lists : SUBSET DOMAIN L]
  /\ \A m \in DOMAIN L : \A n \in L[m].lists : m < n
  /\ \A m \in DOMAIN L : \A o \in L[m].objects : h[o] = 0
  /\ \A m, n \in DOMAIN L : m # n => L[m].objects \cap L[n].objects = {}
  /\ h \in [Objects -> {None} \cup Nat]
  /\ v \in [Variables -> Values]
  /\ \A x \in Variables : v[x] # None =>
       h[v[x]] # None /\ \A m \in DOMAIN L : v[x] \notin L[m].objects

(* All the lists younger than w are of calls made under w. *)
Rooted(L, w) ==
  /\ w \in DOMAIN L
  /\ \A n \in DOMAIN L : w < n => \E m \in DOMAIN L : w <= m /\ m < n /\ n \in L[m].lists
  /\ \A m \in DOMAIN L : m < w => \A n \in L[m].lists : n <= w

(* The parameters p of the function with the list w are a temporary of the *)
(* caller.                                                                 *)
Passed(L, w, p) == p = None \/ \E m \in DOMAIN L : m < w /\ p \in L[m].objects

HeldOK(s, w, p, L) ==
  /\ Rooted(L, w) /\ Passed(L, w, p)
  /\ \A k \in 1 .. Len(s) : IsCall(s[k]) =>
       Rooted(L, s[k].where) /\ Passed(L, s[k].where, s[k].param)

FrameInv ==
  /\ NowOK
  /\ StackOK(ctl, where, param)
  /\ MemoryOK(lists, heap, slots)
  /\ HeldOK(ctl, where, param, lists)
  /\ DOMAIN lists \subseteq Lists

-----------------------------------------------------------------------------
(* Sequences. *)

LEMMA Pushed ==
  ASSUME NEW S, NEW s \in Seq(S), NEW x \in S
  PROVE  /\ Append(s, x) \in Seq(S)
         /\ Len(Append(s, x)) = Len(s) + 1
         /\ Append(s, x)[Len(s) + 1] = x
         /\ \A i \in 1 .. Len(s) : Append(s, x)[i] = s[i]
  BY AppendProperties

LEMMA Popped ==
  ASSUME NEW S, NEW s \in Seq(S), s # <<>>
  PROVE  /\ Front(s) \in Seq(S)
         /\ Len(s) \in Nat \ {0}
         /\ Len(Front(s)) = Len(s) - 1
         /\ \A i \in 1 .. Len(s) - 1 : Front(s)[i] = s[i]
         /\ Last(s) = s[Len(s)] /\ Last(s) \in S
<1>1. Len(s) \in Nat /\ Len(s) # 0
  BY EmptySeq
<1>2. Front(s) = SubSeq(s, 1, Len(s) - 1) /\ Last(s) = s[Len(s)]
  BY DEF Front, Last
<1>3. /\ SubSeq(s, 1, Len(s) - 1) \in Seq(S)
      /\ Len(SubSeq(s, 1, Len(s) - 1)) = Len(s) - 1
      /\ \A i \in 1 .. Len(s) - 1 : SubSeq(s, 1, Len(s) - 1)[i] = s[i]
  <2> DEFINE n == Len(s) - 1
  <2>1. n \in Int /\ 1 \in Int /\ \A i \in 1 .. n : s[i] \in S
    BY <1>1
  <2>2. /\ SubSeq(s, 1, n) \in Seq(S)
        /\ Len(SubSeq(s, 1, n)) = IF 1 <= n THEN n - 1 + 1 ELSE 0
        /\ \A i \in 1 .. n - 1 + 1 : SubSeq(s, 1, n)[i] = s[1 + i - 1]
    BY <2>1, SubSeqProperties
  <2> HIDE DEF n
  <2>3. n = Len(s) - 1 /\ n \in Nat
    BY <1>1 DEF n
  <2> QED BY <1>1, <2>2, <2>3
<1>4. s[Len(s)] \in S
  BY <1>1
<1> QED BY <1>1, <1>2, <1>3, <1>4

(* A list is in the frame its tag says. *)
LEMMA Tags ==
  ASSUME NEW fr \in Frame
  PROVE  /\ fr.f = "list" => fr \in ListFrame
         /\ fr.f = "for" => fr \in ForFrame
         /\ fr.f = "try" => fr \in TryFrame
         /\ fr.f \in {"left", "right", "decl", "return"} => fr \in Operand
         /\ fr.f = "left" => fr.node \in Nodes /\ fr.node.op = "plus"
         /\ fr.f = "right" => fr.left \in Values
         /\ fr.f = "decl" => fr.v \in Variables
         /\ fr \in Routine <=> fr.f = "routine"
         /\ fr \in Plain <=> fr.f # "routine"
         /\ fr.f \in {"list", "for", "try", "left", "right", "decl", "return", "routine"}
<1>1. CASE fr \in ListFrame
  BY <1>1 DEF Frame, Plain, ListFrame, ForFrame, TryFrame, Operand, Routine
<1>2. CASE fr \in ForFrame
  BY <1>2 DEF Frame, Plain, ListFrame, ForFrame, TryFrame, Operand, Routine
<1>3. CASE fr \in TryFrame
  BY <1>3 DEF Frame, Plain, ListFrame, ForFrame, TryFrame, Operand, Routine
<1>4. CASE fr \in Operand
  BY <1>4 DEF Frame, Plain, ListFrame, ForFrame, TryFrame, Operand, Routine
<1>5. CASE fr \in Routine
  BY <1>5 DEF Frame, Plain, ListFrame, ForFrame, TryFrame, Operand, Routine
<1> QED BY <1>1, <1>2, <1>3, <1>4, <1>5 DEF Frame, Plain

-----------------------------------------------------------------------------
(* The stack. *)

(* A frame of the function that runs. *)
LEMMA PushFrame ==
  ASSUME NEW s, NEW w, NEW p, NEW L, NEW fr \in Plain,
         StackOK(s, w, p), HeldOK(s, w, p, L),
         HasList(fr, w, p), fr.f = "list" => fr.i <= Len(fr.ins)
  PROVE  StackOK(Append(s, fr), w, p) /\ HeldOK(Append(s, fr), w, p, L)
<1> DEFINE t == Append(s, fr)
<1>1. fr \in Frame /\ ~IsCall(fr)
  BY Tags DEF Frame, IsCall
<1>2. s \in Seq(Frame) /\ Len(s) \in Nat /\ w \in Nat /\ p \in Values
  BY DEF StackOK
<1>3. t \in Seq(Frame) /\ Len(t) = Len(s) + 1 /\ t[Len(s) + 1] = fr /\ \A i \in 1 .. Len(s) : t[i] = s[i]
  BY <1>1, <1>2, Pushed
<1> HIDE DEF t
<1>4. \A i \in 1 .. Len(t) : t[i].f = "list" => t[i].i <= Len(t[i].ins)
  BY <1>2, <1>3 DEF StackOK
<1>5. \A i \in 1 .. Len(t) : Runs(t, i) => HasList(t[i], w, p)
  BY <1>1, <1>2, <1>3 DEF StackOK, Runs
<1>6. \A i, k \in 1 .. Len(t) : SuspendedBy(t, i, k) => HasList(t[i], t[k].where, t[k].param)
  <2> SUFFICES ASSUME NEW i \in 1 .. Len(t), NEW k \in 1 .. Len(t), SuspendedBy(t, i, k)
               PROVE  HasList(t[i], t[k].where, t[k].param)
    OBVIOUS
  <2>1. k \in 1 .. Len(s) /\ i \in 1 .. Len(s)
    BY <1>1, <1>2, <1>3 DEF SuspendedBy
  <2>2. SuspendedBy(s, i, k)
    BY <1>2, <1>3, <2>1 DEF SuspendedBy
  <2> QED BY <1>3, <2>1, <2>2 DEF StackOK
<1>7. Younger(t, w)
  BY <1>1, <1>2, <1>3 DEF StackOK, Younger
<1>8. \A k \in 1 .. Len(t) : IsCall(t[k]) =>
       Rooted(L, t[k].where) /\ Passed(L, t[k].where, t[k].param)
  BY <1>1, <1>2, <1>3 DEF HeldOK
<1>9. Based(t, w)
  BY <1>1, <1>2, <1>3 DEF StackOK, Based
<1> QED BY <1>2, <1>3, <1>4, <1>5, <1>6, <1>7, <1>8, <1>9 DEF StackOK, HeldOK, t

LEMMA PopFrame ==
  ASSUME NEW s, NEW w, NEW p, NEW L,
         StackOK(s, w, p), HeldOK(s, w, p, L), s # <<>>, ~IsCall(Last(s))
  PROVE  StackOK(Front(s), w, p) /\ HeldOK(Front(s), w, p, L)
<1> DEFINE t == Front(s)
<1>2. s \in Seq(Frame) /\ Len(s) \in Nat \ {0} /\ w \in Nat /\ p \in Values /\ ~IsCall(s[Len(s)])
  BY Popped DEF StackOK
<1>3. t \in Seq(Frame) /\ Len(t) = Len(s) - 1 /\ \A i \in 1 .. Len(t) : t[i] = s[i]
  BY <1>2, Popped
<1> HIDE DEF t
<1>4. \A i \in 1 .. Len(t) : t[i].f = "list" => t[i].i <= Len(t[i].ins)
  BY <1>2, <1>3 DEF StackOK
<1>5. \A i \in 1 .. Len(t) : Runs(t, i) => HasList(t[i], w, p)
  <2> SUFFICES ASSUME NEW i \in 1 .. Len(t), Runs(t, i)
               PROVE  HasList(t[i], w, p)
    OBVIOUS
  <2>1. Runs(s, i) /\ i \in 1 .. Len(s)
    BY <1>2, <1>3 DEF Runs
  <2> QED BY <1>3, <2>1 DEF StackOK
<1>6. \A i, k \in 1 .. Len(t) : SuspendedBy(t, i, k) => HasList(t[i], t[k].where, t[k].param)
  <2> SUFFICES ASSUME NEW i \in 1 .. Len(t), NEW k \in 1 .. Len(t), SuspendedBy(t, i, k)
               PROVE  HasList(t[i], t[k].where, t[k].param)
    OBVIOUS
  <2>1. i \in 1 .. Len(s) /\ k \in 1 .. Len(s) /\ k \in i + 1 .. Len(s) /\ k <= Len(t)
    BY <1>2, <1>3 DEF SuspendedBy
  <2>2. SuspendedBy(s, i, k)
    BY <1>2, <1>3, <2>1 DEF SuspendedBy
  <2> QED BY <1>3, <2>1, <2>2 DEF StackOK
<1>7. Younger(t, w)
  <2> SUFFICES ASSUME NEW k \in 1 .. Len(t), IsCall(t[k])
               PROVE  t[k].where < w /\ \A j \in k + 1 .. Len(t) : IsCall(t[j]) => t[k].where < t[j].where
    BY DEF Younger
  <2>1. k \in 1 .. Len(s) /\ t[k] = s[k] /\ Younger(s, w)
    BY <1>2, <1>3 DEF StackOK
  <2>2. \A j \in k + 1 .. Len(t) : j \in k + 1 .. Len(s) /\ t[j] = s[j]
    BY <1>2, <1>3
  <2> QED BY <2>1, <2>2 DEF Younger
<1>8. \A k \in 1 .. Len(t) : IsCall(t[k]) =>
       Rooted(L, t[k].where) /\ Passed(L, t[k].where, t[k].param)
  BY <1>2, <1>3 DEF HeldOK
<1>9. Based(t, w)
  BY <1>2, <1>3 DEF StackOK, Based
<1> QED BY <1>2, <1>3, <1>4, <1>5, <1>6, <1>7, <1>8, <1>9 DEF StackOK, HeldOK, t

(* A call: the function that ran is suspended by it. *)
LEMMA PushCall ==
  ASSUME NEW s, NEW w, NEW p, NEW l \in Nat, NEW q \in Values,
         StackOK(s, w, p), w < l
  PROVE  StackOK(Append(s, [f |-> "routine", where |-> w, param |-> p]), l, q)
<1> DEFINE fr == [f |-> "routine", where |-> w, param |-> p]
           t  == Append(s, fr)
<1>2. s \in Seq(Frame) /\ Len(s) \in Nat /\ w \in Nat /\ p \in Values
  BY DEF StackOK
<1>1. fr \in Frame /\ IsCall(fr) /\ fr.where = w /\ fr.param = p /\ fr.f = "routine"
  BY <1>2 DEF Frame, Routine, IsCall
<1> HIDE DEF fr
<1>3. t \in Seq(Frame) /\ Len(t) = Len(s) + 1 /\ t[Len(s) + 1] = fr /\ \A i \in 1 .. Len(s) : t[i] = s[i]
  BY <1>1, <1>2, Pushed
<1> HIDE DEF t
<1>4. \A i \in 1 .. Len(t) : t[i].f = "list" => t[i].i <= Len(t[i].ins)
  BY <1>1, <1>2, <1>3 DEF StackOK
<1>5. \A i \in 1 .. Len(t) : Runs(t, i) => HasList(t[i], l, q)
  BY <1>1, <1>2, <1>3 DEF Runs, HasList
<1>6. \A i, k \in 1 .. Len(t) : SuspendedBy(t, i, k) => HasList(t[i], t[k].where, t[k].param)
  <2> SUFFICES ASSUME NEW i \in 1 .. Len(t), NEW k \in 1 .. Len(t), SuspendedBy(t, i, k)
               PROVE  HasList(t[i], t[k].where, t[k].param)
    OBVIOUS
  <2>1. i \in 1 .. Len(s)
    BY <1>2, <1>3 DEF SuspendedBy
  <2>2. CASE k = Len(t)
    <3>1. Runs(s, i)
      BY <1>2, <1>3, <2>1, <2>2 DEF SuspendedBy, Runs
    <3> QED BY <1>1, <1>3, <2>1, <2>2, <3>1 DEF StackOK
  <2>3. CASE k # Len(t)
    <3>1. SuspendedBy(s, i, k) /\ k \in 1 .. Len(s)
      BY <1>2, <1>3, <2>1, <2>3 DEF SuspendedBy
    <3> QED BY <1>3, <2>1, <3>1 DEF StackOK
  <2> QED BY <2>2, <2>3
<1>7. Younger(t, l)
  <2> SUFFICES ASSUME NEW k \in 1 .. Len(t), IsCall(t[k])
               PROVE  t[k].where < l /\ \A j \in k + 1 .. Len(t) : IsCall(t[j]) => t[k].where < t[j].where
    BY DEF Younger
  <2>1. CASE k = Len(t)
    BY <1>1, <1>2, <1>3, <2>1
  <2>2. CASE k # Len(t)
    <3>1. k \in 1 .. Len(s) /\ t[k] = s[k] /\ s[k] \in Frame
      BY <1>2, <1>3, <2>2
    <3>2. s[k].where \in Nat
      BY <3>1, Tags DEF IsCall, Routine
    <3>3. s[k].where < w /\ \A j \in k + 1 .. Len(s) : IsCall(s[j]) => s[k].where < s[j].where
      BY <3>1 DEF StackOK, Younger
    <3>4. s[k].where < l
      BY <1>2, <3>2, <3>3
    <3> QED BY <1>1, <1>2, <1>3, <3>1, <3>3, <3>4
  <2> QED BY <2>1, <2>2
<1>8. Based(t, l)
  BY <1>1, <1>2, <1>3 DEF StackOK, Based
<1> QED BY <1>2, <1>3, <1>4, <1>5, <1>6, <1>7, <1>8 DEF StackOK, t, fr

(* The end of a call: what it suspended goes on. *)
LEMMA PopCall ==
  ASSUME NEW s, NEW w, NEW p, NEW L,
         StackOK(s, w, p), HeldOK(s, w, p, L), s # <<>>, IsCall(Last(s))
  PROVE  /\ Last(s).where \in Nat /\ Last(s).where < w
         /\ StackOK(Front(s), Last(s).where, Last(s).param)
         /\ HeldOK(Front(s), Last(s).where, Last(s).param, L)
<1> DEFINE t  == Front(s)
           fr == Last(s)
           n  == Len(s)
<1>2. s \in Seq(Frame) /\ n \in Nat \ {0} /\ w \in Nat /\ fr = s[n] /\ fr \in Frame
  BY Popped DEF StackOK
<1>3. t \in Seq(Frame) /\ Len(t) = n - 1 /\ \A i \in 1 .. Len(t) : t[i] = s[i]
  BY <1>2, Popped
<1>1. fr.where \in Nat /\ fr.param \in Values /\ IsCall(fr) /\ fr.where < w /\ IsCall(s[n])
  BY <1>2, Tags DEF IsCall, Routine, StackOK, Younger
<1> HIDE DEF t, fr
<1>4. \A i \in 1 .. Len(t) : t[i].f = "list" => t[i].i <= Len(t[i].ins)
  BY <1>2, <1>3 DEF StackOK
<1>5. \A i \in 1 .. Len(t) : Runs(t, i) => HasList(t[i], fr.where, fr.param)
  <2> SUFFICES ASSUME NEW i \in 1 .. Len(t), Runs(t, i)
               PROVE  HasList(t[i], fr.where, fr.param)
    OBVIOUS
  <2>1. SuspendedBy(s, i, n) /\ i \in 1 .. n /\ n \in 1 .. n
    BY <1>1, <1>2, <1>3 DEF Runs, SuspendedBy
  <2> QED BY <1>2, <1>3, <2>1 DEF StackOK
<1>6. \A i, k \in 1 .. Len(t) : SuspendedBy(t, i, k) => HasList(t[i], t[k].where, t[k].param)
  <2> SUFFICES ASSUME NEW i \in 1 .. Len(t), NEW k \in 1 .. Len(t), SuspendedBy(t, i, k)
               PROVE  HasList(t[i], t[k].where, t[k].param)
    OBVIOUS
  <2>1. SuspendedBy(s, i, k) /\ i \in 1 .. n /\ k \in 1 .. n
    BY <1>2, <1>3 DEF SuspendedBy
  <2> QED BY <1>3, <2>1 DEF StackOK
<1>7. Younger(t, fr.where)
  <2> SUFFICES ASSUME NEW k \in 1 .. Len(t), IsCall(t[k])
               PROVE  t[k].where < fr.where /\ \A j \in k + 1 .. Len(t) : IsCall(t[j]) => t[k].where < t[j].where
    BY DEF Younger
  <2>1. k \in 1 .. n /\ n \in k + 1 .. n /\ t[k] = s[k] /\ Younger(s, w)
    BY <1>2, <1>3 DEF StackOK
  <2>2. \A j \in k + 1 .. Len(t) : j \in k + 1 .. n /\ t[j] = s[j]
    BY <1>2, <1>3
  <2> QED BY <1>1, <1>2, <2>1, <2>2 DEF Younger
<1>8. \A k \in 1 .. Len(t) : IsCall(t[k]) =>
       Rooted(L, t[k].where) /\ Passed(L, t[k].where, t[k].param)
  BY <1>2, <1>3 DEF HeldOK
<1>9. Rooted(L, fr.where) /\ Passed(L, fr.where, fr.param)
  BY <1>1, <1>2 DEF HeldOK
<1>10. Based(t, fr.where)
  BY <1>1, <1>2, <1>3 DEF StackOK, Based
<1> QED BY <1>1, <1>2, <1>3, <1>4, <1>5, <1>6, <1>7, <1>8, <1>9, <1>10 DEF StackOK, HeldOK, t, fr

-----------------------------------------------------------------------------
(* The memory. *)

(* A set of naturals that is not empty has a least element. *)
LEMMA NatMin ==
  ASSUME NEW S \in SUBSET Nat, S # {}
  PROVE  \E x \in S : \A y \in S : x <= y
<1> DEFINE R == {ss \in Nat \X Nat : ss[1] < ss[2]}
<1>1. IsWellFoundedOn(R, Nat)
  BY NatLessThanWellFounded DEF OpToRel
<1>2. PICK x \in S : \A y \in S : ~(<<y, x>> \in R)
  BY <1>1, WFMin
<1>3. \A y \in S : <<y, x>> \notin R => x <= y
  OBVIOUS
<1> QED BY <1>2, <1>3

(* A new object is one that was never made. *)
LEMMA FreshIsNew ==
  ASSUME EnoughMemory
  PROVE  Fresh \in Objects /\ heap[Fresh] = None
<1> DEFINE S == {o \in Objects : heap[o] = None}
<1>1. S \in SUBSET Nat /\ S # {}
  BY MemoryAssumption DEF EnoughMemory
<1>2. PICK x \in S : \A y \in S : x <= y
  BY <1>1, NatMin
<1>3. \A p \in Objects : p < x => heap[p] # None
  BY <1>1, <1>2, MemoryAssumption
<1>4. x \in Objects /\ heap[x] = None /\ \A p \in Objects : p < x => heap[p] # None
  BY <1>2, <1>3
<1> QED BY <1>4 DEF Fresh

(* The number of lists is that of the next. *)
LEMMA NextList ==
  ASSUME NEW n \in Nat
  PROVE  Cardinality(0 .. n) = n + 1
  BY FS_Interval

(* The lists that go with w are those that are younger. *)
LEMMA WithinIsYounger ==
  ASSUME NEW w \in Nat, MemoryOK(lists, heap, slots), Rooted(lists, w)
  PROVE  Within(w) = {n \in DOMAIN lists : w <= n}
<1> DEFINE Y == {n \in DOMAIN lists : w <= n}
<1>1. DOMAIN lists \subseteq Nat /\ w \in DOMAIN lists
  BY DEF MemoryOK, Rooted
<1>2. \A m \in DOMAIN lists : lists[m].lists \subseteq DOMAIN lists
                             /\ \A n \in lists[m].lists : m < n
  BY DEF MemoryOK
<1>3. ASSUME NEW n \in Within(w)
      PROVE  n \in Y
  <2>1. Y \in SUBSET DOMAIN lists /\ w \in Y
    BY <1>1
  <2>2. \A m \in Y : lists[m].lists \subseteq Y
    BY <1>1, <1>2
  <2> QED BY <2>1, <2>2 DEF Within
<1>4. ASSUME NEW S \in SUBSET DOMAIN lists, w \in S, \A m \in S : lists[m].lists \subseteq S
      PROVE  Y \subseteq S
  <2> SUFFICES ASSUME Y \ S # {}
               PROVE  FALSE
    OBVIOUS
  <2>1. Y \ S \in SUBSET Nat
    BY <1>1
  <2>2. PICK x \in Y \ S : \A y \in Y \ S : x <= y
    BY <2>1, NatMin
  <2>3. x \in DOMAIN lists /\ w < x
    BY <1>1, <1>4, <2>2
  <2>4. PICK m \in DOMAIN lists : w <= m /\ m < x /\ x \in lists[m].lists
    BY <2>3 DEF Rooted
  <2>5. m \in S
    BY <1>1, <2>2, <2>3, <2>4
  <2> QED BY <1>4, <2>2, <2>4, <2>5
<1>5. Y \subseteq Within(w)
  <2> SUFFICES ASSUME NEW n \in Y
               PROVE  n \in Within(w)
    OBVIOUS
  <2>1. \A S \in SUBSET DOMAIN lists :
          w \in S /\ (\A m \in S : lists[m].lists \subseteq S) => n \in S
    BY <1>4
  <2> QED BY <2>1 DEF Within
<1> QED BY <1>3, <1>5

(* Objects that a block may delete. *)
OfVariables == {slots[v] : v \in Variables} \ {None}

(* A clean of the current list deletes its objects and those of the lists  *)
(* of the calls made under it.                                             *)
LEMMA CleanMemory ==
  ASSUME NEW more \in SUBSET OfVariables, NEW s, NEW p,
         MemoryOK(lists, heap, slots), StackOK(s, where, p), HeldOK(s, where, p, lists),
         heap' = Delete(Swept(where) \cup more), lists' = Cleaned(where)
  PROVE  /\ MemoryOK(lists', heap', slots)
         /\ HeldOK(s, where, p, lists')
         /\ DOMAIN lists' \subseteq DOMAIN lists
         /\ \A m \in DOMAIN lists : m < where => m \in DOMAIN lists' /\ lists'[m] = lists[m]
<1>1. where \in Nat /\ s \in Seq(Frame) /\ p \in Values
  BY DEF StackOK
<1>2. Rooted(lists, where) /\ where \in DOMAIN lists
  BY DEF HeldOK, Rooted
<1>3. Within(where) = {n \in DOMAIN lists : where <= n}
  BY <1>1, <1>2, WithinIsYounger
<1>4. PICK top \in Nat : DOMAIN lists = 0 .. top
  BY DEF MemoryOK
<1>6. (DOMAIN lists \ Within(where)) \cup {where} = 0 .. where
  BY <1>1, <1>2, <1>3, <1>4
<1>7. lists' = [n \in 0 .. where |-> IF n = where THEN NewItems ELSE lists[n]]
  BY <1>6 DEF Cleaned
<1>8. /\ DOMAIN lists' = 0 .. where
      /\ lists'[where] = NewItems
      /\ \A n \in 0 .. where : n # where => lists'[n] = lists[n]
      /\ 0 .. where \subseteq DOMAIN lists
      /\ NewItems.objects = {} /\ NewItems.lists = {}
  BY <1>1, <1>2, <1>4, <1>7 DEF NewItems
<1>9. Swept(where) = UNION {lists[n].objects : n \in {m \in DOMAIN lists : where <= m}}
  BY <1>3 DEF Swept
<1>10. \A o \in Objects : heap'[o] = IF o \in Swept(where) \cup more THEN heap[o] + 1 ELSE heap[o]
  BY DEF Delete
<1>11. MemoryOK(lists', heap', slots)
  <2>1. \A m \in DOMAIN lists' : lists'[m] \in [objects : SUBSET Objects, lists : SUBSET DOMAIN lists']
    <3> SUFFICES ASSUME NEW m \in 0 .. where
                 PROVE  lists'[m] \in [objects : SUBSET Objects, lists : SUBSET (0 .. where)]
      BY <1>8
    <3>1. CASE m = where
      BY <1>8, <3>1 DEF NewItems
    <3>2. CASE m # where
      <4>1. m \in DOMAIN lists /\ m < where /\ lists'[m] = lists[m]
        BY <1>1, <1>8, <3>2
      <4>2. lists[m] \in [objects : SUBSET Objects, lists : SUBSET DOMAIN lists]
        BY <4>1 DEF MemoryOK
      <4>3. \A n \in lists[m].lists : n \in 0 .. where
        BY <1>2, <1>4, <4>1, <4>2, <1>1 DEF Rooted
      <4> QED BY <4>1, <4>2, <4>3
    <3> QED BY <3>1, <3>2
  <2>2. \A m \in DOMAIN lists' : \A n \in lists'[m].lists : m < n
    BY <1>8 DEF MemoryOK
  <2>3. \A m \in DOMAIN lists' : \A o \in lists'[m].objects : m \in DOMAIN lists /\ m < where /\ o \in lists[m].objects
    BY <1>1, <1>8
  <2>4. ASSUME NEW m \in DOMAIN lists', NEW o \in lists'[m].objects
        PROVE  heap'[o] = 0
    <3>1. m \in DOMAIN lists /\ m < where /\ o \in lists[m].objects /\ o \in Objects /\ heap[o] = 0
      BY <2>3 DEF MemoryOK
    <3>2. o \notin Swept(where)
      <4> SUFFICES ASSUME NEW n \in DOMAIN lists, where <= n, o \in lists[n].objects
                   PROVE  FALSE
        BY <1>9
      <4>1. m # n
        BY <1>1, <1>4, <3>1
      <4> QED BY <3>1, <4>1 DEF MemoryOK
    <3>3. o \notin more
      BY <3>1 DEF OfVariables, MemoryOK
    <3> QED BY <1>10, <3>1, <3>2, <3>3
  <2>5. \A m, n \in DOMAIN lists' : m # n => lists'[m].objects \cap lists'[n].objects = {}
    BY <2>3 DEF MemoryOK
  <2>6. \A o \in Swept(where) \cup more : heap[o] \in Nat
    <3>1. \A o \in Swept(where) : heap[o] = 0
      BY <1>9 DEF MemoryOK
    <3>2. \A o \in more : o \in Objects /\ heap[o] # None
      BY DEF OfVariables, MemoryOK, Values
    <3>3. heap \in [Objects -> {None} \cup Nat]
      BY DEF MemoryOK
    <3> QED BY <3>1, <3>2, <3>3
  <2>7. heap' \in [Objects -> {None} \cup Nat]
    <3>1. heap' = [o \in Objects |-> IF o \in Swept(where) \cup more THEN heap[o] + 1 ELSE heap[o]]
      BY DEF Delete
    <3>2. \A o \in Objects : heap[o] \in {None} \cup Nat
      BY DEF MemoryOK
    <3>3. \A o \in Objects : o \in Swept(where) \cup more => heap[o] + 1 \in Nat
      BY <2>6
    <3> QED BY <3>1, <3>2, <3>3
  <2>8. slots \in [Variables -> Values]
    BY DEF MemoryOK
  <2>9. ASSUME NEW x \in Variables, slots[x] # None
        PROVE  heap'[slots[x]] # None /\ \A m \in DOMAIN lists' : slots[x] \notin lists'[m].objects
    <3>1. heap[slots[x]] # None /\ slots[x] \in Objects /\ \A m \in DOMAIN lists : slots[x] \notin lists[m].objects
      BY <2>8, <2>9 DEF MemoryOK, Values
    <3>2. heap[slots[x]] + 1 # None \/ heap[slots[x]] \notin Nat
      BY MemoryAssumption
    <3> QED BY <1>10, <2>3, <2>6, <3>1, <3>2
  <2>10. DOMAIN lists' = 0 .. where /\ where \in Nat
    BY <1>1, <1>8
  <2> QED BY <2>1, <2>2, <2>4, <2>5, <2>7, <2>8, <2>9, <2>10 DEF MemoryOK
<1>12. ASSUME NEW v \in Nat, v <= where, NEW q, Rooted(lists, v), Passed(lists, v, q)
       PROVE  Rooted(lists', v) /\ Passed(lists', v, q)
  <2>1. v \in DOMAIN lists'
    BY <1>1, <1>8, <1>12
  <2>2. ASSUME NEW n \in DOMAIN lists', v < n
        PROVE  \E m \in DOMAIN lists' : v <= m /\ m < n /\ n \in lists'[m].lists
    <3>1. PICK m \in DOMAIN lists : v <= m /\ m < n /\ n \in lists[m].lists
      BY <1>8, <1>12, <2>2 DEF Rooted
    <3>2. m \in 0 .. where /\ m # where
      BY <1>1, <1>4, <1>8, <3>1
    <3> QED BY <1>8, <3>1, <3>2
  <2>3. \A m \in DOMAIN lists' : m < v => \A n \in lists'[m].lists : n <= v
    BY <1>8, <1>12 DEF Rooted
  <2>4. Passed(lists', v, q)
    <3>1. ASSUME NEW m \in DOMAIN lists, m < v, q \in lists[m].objects
          PROVE  m \in DOMAIN lists' /\ q \in lists'[m].objects
      BY <1>1, <1>4, <1>8, <1>12, <3>1
    <3> QED BY <1>12, <3>1 DEF Passed
  <2> QED BY <2>1, <2>2, <2>3, <2>4 DEF Rooted
<1>13. HeldOK(s, where, p, lists')
  <2>1. Rooted(lists', where) /\ Passed(lists', where, p)
    BY <1>1, <1>12 DEF HeldOK
  <2>2. ASSUME NEW k \in 1 .. Len(s), IsCall(s[k])
        PROVE  Rooted(lists', s[k].where) /\ Passed(lists', s[k].where, s[k].param)
    <3>1. s[k] \in Frame
      BY <1>1
    <3>2. s[k].where \in Nat /\ s[k].where < where
      BY <2>2, <3>1, Tags DEF IsCall, Routine, StackOK, Younger
    <3>3. s[k].where <= where
      BY <1>1, <3>2
    <3> QED BY <1>12, <2>2, <3>2, <3>3 DEF HeldOK
  <2> QED BY <2>1, <2>2 DEF HeldOK
<1>14. DOMAIN lists' \subseteq DOMAIN lists
  BY <1>8
<1>15. \A m \in DOMAIN lists : m < where => m \in DOMAIN lists' /\ lists'[m] = lists[m]
  BY <1>1, <1>4, <1>8
<1> QED BY <1>11, <1>13, <1>14, <1>15

LEMMA CleanHere ==
  ASSUME NEW more \in SUBSET OfVariables, NEW s, NEW p,
         MemoryOK(lists, heap, slots), StackOK(s, where, p), HeldOK(s, where, p, lists),
         clean(where, more)
  PROVE  /\ where' = where
         /\ MemoryOK(lists', heap', slots)
         /\ HeldOK(s, where, p, lists')
         /\ DOMAIN lists' \subseteq DOMAIN lists
         /\ \A m \in DOMAIN lists : m < where => m \in DOMAIN lists' /\ lists'[m] = lists[m]
<1>1. heap' = Delete(Swept(where) \cup more) /\ lists' = Cleaned(where) /\ where' = where
  BY DEF clean, WhereAfter
<1> QED BY <1>1, CleanMemory

(* The objects of a block, when its temporaries are kept. *)
LEMMA DeleteVariables ==
  ASSUME NEW more \in SUBSET OfVariables, MemoryOK(lists, heap, slots), heap' = Delete(more)
  PROVE  MemoryOK(lists, heap', slots)
<1>1. /\ heap \in [Objects -> {None} \cup Nat] /\ slots \in [Variables -> Values]
      /\ \A m \in DOMAIN lists : lists[m].objects \subseteq Objects
  BY DEF MemoryOK
<1>2. \A o \in more : o \in Objects /\ heap[o] \in Nat /\ \A m \in DOMAIN lists : o \notin lists[m].objects
  BY <1>1 DEF OfVariables, MemoryOK, Values
<1>3. heap' = [o \in Objects |-> IF o \in more THEN heap[o] + 1 ELSE heap[o]]
  BY DEF Delete
<1>4. heap' \in [Objects -> {None} \cup Nat]
  BY <1>1, <1>2, <1>3
<1>5. \A m \in DOMAIN lists : \A o \in lists[m].objects : heap'[o] = 0
  BY <1>1, <1>2, <1>3 DEF MemoryOK
<1>6. ASSUME NEW x \in Variables, slots[x] # None
      PROVE  heap'[slots[x]] # None /\ \A m \in DOMAIN lists : slots[x] \notin lists[m].objects
  <2>1. heap[slots[x]] # None /\ slots[x] \in Objects /\ \A m \in DOMAIN lists : slots[x] \notin lists[m].objects
    BY <1>1, <1>6 DEF MemoryOK, Values
  <2>2. heap[slots[x]] \in Nat => heap[slots[x]] + 1 # None
    BY MemoryAssumption
  <2> QED BY <1>2, <1>3, <2>1, <2>2
<1> QED BY <1>1, <1>4, <1>5, <1>6 DEF MemoryOK

(* A list with more objects. *)
Grows(L, M) == DOMAIN L \subseteq DOMAIN M /\ \A m \in DOMAIN L : L[m].objects \subseteq M[m].objects

LEMMA GrowsPassed ==
  ASSUME NEW L, NEW M, NEW w, NEW p, Grows(L, M), Passed(L, w, p)
  PROVE  Passed(M, w, p)
  BY DEF Grows, Passed

(* A new object, in the current list. *)
LEMMA MakeTemporary ==
  ASSUME EnoughMemory, MemoryOK(lists, heap, slots), where \in DOMAIN lists,
         Made(Fresh), Temporary(Fresh)
  PROVE  /\ MemoryOK(lists', heap', slots)
         /\ DOMAIN lists' = DOMAIN lists
         /\ Fresh \in lists'[where].objects
         /\ Grows(lists, lists')
         /\ \A s, w, p : HeldOK(s, w, p, lists) => HeldOK(s, w, p, lists')
<1>1. Fresh \in Objects /\ heap[Fresh] = None
  BY FreshIsNew
<1> DEFINE new == Fresh
<1>2. new \in Objects /\ heap[new] = None
  BY <1>1
<1>3. /\ heap' = [heap EXCEPT ![new] = 0]
      /\ lists' = [lists EXCEPT ![where].objects = @ \cup {new}]
  BY DEF Made, Temporary
<1> HIDE DEF new
<1>4. PICK top \in Nat : DOMAIN lists = 0 .. top
  BY DEF MemoryOK
<1>5. \A m \in DOMAIN lists : lists[m] \in [objects : SUBSET Objects, lists : SUBSET DOMAIN lists]
  BY DEF MemoryOK
<1>6. /\ DOMAIN lists' = DOMAIN lists
      /\ \A m \in DOMAIN lists : lists'[m].lists = lists[m].lists
      /\ \A m \in DOMAIN lists : m # where => lists'[m].objects = lists[m].objects
      /\ lists'[where].objects = lists[where].objects \cup {new}
      /\ \A m \in DOMAIN lists : lists'[m] \in [objects : SUBSET Objects, lists : SUBSET DOMAIN lists]
  BY <1>2, <1>3, <1>5
<1>7. \A m \in DOMAIN lists : new \notin lists[m].objects
  BY <1>2, MemoryAssumption DEF MemoryOK
<1>8. heap' \in [Objects -> {None} \cup Nat] /\ heap'[new] = 0 /\ \A o \in Objects : o # new => heap'[o] = heap[o]
  BY <1>2, <1>3 DEF MemoryOK
<1>9. MemoryOK(lists', heap', slots)
  <2>1. \A m \in DOMAIN lists' : \A n \in lists'[m].lists : m < n
    BY <1>6 DEF MemoryOK
  <2>2. \A m \in DOMAIN lists' : \A o \in lists'[m].objects : heap'[o] = 0
    BY <1>5, <1>6, <1>8 DEF MemoryOK
  <2>3. \A m, n \in DOMAIN lists' : m # n => lists'[m].objects \cap lists'[n].objects = {}
    BY <1>6, <1>7 DEF MemoryOK
  <2>4. slots \in [Variables -> Values]
    BY DEF MemoryOK
  <2>5. ASSUME NEW x \in Variables, slots[x] # None
        PROVE  heap'[slots[x]] # None /\ \A m \in DOMAIN lists' : slots[x] \notin lists'[m].objects
    <3>1. slots[x] \in Objects /\ heap[slots[x]] # None /\ \A m \in DOMAIN lists : slots[x] \notin lists[m].objects
      BY <2>4, <2>5 DEF Values, MemoryOK
    <3>2. slots[x] # new
      BY <1>2, <3>1
    <3> QED BY <1>6, <1>8, <3>1, <3>2
  <2> QED BY <1>4, <1>6, <1>8, <2>1, <2>2, <2>3, <2>4, <2>5 DEF MemoryOK
<1>10. Grows(lists, lists')
  BY <1>6 DEF Grows
<1>11. \A s, w, p : HeldOK(s, w, p, lists) => HeldOK(s, w, p, lists')
  <2>1. \A w : Rooted(lists, w) => Rooted(lists', w)
    BY <1>6 DEF Rooted
  <2>2. \A w, p : Passed(lists, w, p) => Passed(lists', w, p)
    BY <1>10, GrowsPassed
  <2> QED BY <2>1, <2>2 DEF HeldOK
<1> QED BY <1>6, <1>9, <1>10, <1>11 DEF new

(* A new object, that a variable points to. *)
LEMMA MakeVariable ==
  ASSUME EnoughMemory, MemoryOK(lists, heap, slots), NEW v \in Variables,
         Made(Fresh), slots' = [slots EXCEPT ![v] = Fresh]
  PROVE  MemoryOK(lists, heap', slots')
<1>1. Fresh \in Objects /\ heap[Fresh] = None
  BY FreshIsNew
<1> DEFINE new == Fresh
<1>2. new \in Objects /\ heap[new] = None
  BY <1>1
<1>3. heap' = [heap EXCEPT ![new] = 0] /\ slots' = [slots EXCEPT ![v] = new]
  BY DEF Made
<1> HIDE DEF new
<1>4. \A m \in DOMAIN lists : new \notin lists[m].objects /\ lists[m].objects \subseteq Objects
  BY <1>2, MemoryAssumption DEF MemoryOK
<1>5. heap' \in [Objects -> {None} \cup Nat] /\ heap'[new] = 0 /\ \A o \in Objects : o # new => heap'[o] = heap[o]
  BY <1>2, <1>3 DEF MemoryOK
<1>6. slots' \in [Variables -> Values] /\ slots'[v] = new /\ \A x \in Variables : x # v => slots'[x] = slots[x]
  BY <1>2, <1>3 DEF MemoryOK, Values
<1>7. \A m \in DOMAIN lists : \A o \in lists[m].objects : heap'[o] = 0
  BY <1>4, <1>5 DEF MemoryOK
<1>8. ASSUME NEW x \in Variables, slots'[x] # None
      PROVE  heap'[slots'[x]] # None /\ \A m \in DOMAIN lists : slots'[x] \notin lists[m].objects
  <2>1. CASE x = v
    BY <1>4, <1>5, <1>6, <2>1, MemoryAssumption
  <2>2. CASE x # v
    <3>1. slots[x] # None /\ slots'[x] = slots[x] /\ slots[x] \in Objects
      BY <1>6, <1>8, <2>2 DEF Values
    <3>2. heap[slots[x]] # None /\ \A m \in DOMAIN lists : slots[x] \notin lists[m].objects
      BY <3>1 DEF MemoryOK
    <3>3. slots[x] # new
      BY <1>2, <3>2
    <3> QED BY <1>5, <3>1, <3>2, <3>3
  <2> QED BY <2>1, <2>2
<1> QED BY <1>5, <1>6, <1>7, <1>8 DEF MemoryOK

(* A call: a list for it, and its parameters, in the list of the caller. *)
LEMMA CallMemory ==
  ASSUME EnoughMemory, FrameInv, Call
  PROVE  /\ where < where' /\ where' \in Nat
         /\ MemoryOK(lists', heap', slots)
         /\ HeldOK(ctl', where', param', lists')
         /\ DOMAIN lists' \subseteq Lists
         /\ DOMAIN lists \subseteq DOMAIN lists' /\ \A m \in DOMAIN lists : m < where'
         /\ Grows(lists, lists')
<1>1. Fresh \in Objects /\ heap[Fresh] = None
  BY FreshIsNew
<1> DEFINE new == Fresh
           l == Cardinality(DOMAIN lists)
<1>2. new \in Objects /\ heap[new] = None
  BY <1>1
<1>3. /\ heap' = [heap EXCEPT ![new] = 0]
      /\ lists' = [n \in DOMAIN lists \cup {l} |->
            IF n = l THEN NewItems
            ELSE IF n = where THEN [objects |-> lists[n].objects \cup {new},
                                    lists |-> lists[n].lists \cup {l}]
            ELSE lists[n]]
      /\ where' = l /\ param' = new
      /\ ctl' = Append(ctl, [f |-> "routine", where |-> where, param |-> param])
  BY DEF Call, Made, Push
<1>4. PICK top \in Nat : DOMAIN lists = 0 .. top
  BY DEF FrameInv, MemoryOK
<1>5. l = top + 1 /\ l \in Lists
  <2>1. Given("do") /\ now.node.op = "call"
    BY DEF Call
  <2> QED BY <1>4, <2>1, NextList DEF EnoughMemory
<1> HIDE DEF new, l
<1>6. where \in Nat /\ where \in DOMAIN lists /\ where < l
  BY <1>4, <1>5 DEF FrameInv, HeldOK, Rooted
<1>7. \A m \in DOMAIN lists : lists[m] \in [objects : SUBSET Objects, lists : SUBSET DOMAIN lists]
  BY DEF FrameInv, MemoryOK
<1>8. /\ DOMAIN lists' = 0 .. l
      /\ l \notin DOMAIN lists /\ DOMAIN lists \subseteq 0 .. l
      /\ lists'[l] = NewItems /\ NewItems.objects = {} /\ NewItems.lists = {}
      /\ lists'[where].objects = lists[where].objects \cup {new}
      /\ lists'[where].lists = lists[where].lists \cup {l}
      /\ lists'[where] \in [objects : SUBSET Objects, lists : SUBSET (0 .. l)]
      /\ \A m \in DOMAIN lists : m # where => lists'[m] = lists[m]
  <2>1. DOMAIN lists \cup {l} = 0 .. l /\ l \notin DOMAIN lists /\ DOMAIN lists \subseteq 0 .. l
    BY <1>4, <1>5
  <2>2. lists' = [n \in 0 .. l |->
            IF n = l THEN NewItems
            ELSE IF n = where THEN [objects |-> lists[n].objects \cup {new},
                                    lists |-> lists[n].lists \cup {l}]
            ELSE lists[n]]
    BY <1>3, <2>1
  <2>3. l \in 0 .. l /\ where \in 0 .. l /\ where # l
    BY <1>5, <1>6
  <2>4. lists'[where] = [objects |-> lists[where].objects \cup {new}, lists |-> lists[where].lists \cup {l}]
    BY <2>2, <2>3
  <2>5. lists[where].objects \subseteq Objects /\ lists[where].lists \subseteq 0 .. l
    BY <1>6, <1>7, <2>1
  <2> QED BY <1>2, <2>1, <2>2, <2>3, <2>4, <2>5 DEF NewItems
<1>9. \A m \in DOMAIN lists : new \notin lists[m].objects
  BY <1>2, MemoryAssumption DEF FrameInv, MemoryOK
<1>10. heap' \in [Objects -> {None} \cup Nat] /\ heap'[new] = 0 /\ \A o \in Objects : o # new => heap'[o] = heap[o]
  BY <1>2, <1>3 DEF FrameInv, MemoryOK
<1>11. MemoryOK(lists', heap', slots)
  <2>1. \A m \in DOMAIN lists' : lists'[m] \in [objects : SUBSET Objects, lists : SUBSET DOMAIN lists']
    <3> SUFFICES ASSUME NEW m \in 0 .. l
                 PROVE  lists'[m] \in [objects : SUBSET Objects, lists : SUBSET (0 .. l)]
      BY <1>8
    <3>1. CASE m = l
      BY <1>8, <3>1 DEF NewItems
    <3>2. CASE m # l /\ m # where
      <4>1. m \in DOMAIN lists
        BY <1>4, <1>5, <3>2
      <4> QED BY <1>7, <1>8, <3>2, <4>1
    <3> QED BY <1>8, <3>1, <3>2
  <2>2. \A m \in DOMAIN lists' : \A n \in lists'[m].lists : m < n
    <3> SUFFICES ASSUME NEW m \in 0 .. l, NEW n \in lists'[m].lists
                 PROVE  m < n
      BY <1>8
    <3>1. m # l
      BY <1>8
    <3>2. m \in DOMAIN lists
      BY <1>4, <1>5, <3>1
    <3>3. n \in lists[m].lists \/ (m = where /\ n = l)
      BY <1>8, <3>2
    <3> QED BY <1>6, <3>2, <3>3 DEF FrameInv, MemoryOK
  <2>3. ASSUME NEW m \in DOMAIN lists', NEW o \in lists'[m].objects
        PROVE  \/ m = where /\ o = new
               \/ m \in DOMAIN lists /\ o \in lists[m].objects
    <3>1. m # l
      BY <1>8
    <3>2. m \in DOMAIN lists
      BY <1>4, <1>5, <1>8, <3>1
    <3> QED BY <1>8, <3>2
  <2>4. \A m \in DOMAIN lists' : \A o \in lists'[m].objects : heap'[o] = 0
    BY <1>7, <1>10, <2>3 DEF FrameInv, MemoryOK
  <2>5. \A m, n \in DOMAIN lists' : m # n => lists'[m].objects \cap lists'[n].objects = {}
    BY <1>9, <2>3 DEF FrameInv, MemoryOK
  <2>6. slots \in [Variables -> Values]
    BY DEF FrameInv, MemoryOK
  <2>7. ASSUME NEW x \in Variables, slots[x] # None
        PROVE  heap'[slots[x]] # None /\ \A m \in DOMAIN lists' : slots[x] \notin lists'[m].objects
    <3>1. slots[x] \in Objects /\ heap[slots[x]] # None /\ \A m \in DOMAIN lists : slots[x] \notin lists[m].objects
      BY <2>6, <2>7 DEF Values, FrameInv, MemoryOK
    <3>2. slots[x] # new
      BY <1>2, <3>1
    <3> QED BY <1>10, <2>3, <3>1, <3>2
  <2> QED BY <1>5, <1>8, <1>10, <2>1, <2>2, <2>4, <2>5, <2>6, <2>7 DEF MemoryOK
<1>12. Grows(lists, lists')
  BY <1>8 DEF Grows
<1>13. ASSUME NEW v \in Nat, v <= where, Rooted(lists, v)
       PROVE  Rooted(lists', v)
  <2>1. v \in DOMAIN lists' /\ v \in DOMAIN lists
    BY <1>8, <1>13 DEF Rooted
  <2>2. ASSUME NEW n \in DOMAIN lists', v < n
        PROVE  \E m \in DOMAIN lists' : v <= m /\ m < n /\ n \in lists'[m].lists
    <3>1. CASE n = l
      BY <1>6, <1>8, <1>13, <3>1
    <3>2. CASE n # l
      <4>1. n \in DOMAIN lists
        BY <1>4, <1>5, <1>8, <3>2
      <4>2. PICK m \in DOMAIN lists : v <= m /\ m < n /\ n \in lists[m].lists
        BY <1>13, <2>2, <4>1 DEF Rooted
      <4>3. m \in DOMAIN lists' /\ n \in lists'[m].lists
        BY <1>8, <4>2
      <4> QED BY <4>2, <4>3
    <3> QED BY <3>1, <3>2
  <2>3. ASSUME NEW m \in DOMAIN lists', m < v
        PROVE  \A n \in lists'[m].lists : n <= v
    <3>1. m # where /\ m # l
      BY <1>5, <1>6, <1>13, <2>3
    <3>2. m \in DOMAIN lists
      BY <1>4, <1>5, <1>8, <3>1
    <3> QED BY <1>8, <1>13, <2>3, <3>1, <3>2 DEF Rooted
  <2> QED BY <2>1, <2>2, <2>3 DEF Rooted
<1>14. Rooted(lists', l)
  <2>1. \A n \in 0 .. l : ~(l < n)
    BY <1>5
  <2>2. \A m \in DOMAIN lists' : \A n \in lists'[m].lists : n \in 0 .. l
    BY <1>8, <1>11 DEF MemoryOK
  <2>3. \A n \in 0 .. l : n <= l
    BY <1>5
  <2>4. l \in 0 .. l
    BY <1>5
  <2> QED BY <1>8, <2>1, <2>2, <2>3, <2>4 DEF Rooted
<1>15. HeldOK(ctl', l, new, lists')
  <2>1. ctl \in Seq(Frame) /\ param \in Values /\ HeldOK(ctl, where, param, lists)
    BY DEF FrameInv, StackOK
  <2> DEFINE fr == [f |-> "routine", where |-> where, param |-> param]
  <2>2. fr \in Frame /\ fr.where = where /\ fr.param = param
    BY <1>6, <2>1 DEF Frame, Routine
  <2> HIDE DEF fr
  <2>3. Len(ctl') = Len(ctl) + 1 /\ ctl'[Len(ctl) + 1] = fr /\ \A i \in 1 .. Len(ctl) : ctl'[i] = ctl[i]
    BY <1>3, <2>1, <2>2, Pushed DEF fr
  <2>4. Rooted(lists', where) /\ Passed(lists', where, param)
    BY <1>6, <1>12, <1>13, <2>1, GrowsPassed DEF HeldOK
  <2>5. ASSUME NEW k \in 1 .. Len(ctl), IsCall(ctl[k])
        PROVE  Rooted(lists', ctl[k].where) /\ Passed(lists', ctl[k].where, ctl[k].param)
    <3>1. ctl[k] \in Frame
      BY <2>1
    <3>2. ctl[k].where \in Nat /\ ctl[k].where < where
      BY <2>5, <3>1, Tags DEF IsCall, Routine, StackOK, Younger, FrameInv
    <3>3. ctl[k].where <= where
      BY <1>6, <3>2
    <3>4. Rooted(lists, ctl[k].where) /\ Passed(lists, ctl[k].where, ctl[k].param)
      BY <2>1, <2>5 DEF HeldOK
    <3> QED BY <1>12, <1>13, <3>2, <3>3, <3>4, GrowsPassed
  <2>6. Passed(lists', l, new)
    BY <1>6, <1>8 DEF Passed
  <2>7. \A k \in 1 .. Len(ctl') : IsCall(ctl'[k]) =>
          Rooted(lists', ctl'[k].where) /\ Passed(lists', ctl'[k].where, ctl'[k].param)
    <3>1. Len(ctl) \in Nat
      BY <2>1
    <3> QED BY <2>2, <2>3, <2>4, <2>5, <3>1
  <2> QED BY <1>14, <2>6, <2>7 DEF HeldOK
<1>16. \A m \in DOMAIN lists : m < l
  BY <1>4, <1>5
<1>17. DOMAIN lists' \subseteq Lists
  <2>1. DOMAIN lists' = DOMAIN lists \cup {l}
    BY <1>3
  <2> QED BY <1>5, <2>1 DEF FrameInv
<1> QED BY <1>3, <1>5, <1>6, <1>8, <1>11, <1>12, <1>15, <1>16, <1>17

-----------------------------------------------------------------------------
(* What is given to the innermost frame. *)

LEMMA GivesDo ==
  ASSUME NEW n, Doable(n), Gives(Do(n))
  PROVE  NowOK' /\ now'.k = "do" /\ now'.node = n /\ now'.val = None
<1>1. now' = [k |-> "do", node |-> n, code |-> None, val |-> None]
  BY DEF Gives, Do
<1> QED BY <1>1 DEF NowOK, Values

LEMMA GivesOk ==
  ASSUME NEW v \in Values, Gives(Ok(v))
  PROVE  NowOK' /\ now'.k = "ok" /\ now'.val = v
<1>1. now' = [k |-> "ok", node |-> None, code |-> None, val |-> v]
  BY DEF Gives, Ok
<1> QED BY <1>1 DEF NowOK, Values

LEMMA GivesThrow ==
  ASSUME NEW c \in Codes, NEW v \in Values, v # None => c = "return", Gives(Throw(c, v))
  PROVE  NowOK' /\ now'.k = "throw" /\ now'.code = c /\ now'.val = v
<1>1. now' = [k |-> "throw", node |-> None, code |-> c, val |-> v]
  BY DEF Gives, Throw
<1> QED BY <1>1 DEF NowOK, Values

LEMMA GivesExits ==
  ASSUME NEW k \in {"end", "failed"}, Gives(Exits(k))
  PROVE  NowOK' /\ now'.k = k /\ now'.val = None
<1>1. now' = [k |-> k, node |-> None, code |-> None, val |-> None]
  BY DEF Gives, Exits
<1> QED BY <1>1 DEF NowOK, Values

LEMMA SameNow == NowOK /\ UNCHANGED now => NowOK'
  BY DEF NowOK

(* The parts of a node. *)
LEMMA Parts ==
  ASSUME NEW n \in Nodes
  PROVE  /\ n.op = "plus" => /\ n.left \in Nodes /\ n.right \in Nodes
                             /\ IsExpression(n.left) /\ IsExpression(n.right)
         /\ n.op = "call" => n.ins \in Code
         /\ n.op = "jump" => n.code \in Codes
         /\ n.op = "return" => n.expr \in Nodes /\ IsExpression(n.expr)
         /\ n.op = "decl" => n.v \in Variables /\ n.expr \in Nodes /\ IsExpression(n.expr)
         /\ n.op = "block" => n.ins \in Code /\ n.base = {}
         /\ n.op # "list"
         /\ n.op = "for" => n.turns \in Nat /\ n.body \in Nodes
         /\ n.op = "try" => n.ins \in Code /\ n.handler \in Code
<1>1. IsNode(n, Nodes)
  BY NodesAssumption DEF Grammar
<1> QED BY <1>1 DEF IsNode, Code, Codes

LEMMA DoableCode ==
  ASSUME NEW s \in Code
  PROVE  /\ Doable(Block(s)) /\ Block(s).op = "block" /\ Block(s).ins = s
         /\ \A b \in SUBSET Variables : /\ Doable([Block(s) EXCEPT !.base = b])
                                        /\ [Block(s) EXCEPT !.base = b].op = "block"
                                        /\ [Block(s) EXCEPT !.base = b].ins = s
         /\ Doable([op |-> "list", ins |-> s, base |-> {}])
  BY DEF Doable, Block

LEMMA DoableParts ==
  ASSUME NEW n, Doable(n)
  PROVE  /\ n.op \notin {"block", "list"} => n \in Nodes
         /\ n.op \in {"block", "list"} => n.ins \in Code /\ n.base \in SUBSET Variables
  BY Parts DEF Doable

LEMMA CodeParts ==
  ASSUME NEW s \in Code
  PROVE  /\ Len(s) \in Nat \ {0}
         /\ \A i \in 1 .. Len(s) : s[i] \in Nodes /\ Doable(s[i])
         /\ Head(s) = s[1] /\ Head(s) \in Nodes
         /\ {s[j].v : j \in {j \in 1 .. Len(s) : s[j].op = "decl"}} \subseteq Variables
<1>1. s \in Seq(Nodes) /\ s # <<>>
  BY DEF Code
<1>2. Len(s) \in Nat \ {0}
  BY <1>1, EmptySeq
<1>3. \A i \in 1 .. Len(s) : s[i] \in Nodes
  BY <1>1
<1>4. \A i \in 1 .. Len(s) : s[i].op = "decl" => s[i].v \in Variables
  BY <1>3, Parts
<1>5. Head(s) = s[1] /\ 1 \in 1 .. Len(s)
  BY <1>1, <1>2
<1> QED BY <1>2, <1>3, <1>4, <1>5 DEF Doable

-----------------------------------------------------------------------------
(* The steps keep the frames. *)

(* Steps that change the stack and what is given only. *)
LEMMA Steady ==
  ASSUME FrameInv, NowOK', UNCHANGED <<where, param, lists, heap, slots>>,
         StackOK(ctl', where, param), HeldOK(ctl', where, param, lists)
  PROVE  FrameInv'
  BY DEF FrameInv

LEMMA SteadyPush ==
  ASSUME FrameInv, NowOK', UNCHANGED <<where, param, lists, heap, slots>>, NEW fr \in Plain, Push(fr),
         HasList(fr, where, param), fr.f = "list" => fr.i <= Len(fr.ins)
  PROVE  FrameInv'
<1>1. StackOK(ctl, where, param) /\ HeldOK(ctl, where, param, lists)
  BY DEF FrameInv
<1>2. StackOK(Append(ctl, fr), where, param) /\ HeldOK(Append(ctl, fr), where, param, lists)
  BY <1>1, PushFrame
<1>3. ctl' = Append(ctl, fr)
  BY DEF Push
<1> QED BY <1>2, <1>3, Steady

LEMMA SteadyPop ==
  ASSUME FrameInv, NowOK', UNCHANGED <<where, param, lists, heap, slots>>, Pop,
         ctl # <<>>, ~IsCall(Top)
  PROVE  FrameInv'
<1>1. StackOK(ctl, where, param) /\ HeldOK(ctl, where, param, lists)
  BY DEF FrameInv
<1>2. StackOK(Front(ctl), where, param) /\ HeldOK(Front(ctl), where, param, lists)
  BY <1>1, PopFrame DEF Top
<1>3. ctl' = Front(ctl)
  BY DEF Pop
<1> QED BY <1>2, <1>3, Steady

(* The innermost frame. *)
LEMMA TopOK ==
  ASSUME FrameInv, ctl # <<>>
  PROVE  /\ Top \in Frame
         /\ Top.f # "routine" => HasList(Top, where, param)
         /\ Top.f = "list" => Top.i <= Len(Top.ins)
         /\ Top = ctl[Len(ctl)] /\ Len(ctl) \in Nat \ {0}
<1>1. StackOK(ctl, where, param) /\ ctl \in Seq(Frame)
  BY DEF FrameInv, StackOK
<1>2. Top = ctl[Len(ctl)] /\ Len(ctl) \in Nat \ {0} /\ Top \in Frame
  BY <1>1, Popped DEF Top
<1>3. Runs(ctl, Len(ctl)) /\ Len(ctl) \in 1 .. Len(ctl)
  BY <1>2 DEF Runs
<1> QED BY <1>1, <1>2, <1>3 DEF StackOK

LEMMA LeftKeeps == FrameInv /\ Left => FrameInv'
<1> SUFFICES ASSUME FrameInv, Left
             PROVE  FrameInv'
  OBVIOUS
<1>1. now.k = "do" /\ now.node.op = "plus"
  BY DEF Left, Given
<1>2. now.node \in Nodes
  BY <1>1, DoableParts DEF FrameInv, NowOK
<1>3. now.node.left \in Nodes
  BY <1>1, <1>2, Parts
<1>4. NowOK'
  BY <1>3, GivesDo DEF Left, Doable
<1> DEFINE fr == [f |-> "left", node |-> now.node]
<1>5. fr \in Plain /\ HasList(fr, where, param) /\ fr.f # "list"
  BY <1>1, <1>2 DEF Plain, Operand, HasList
<1> QED BY <1>4, <1>5, SteadyPush DEF Left

(* A swap is a pop and a push. *)
LEMMA SteadySwap ==
  ASSUME FrameInv, NowOK', UNCHANGED <<where, param, lists, heap, slots>>,
         ctl # <<>>, ~IsCall(Top), NEW fr \in Plain, Swap(fr),
         HasList(fr, where, param), fr.f = "list" => fr.i <= Len(fr.ins)
  PROVE  FrameInv'
<1>1. StackOK(ctl, where, param) /\ HeldOK(ctl, where, param, lists)
  BY DEF FrameInv
<1>2. StackOK(Front(ctl), where, param) /\ HeldOK(Front(ctl), where, param, lists)
  BY <1>1, PopFrame DEF Top
<1>3. StackOK(Append(Front(ctl), fr), where, param) /\ HeldOK(Append(Front(ctl), fr), where, param, lists)
  BY <1>2, PushFrame
<1>4. ctl' = Append(Front(ctl), fr)
  BY DEF Swap
<1> QED BY <1>3, <1>4, Steady

LEMMA RightKeeps == FrameInv /\ Right => FrameInv'
<1> SUFFICES ASSUME FrameInv, Right
             PROVE  FrameInv'
  OBVIOUS
<1>1. now.k = "ok" /\ ctl # <<>> /\ Top.f = "left"
  BY DEF Right, Given, In
<1>2. Top \in Frame /\ ~IsCall(Top)
  BY <1>1, TopOK DEF IsCall
<1>3. Top.node \in Nodes /\ Top.node.op = "plus"
  BY <1>1, <1>2, Tags
<1>4. Top.node.right \in Nodes
  BY <1>3, Parts
<1>5. NowOK'
  BY <1>4, GivesDo DEF Right, Doable
<1> DEFINE fr == [f |-> "right", left |-> now.val]
<1>6. fr \in Plain /\ HasList(fr, where, param) /\ fr.f # "list"
  BY DEF Plain, Operand, HasList, FrameInv, NowOK
<1> QED BY <1>1, <1>2, <1>5, <1>6, SteadySwap DEF Right

LEMMA JumpKeeps == FrameInv /\ Jump => FrameInv'
<1> SUFFICES ASSUME FrameInv, Jump
             PROVE  FrameInv'
  OBVIOUS
<1>1. now.k = "do" /\ now.node.op = "jump"
  BY DEF Jump, Given
<1>2. now.node \in Nodes
  BY <1>1, DoableParts DEF FrameInv, NowOK
<1>3. NowOK'
  BY <1>1, <1>2, Parts, GivesThrow DEF Jump, Values
<1> QED BY <1>3 DEF Jump, FrameInv

LEMMA FailKeeps == FrameInv /\ Fail => FrameInv'
<1> SUFFICES ASSUME FrameInv, Fail
             PROVE  FrameInv'
  OBVIOUS
<1>1. NowOK'
  BY GivesThrow DEF Fail, Values, Codes
<1> QED BY <1>1 DEF Fail, FrameInv

LEMMA ReturnExprKeeps == FrameInv /\ ReturnExpr => FrameInv'
<1> SUFFICES ASSUME FrameInv, ReturnExpr
             PROVE  FrameInv'
  OBVIOUS
<1>1. now.k = "do" /\ now.node.op = "return"
  BY DEF ReturnExpr, Given
<1>2. now.node \in Nodes
  BY <1>1, DoableParts DEF FrameInv, NowOK
<1>3. NowOK'
  BY <1>1, <1>2, Parts, GivesDo DEF ReturnExpr, Doable
<1> DEFINE fr == [f |-> "return"]
<1>4. fr \in Plain /\ HasList(fr, where, param) /\ fr.f # "list"
  BY DEF Plain, Operand, HasList
<1> QED BY <1>3, <1>4, SteadyPush DEF ReturnExpr

LEMMA DeclareKeeps == FrameInv /\ Declare => FrameInv'
<1> SUFFICES ASSUME FrameInv, Declare
             PROVE  FrameInv'
  OBVIOUS
<1>1. now.k = "do" /\ now.node.op = "decl"
  BY DEF Declare, Given
<1>2. now.node \in Nodes
  BY <1>1, DoableParts DEF FrameInv, NowOK
<1>3. NowOK'
  BY <1>1, <1>2, Parts, GivesDo DEF Declare, Doable
<1> DEFINE fr == [f |-> "decl", v |-> now.node.v]
<1>4. fr \in Plain /\ HasList(fr, where, param) /\ fr.f # "list"
  BY <1>1, <1>2, Parts DEF Plain, Operand, HasList
<1> QED BY <1>3, <1>4, SteadyPush DEF Declare

LEMMA UnwindKeeps == FrameInv /\ Unwind => FrameInv'
<1> SUFFICES ASSUME FrameInv, Unwind
             PROVE  FrameInv'
  OBVIOUS
<1>1. NowOK'
  BY SameNow DEF Unwind, FrameInv
<1> QED BY <1>1, SteadyPop DEF Unwind, IsCall

LEMMA StartKeeps == FrameInv /\ Start => FrameInv'
<1> SUFFICES ASSUME FrameInv, Start
             PROVE  FrameInv'
  OBVIOUS
<1>1. now.k = "do" /\ now.node.op \in {"block", "list"}
  BY DEF Start, Given
<1>2. now.node.ins \in Code /\ now.node.base \in SUBSET Variables
  BY <1>1, DoableParts DEF FrameInv, NowOK
<1>3. Head(now.node.ins) \in Nodes /\ Len(now.node.ins) \in Nat \ {0}
  BY <1>2, CodeParts
<1>4. NowOK'
  BY <1>3, GivesDo DEF Start, Doable
<1>5. where \in Nat /\ param \in Values
  BY DEF FrameInv, StackOK
<1> DEFINE fr == [f |-> "list", ins |-> now.node.ins, i |-> 1, sptr |-> where, param |-> param,
                  base |-> now.node.base, close |-> now.node.op = "block"]
<1>6. fr \in Plain /\ HasList(fr, where, param) /\ fr.i <= Len(fr.ins)
  BY <1>2, <1>3, <1>5 DEF Plain, ListFrame, HasList
<1> QED BY <1>4, <1>6, SteadyPush DEF Start

LEMMA ForKeeps == FrameInv /\ For => FrameInv'
<1> SUFFICES ASSUME FrameInv, For
             PROVE  FrameInv'
  OBVIOUS
<1>1. now.k = "do" /\ now.node.op = "for"
  BY DEF For, Given
<1>2. now.node \in Nodes
  BY <1>1, DoableParts DEF FrameInv, NowOK
<1>3. now.node.body \in Nodes /\ now.node.turns \in Nat
  BY <1>1, <1>2, Parts
<1>4. NowOK'
  BY <1>3, GivesDo DEF For, Doable
<1>5. where \in Nat
  BY DEF FrameInv, StackOK
<1> DEFINE fr == [f |-> "for", body |-> now.node.body, left |-> now.node.turns, sptr |-> where,
                  sptrclean |-> TRUE]
<1>6. fr \in Plain /\ HasList(fr, where, param) /\ fr.f # "list"
  BY <1>3, <1>5 DEF Plain, ForFrame, HasList
<1> QED BY <1>4, <1>6, SteadyPush DEF For

LEMMA LoopFailsKeeps == FrameInv /\ LoopFails => FrameInv'
<1> SUFFICES ASSUME FrameInv, LoopFails
             PROVE  FrameInv'
  OBVIOUS
<1>1. NowOK'
  BY SameNow DEF LoopFails, FrameInv
<1> QED BY <1>1, SteadyPop DEF LoopFails, In, IsCall

LEMMA TryKeeps == FrameInv /\ Try => FrameInv'
<1> SUFFICES ASSUME FrameInv, Try
             PROVE  FrameInv'
  OBVIOUS
<1>1. now.k = "do" /\ now.node.op = "try"
  BY DEF Try, Given
<1>2. now.node \in Nodes
  BY <1>1, DoableParts DEF FrameInv, NowOK
<1>3. now.node.ins \in Code
  BY <1>1, <1>2, Parts
<1>4. NowOK'
  BY <1>3, DoableCode, GivesDo DEF Try
<1> DEFINE fr == [f |-> "try", node |-> now.node]
<1>6. fr \in Plain /\ HasList(fr, where, param) /\ fr.f # "list"
  BY <1>1, <1>2 DEF Plain, TryFrame, HasList
<1> QED BY <1>4, <1>6, SteadyPush DEF Try

LEMMA CaughtKeeps == FrameInv /\ Caught => FrameInv'
<1> SUFFICES ASSUME FrameInv, Caught
             PROVE  FrameInv'
  OBVIOUS
<1>1. ctl # <<>> /\ Top.f = "try"
  BY DEF Caught, In
<1>2. Top.node \in Nodes /\ Top.node.op = "try"
  BY <1>1, TopOK, Tags DEF TryFrame
<1>3. Top.node.ins \in Code /\ Top.node.handler \in Code
  BY <1>2, Parts
<1> DEFINE base == {Top.node.ins[j].v : j \in {j \in 1 .. Len(Top.node.ins) : Top.node.ins[j].op = "decl"}}
<1>4. base \in SUBSET Variables
  BY <1>3, CodeParts
<1>5. Gives(Do([Block(Top.node.handler) EXCEPT !.base = base]))
  BY DEF Caught
<1> HIDE DEF base
<1>6. NowOK'
  BY <1>3, <1>4, <1>5, DoableCode, GivesDo
<1> QED BY <1>1, <1>6, SteadyPop DEF Caught, IsCall

LEMMA TryEndsKeeps == FrameInv /\ TryEnds => FrameInv'
<1> SUFFICES ASSUME FrameInv, TryEnds
             PROVE  FrameInv'
  OBVIOUS
<1>1. NowOK'
  BY SameNow DEF TryEnds, FrameInv
<1> QED BY <1>1, SteadyPop DEF TryEnds, In, IsCall

LEMMA TempKeeps == FrameInv /\ EnoughMemory /\ Temp => FrameInv'
<1> SUFFICES ASSUME FrameInv, EnoughMemory, Temp
             PROVE  FrameInv'
  OBVIOUS
<1>1. Fresh \in Objects
  BY FreshIsNew
<1>2. NowOK'
  BY <1>1, GivesOk DEF Temp, Values
<1>3. where \in DOMAIN lists
  BY DEF FrameInv, HeldOK, Rooted
<1> QED BY <1>2, <1>3, MakeTemporary DEF Temp, FrameInv

(* An operator or a return that ends with a new temporary. *)
LEMMA PopTemporary ==
  ASSUME FrameInv, EnoughMemory, ctl # <<>>, ~IsCall(Top), Pop,
         Made(Fresh), Temporary(Fresh), NowOK', UNCHANGED <<where, param, slots>>
  PROVE  FrameInv'
<1>1. StackOK(ctl, where, param) /\ HeldOK(ctl, where, param, lists) /\ where \in DOMAIN lists
  BY DEF FrameInv, HeldOK, Rooted
<1>2. StackOK(Front(ctl), where, param) /\ HeldOK(Front(ctl), where, param, lists)
  BY <1>1, PopFrame DEF Top
<1>3. MemoryOK(lists', heap', slots) /\ DOMAIN lists' = DOMAIN lists /\ HeldOK(Front(ctl), where, param, lists')
  BY <1>1, <1>2, MakeTemporary DEF FrameInv
<1>4. ctl' = Front(ctl)
  BY DEF Pop
<1> QED BY <1>2, <1>3, <1>4 DEF FrameInv

LEMMA PlusKeeps == FrameInv /\ EnoughMemory /\ Plus => FrameInv'
<1> SUFFICES ASSUME FrameInv, EnoughMemory, Plus
             PROVE  FrameInv'
  OBVIOUS
<1>1. Fresh \in Objects
  BY FreshIsNew
<1>2. NowOK'
  BY <1>1, GivesOk DEF Plus, Values
<1> QED BY <1>2, PopTemporary DEF Plus, In, IsCall

LEMMA ReturnValueKeeps == FrameInv /\ EnoughMemory /\ ReturnValue => FrameInv'
<1> SUFFICES ASSUME FrameInv, EnoughMemory, ReturnValue
             PROVE  FrameInv'
  OBVIOUS
<1>1. Fresh \in Objects
  BY FreshIsNew
<1>2. NowOK'
  BY <1>1, GivesThrow DEF ReturnValue, Values, Codes
<1> QED BY <1>2, PopTemporary DEF ReturnValue, In, IsCall

LEMMA InitialiseKeeps == FrameInv /\ EnoughMemory /\ Initialise => FrameInv'
<1> SUFFICES ASSUME FrameInv, EnoughMemory, Initialise
             PROVE  FrameInv'
  OBVIOUS
<1>1. ctl # <<>> /\ Top.f = "decl" /\ ctl' = Front(ctl) /\ UNCHANGED <<where, param, lists>>
  BY DEF Initialise, In, Pop
<1>2. Top.v \in Variables /\ ~IsCall(Top)
  BY <1>1, TopOK, Tags DEF IsCall
<1>3. NowOK'
  BY GivesOk DEF Initialise, Values
<1>4. StackOK(Front(ctl), where, param) /\ HeldOK(Front(ctl), where, param, lists)
  BY <1>1, <1>2, PopFrame DEF Top, FrameInv
<1>5. MemoryOK(lists, heap', slots')
  BY <1>2, MakeVariable DEF Initialise, FrameInv
<1> QED BY <1>1, <1>3, <1>4, <1>5 DEF FrameInv

LEMMA CallKeeps == FrameInv /\ EnoughMemory /\ Call => FrameInv'
<1> SUFFICES ASSUME FrameInv, EnoughMemory, Call
             PROVE  FrameInv'
  OBVIOUS
<1>1. now.k = "do" /\ now.node.op = "call"
  BY DEF Call, Given
<1>2. now.node \in Nodes
  BY <1>1, DoableParts DEF FrameInv, NowOK
<1>3. NowOK'
  BY <1>1, <1>2, Parts, DoableCode, GivesDo DEF Call
<1>4. Fresh \in Values
  BY FreshIsNew DEF Values
<1>5. /\ where < where' /\ where' \in Nat
      /\ MemoryOK(lists', heap', slots)
      /\ HeldOK(ctl', where', param', lists')
      /\ DOMAIN lists' \subseteq Lists
  BY CallMemory
<1>6. StackOK(ctl, where, param)
  BY DEF FrameInv
<1>7. /\ ctl' = Append(ctl, [f |-> "routine", where |-> where, param |-> param])
      /\ param' = Fresh /\ slots' = slots
  BY DEF Call, Push
<1>8. StackOK(ctl', where', param')
  BY <1>4, <1>5, <1>6, <1>7, PushCall
<1> QED BY <1>3, <1>5, <1>7, <1>8 DEF FrameInv

LEMMA ReturnKeeps == FrameInv /\ Return => FrameInv'
<1> SUFFICES ASSUME FrameInv, Return
             PROVE  FrameInv'
  OBVIOUS
<1>1. /\ ctl # <<>> /\ IsCall(Last(ctl))
      /\ where' = Last(ctl).where /\ param' = Last(ctl).param /\ ctl' = Front(ctl)
      /\ UNCHANGED <<lists, heap, slots>>
  BY DEF Return, In, IsCall, Top, Pop
<1>2. NowOK'
  BY GivesOk DEF Return, FrameInv, NowOK
<1>3. StackOK(Front(ctl), Last(ctl).where, Last(ctl).param) /\ HeldOK(Front(ctl), Last(ctl).where, Last(ctl).param, lists)
  BY <1>1, PopCall DEF FrameInv
<1> QED BY <1>1, <1>2, <1>3 DEF FrameInv

LEMMA RoutineFailsKeeps == FrameInv /\ RoutineFails => FrameInv'
<1> SUFFICES ASSUME FrameInv, RoutineFails
             PROVE  FrameInv'
  OBVIOUS
<1>1. /\ ctl # <<>> /\ IsCall(Last(ctl))
      /\ where' = Last(ctl).where /\ param' = Last(ctl).param /\ ctl' = Front(ctl)
      /\ heap' = Delete(Swept(where) \cup {}) /\ lists' = Cleaned(where) /\ UNCHANGED <<now, slots>>
  BY DEF RoutineFails, Restored, In, IsCall, Top, Pop
<1>2. NowOK'
  BY <1>1, SameNow DEF FrameInv
<1>3. /\ MemoryOK(lists', heap', slots) /\ HeldOK(ctl, where, param, lists')
      /\ DOMAIN lists' \subseteq DOMAIN lists
  BY <1>1, CleanMemory DEF FrameInv
<1>4. StackOK(Front(ctl), Last(ctl).where, Last(ctl).param) /\ HeldOK(Front(ctl), Last(ctl).where, Last(ctl).param, lists')
  BY <1>1, <1>3, PopCall DEF FrameInv
<1>5. DOMAIN lists' \subseteq Lists
  BY <1>3 DEF FrameInv
<1> QED BY <1>1, <1>2, <1>3, <1>4, <1>5 DEF FrameInv

(* The innermost frame is a list or a loop, and is left or goes on.        *)
LEMMA CleanAndPop ==
  ASSUME FrameInv, ctl # <<>>, Top.f \in {"list", "for"}, NEW more \in SUBSET OfVariables,
         clean(Top.sptr, more), Pop, NowOK', UNCHANGED <<param, slots>>
  PROVE  FrameInv'
<1>1. Top.sptr = where /\ ~IsCall(Last(ctl)) /\ ctl' = Front(ctl)
  BY TopOK DEF HasList, IsCall, Top, Pop
<1>2. /\ where' = where
      /\ MemoryOK(lists', heap', slots) /\ HeldOK(ctl, where, param, lists')
      /\ DOMAIN lists' \subseteq DOMAIN lists
  BY <1>1, CleanHere DEF FrameInv
<1>3. StackOK(Front(ctl), where, param) /\ HeldOK(Front(ctl), where, param, lists')
  BY <1>1, <1>2, PopFrame DEF FrameInv
<1> QED BY <1>1, <1>2, <1>3 DEF FrameInv

LEMMA CleanAndSwap ==
  ASSUME FrameInv, ctl # <<>>, Top.f \in {"list", "for"}, clean(Top.sptr, {}),
         NEW fr \in Plain, Swap(fr), HasList(fr, where, param), fr.f = "list" => fr.i <= Len(fr.ins),
         NowOK', UNCHANGED <<param, slots>>
  PROVE  FrameInv'
<1>1. Top.sptr = where /\ ~IsCall(Last(ctl)) /\ ctl' = Append(Front(ctl), fr)
  BY TopOK DEF HasList, IsCall, Top, Swap
<1>2. /\ where' = where
      /\ MemoryOK(lists', heap', slots) /\ HeldOK(ctl, where, param, lists')
      /\ DOMAIN lists' \subseteq DOMAIN lists
  BY <1>1, CleanHere DEF FrameInv
<1>3. StackOK(Front(ctl), where, param) /\ HeldOK(Front(ctl), where, param, lists')
  BY <1>1, <1>2, PopFrame DEF FrameInv
<1>4. StackOK(Append(Front(ctl), fr), where, param) /\ HeldOK(Append(Front(ctl), fr), where, param, lists')
  BY <1>3, PushFrame
<1> QED BY <1>1, <1>2, <1>4 DEF FrameInv

LEMMA DestroyedType ==
  ASSUME NEW fr \in ListFrame, fr.i <= Len(fr.ins)
  PROVE  Destroyed(fr, fr.i) \in SUBSET OfVariables
<1>1. fr.ins \in Code /\ fr.base \in SUBSET Variables /\ fr.i \in Nat \ {0}
  BY DEF ListFrame
<1>2. \A j \in 1 .. fr.i : fr.ins[j].op = "decl" => fr.ins[j].v \in Variables
  BY <1>1, CodeParts
<1>3. Declared(fr, fr.i) \subseteq Variables
  BY <1>1, <1>2 DEF Declared
<1> QED BY <1>3 DEF Destroyed, OfVariables

LEMMA NextInstKeeps == FrameInv /\ NextInst => FrameInv'
<1> SUFFICES ASSUME FrameInv, NextInst
             PROVE  FrameInv'
  OBVIOUS
<1>1. ctl # <<>> /\ Top.f = "list" /\ Top.i < Len(Top.ins)
  BY DEF NextInst, In
<1>2. Top \in ListFrame /\ HasList(Top, where, param)
  BY <1>1, TopOK, Tags
<1>3. Top.ins \in Code /\ Top.i \in Nat \ {0}
  BY <1>2 DEF ListFrame
<1>4. Len(Top.ins) \in Nat /\ Doable(Top.ins[Top.i + 1])
  BY <1>1, <1>3, CodeParts
<1>5. NowOK'
  BY <1>4, GivesDo DEF NextInst
<1> DEFINE fr == [Top EXCEPT !.i = @ + 1]
<1>6. fr \in Plain /\ HasList(fr, where, param) /\ fr.i <= Len(fr.ins)
  BY <1>1, <1>2, <1>3, <1>4 DEF Plain, ListFrame, HasList
<1>7. clean(Top.sptr, {}) /\ Swap(fr) /\ UNCHANGED <<param, slots>>
  BY DEF NextInst
<1> HIDE DEF fr
<1> QED BY <1>1, <1>5, <1>6, <1>7, CleanAndSwap

LEMMA EndOfListKeeps == FrameInv /\ EndOfList => FrameInv'
<1> SUFFICES ASSUME FrameInv, EndOfList
             PROVE  FrameInv'
  OBVIOUS
<1>1. ctl # <<>> /\ Top.f = "list"
  BY DEF EndOfList, In
<1>2. Top \in ListFrame /\ Top.i <= Len(Top.ins)
  BY <1>1, TopOK, Tags
<1>3. NowOK'
  BY GivesOk DEF EndOfList, Values
<1>4. Destroyed(Top, Top.i) \in SUBSET OfVariables
  BY <1>2, DestroyedType
<1> QED BY <1>1, <1>3, <1>4, CleanAndPop DEF EndOfList

LEMMA LeaveListKeeps == FrameInv /\ LeaveList => FrameInv'
<1> SUFFICES ASSUME FrameInv, LeaveList
             PROVE  FrameInv'
  OBVIOUS
<1>1. ctl # <<>> /\ Top.f = "list" /\ Pop /\ UNCHANGED <<now, param, slots>>
  BY DEF LeaveList, In
<1>2. Top \in ListFrame /\ Top.i <= Len(Top.ins)
  BY <1>1, TopOK, Tags
<1>3. NowOK'
  BY <1>1, SameNow DEF FrameInv
<1>4. Destroyed(Top, Top.i) \in SUBSET OfVariables
  BY <1>2, DestroyedType
<1>5. CASE KeepsTemporaries
  <2>1. heap' = Delete(Destroyed(Top, Top.i)) /\ UNCHANGED <<lists, where>> /\ ctl' = Front(ctl)
    BY <1>1, <1>5 DEF LeaveList, Pop
  <2>2. MemoryOK(lists, heap', slots)
    BY <1>4, <2>1, DeleteVariables DEF FrameInv
  <2>3. StackOK(Front(ctl), where, param) /\ HeldOK(Front(ctl), where, param, lists)
    BY <1>1, PopFrame DEF FrameInv, IsCall, Top
  <2> QED BY <1>1, <1>3, <2>1, <2>2, <2>3 DEF FrameInv
<1>6. CASE ~KeepsTemporaries
  BY <1>1, <1>3, <1>4, <1>6, CleanAndPop DEF LeaveList
<1> QED BY <1>5, <1>6

LEMMA TurnKeeps == FrameInv /\ Turn => FrameInv'
<1> SUFFICES ASSUME FrameInv, Turn
             PROVE  FrameInv'
  OBVIOUS
<1>1. ctl # <<>> /\ Top.f = "for" /\ UNCHANGED <<param, slots>>
  BY DEF Turn, In
<1>2. Top \in ForFrame /\ HasList(Top, where, param) /\ ~IsCall(Top)
  BY <1>1, TopOK, Tags DEF IsCall
<1>3. IF Top.sptrclean THEN clean(Top.sptr, {}) ELSE UNCHANGED <<where, lists, heap>>
  BY DEF Turn
<1>4. {} \in SUBSET OfVariables
  OBVIOUS
<1>5. CASE Pop /\ NowOK'
  BY <1>1, <1>2, <1>3, <1>4, <1>5, CleanAndPop, SteadyPop
<1> DEFINE fr == [Top EXCEPT !.left = @ - 1, !.sptrclean = @ /\ lists[Top.sptr] # NewItems]
<1>6. CASE Swap(fr) /\ Gives(Do(Top.body)) /\ Top.left > 1
  <2>1. NowOK'
    BY <1>2, <1>6, GivesDo DEF ForFrame, Doable
  <2>2. Top \in [f : {"for"}, body : Nodes, left : Nat, sptr : Nat, sptrclean : BOOLEAN]
    BY <1>2 DEF ForFrame
  <2>3. Top.left - 1 \in Nat
    BY <1>6, <2>2
  <2>4. fr \in ForFrame /\ fr.f = "for" /\ fr.sptr = Top.sptr
    BY <2>2, <2>3 DEF ForFrame
  <2>5. fr \in Plain /\ HasList(fr, where, param) /\ fr.f # "list"
    BY <1>1, <1>2, <2>4 DEF Plain, HasList
  <2> HIDE DEF fr
  <2> QED BY <1>1, <1>2, <1>3, <1>6, <2>1, <2>5, CleanAndSwap, SteadySwap
<1>7. \/ Swap(fr) /\ Gives(Do(Top.body)) /\ Top.left > 1
      \/ Pop /\ Gives(Ok(None))
      \/ Pop /\ UNCHANGED now
  BY DEF Turn
<1>8. Gives(Ok(None)) \/ UNCHANGED now => NowOK'
  BY GivesOk, SameNow DEF Values, FrameInv
<1> QED BY <1>5, <1>6, <1>7, <1>8

LEMMA EndKeeps == FrameInv /\ End => FrameInv'
<1> SUFFICES ASSUME FrameInv, End
             PROVE  FrameInv'
  OBVIOUS
<1>1. NowOK' /\ UNCHANGED <<ctl, param, slots>>
  BY GivesExits DEF End
<1>2. CASE UNCHANGED <<where, lists, heap>>
  BY <1>1, <1>2 DEF FrameInv
<1>3. CASE clean(0, {})
  <2>1. ctl = <<>> /\ Len(ctl) = 0
    BY DEF End
  <2>2. where = 0
    BY <2>1 DEF FrameInv, StackOK, Based
  <2> QED BY <1>1, <1>3, <2>2, CleanHere DEF FrameInv
<1> QED BY <1>2, <1>3 DEF End

LEMMA DoneKeeps == FrameInv /\ UNCHANGED vars => FrameInv'
  BY DEF FrameInv, NowOK, vars

LEMMA FrameInvInit == Init => FrameInv
<1> SUFFICES ASSUME Init
             PROVE  FrameInv
  OBVIOUS
<1>1. PICK p \in Programs : now = Do(Block(p))
  BY DEF Init
<1>2. p \in Code
  BY NodesAssumption DEF Grammar, Code
<1>3. Doable(Block(p))
  BY <1>2, DoableCode
<1>4. NowOK
  BY <1>1, <1>3 DEF NowOK, Do, Values
<1>5. ctl = <<>> /\ where = 0 /\ param = None
  BY DEF Init
<1>6. StackOK(ctl, where, param)
  <2>1. Len(ctl) = 0 /\ ctl \in Seq(Frame) /\ 1 .. Len(ctl) = {}
    BY <1>5
  <2> QED BY <1>5, <2>1 DEF StackOK, Younger, Based, Values
<1>7. /\ DOMAIN lists = 0 .. 0 /\ lists[0] = NewItems /\ NewItems.objects = {} /\ NewItems.lists = {}
      /\ NewItems \in [objects : SUBSET Objects, lists : SUBSET (0 .. 0)]
  <2>1. lists = [l \in {0} |-> NewItems] /\ {0} = 0 .. 0
    BY DEF Init
  <2> QED BY <2>1 DEF NewItems
<1>8. MemoryOK(lists, heap, slots)
  <2>1. heap = [o \in Objects |-> None] /\ slots = [v \in Variables |-> None]
    BY DEF Init
  <2>2. heap \in [Objects -> {None} \cup Nat] /\ slots \in [Variables -> Values]
    BY <2>1 DEF Values
  <2> QED BY <1>7, <2>1, <2>2 DEF MemoryOK
<1>9. HeldOK(ctl, where, param, lists)
  <2>1. 1 .. Len(ctl) = {}
    BY <1>5
  <2> QED BY <1>5, <1>7, <2>1 DEF HeldOK, Rooted, Passed
<1>10. DOMAIN lists \subseteq Lists
  BY <1>7, MemoryAssumption
<1> QED BY <1>4, <1>6, <1>8, <1>9, <1>10 DEF FrameInv

LEMMA FrameInvNext == FrameInv /\ EnoughMemory /\ [Next]_vars => FrameInv'
  BY TempKeeps, FailKeeps, LeftKeeps, RightKeeps, PlusKeeps, CallKeeps, ReturnKeeps, RoutineFailsKeeps,
     JumpKeeps, ReturnExprKeeps, ReturnValueKeeps, DeclareKeeps, InitialiseKeeps, UnwindKeeps,
     StartKeeps, NextInstKeeps, EndOfListKeeps, LeaveListKeeps, ForKeeps, TurnKeeps, LoopFailsKeeps,
     TryKeeps, CaughtKeeps, TryEndsKeeps, EndKeeps, DoneKeeps
  DEF Next, Done

(* What the caller of a function passed to it was not freed. *)
LEMMA FrameInvRestored == FrameInv => FrameRestored
<1> SUFFICES ASSUME FrameInv
             PROVE  FrameRestored
  OBVIOUS
<1>1. TypeOK
  BY DEF FrameInv, NowOK, HeldOK, Rooted, MemoryOK, StackOK, Values, TypeOK
<1>2. Alive(param)
  BY DEF FrameInv, HeldOK, Passed, MemoryOK, Alive
<1>3. ASSUME In("list")
      PROVE  where = Top.sptr /\ param = Top.param
  <2>1. ctl # <<>> /\ Top.f = "list"
    BY <1>3 DEF In
  <2> QED BY <2>1, TopOK DEF HasList
<1> QED BY <1>1, <1>2, <1>3 DEF FrameRestored

(* Whatever the scripts of the grammar and however deep their calls, each  *)
(* list of instructions goes on with the list of temporaries and the       *)
(* parameters of its own function (FrameRestored): calls, returns, jumps   *)
(* and errors that are caught anywhere bring back those it had             *)
(* (E_Routine::operator(), AFunction2.cpp), and nothing deletes the        *)
(* parameters before the call has ended.                                   *)
THEOREM FramesAreRestored == Spec /\ []EnoughMemory => []FrameRestored
<1>1. Init => FrameInv
  BY FrameInvInit
<1>2. FrameInv /\ EnoughMemory /\ [Next]_vars => FrameInv'
  BY FrameInvNext
<1>3. FrameInv => FrameRestored
  BY FrameInvRestored
<1> QED BY <1>1, <1>2, <1>3, PTL DEF Spec

-----------------------------------------------------------------------------
(* Values. *)

(* o is a temporary that was not deleted. *)
InList(L, o) == o = None \/ \E m \in DOMAIN L : o \in L[m].objects

(* An operand is in a list older than those of the calls in the other.     *)
Safe(s, w, L, i) ==
  \/ s[i].left = None
  \/ \E m \in DOMAIN L :
       /\ s[i].left \in L[m].objects
       /\ \A k \in i + 1 .. Len(s) : IsCall(s[k]) =>
            m < w /\ \A j \in k + 1 .. Len(s) : IsCall(s[j]) => m < s[j].where
OperandsOK(s, w, L) == \A i \in 1 .. Len(s) : s[i].f = "right" => Safe(s, w, L, i)

(* Inside an operand, instructions are those of a function that is called. *)
Nested(s) ==
  \A i \in 1 .. Len(s) : \A j \in i + 1 .. Len(s) :
    Works(s[i]) /\ s[j].f \in {"list", "for", "try"} => \E k \in i + 1 .. j : IsCall(s[k])
InOperand(s) == \E i \in 1 .. Len(s) : Works(s[i]) /\ Runs(s, i)

(* What a loop runs, nodes of S, does not return an object. *)
LoopFree(fr, S) ==
  /\ fr.f = "list" => fr.ins \in Seq(S)
  /\ fr.f = "try" => fr.node.ins \in Seq(S) /\ fr.node.handler \in Seq(S)
  /\ fr.f # "return"
LoopsFree(s, S) ==
  \A i \in 1 .. Len(s) : s[i].f = "for" =>
    /\ s[i].body \in S
    /\ \A j \in i + 1 .. Len(s) : LoopFree(s[j], S) \/ \E k \in i + 1 .. j : IsCall(s[k])
InLoop(s) == \E i \in 1 .. Len(s) : s[i].f = "for" /\ Runs(s, i)
NowFree(S) ==
  /\ now.k = "do" => \/ IsExpression(now.node) \/ now.node \in S
                     \/ now.node.op \in {"block", "list"} /\ now.node.ins \in Seq(S)
  /\ now.k = "throw" => now.val = None

ValueInv(S) ==
  /\ InList(lists, now.val)
  /\ OperandsOK(ctl, where, lists)
  /\ Nested(ctl) /\ (InOperand(ctl) /\ now.k = "do" => IsExpression(now.node))
  /\ LoopsFree(ctl, S) /\ (InLoop(ctl) => NowFree(S))

(* S: the instructions that run in loops, none of which returns an object. *)
NoReturnIn(S) ==
  /\ S \subseteq Nodes
  /\ \A n \in Nodes : n.op = "for" => n.body \in S
  /\ \A n \in S :
       /\ n.op # "return"
       /\ n.op = "block" => n.ins \in Seq(S)
       /\ n.op = "try" => n.ins \in Seq(S) /\ n.handler \in Seq(S)

(* The stack and values. *)
LEMMA PushValue ==
  ASSUME NEW S, NEW s, NEW w, NEW p, NEW L, NEW fr \in Plain, StackOK(s, w, p),
         OperandsOK(s, w, L), Nested(s), LoopsFree(s, S),
         fr.f = "right" => InList(L, fr.left),
         fr.f \in {"list", "for", "try"} => ~InOperand(s),
         fr.f = "for" => fr.body \in S,
         InLoop(s) => LoopFree(fr, S)
  PROVE  /\ OperandsOK(Append(s, fr), w, L) /\ Nested(Append(s, fr)) /\ LoopsFree(Append(s, fr), S)
         /\ InOperand(Append(s, fr)) => Works(fr) \/ InOperand(s)
         /\ InLoop(Append(s, fr)) => fr.f = "for" \/ InLoop(s)
<1> DEFINE t == Append(s, fr)
<1>1. fr \in Frame /\ ~IsCall(fr)
  BY Tags DEF Frame, IsCall
<1>2. s \in Seq(Frame) /\ Len(s) \in Nat
  BY DEF StackOK
<1>3. t \in Seq(Frame) /\ Len(t) = Len(s) + 1 /\ t[Len(s) + 1] = fr /\ \A i \in 1 .. Len(s) : t[i] = s[i]
  BY <1>1, <1>2, Pushed
<1> HIDE DEF t
<1>4. \A i \in 1 .. Len(s) : Runs(t, i) => Runs(s, i)
  BY <1>2, <1>3 DEF Runs
<1>5. ASSUME NEW i \in 1 .. Len(t), t[i].f = "right"
      PROVE  Safe(t, w, L, i)
  <2>1. CASE i = Len(t)
    <3>1. t[i] = fr /\ i + 1 .. Len(t) = {}
      BY <1>2, <1>3, <2>1
    <3> QED BY <1>5, <3>1 DEF InList, Safe
  <2>2. CASE i # Len(t)
    <3>1. i \in 1 .. Len(s) /\ t[i] = s[i]
      BY <1>2, <1>3, <2>2
    <3>2. Safe(s, w, L, i)
      BY <1>5, <3>1 DEF OperandsOK
    <3>3. \A k \in i + 1 .. Len(t) : IsCall(t[k]) => k \in i + 1 .. Len(s) /\ t[k] = s[k]
      BY <1>1, <1>2, <1>3, <3>1
    <3>4. \A k \in i + 1 .. Len(s) : \A j \in k + 1 .. Len(t) : IsCall(t[j]) => j \in k + 1 .. Len(s) /\ t[j] = s[j]
      BY <1>1, <1>2, <1>3, <3>1
    <3> QED BY <3>1, <3>2, <3>3, <3>4 DEF Safe
  <2> QED BY <2>1, <2>2
<1>6. Nested(t)
  <2> SUFFICES ASSUME NEW i \in 1 .. Len(t), NEW j \in i + 1 .. Len(t),
                      Works(t[i]), t[j].f \in {"list", "for", "try"}
               PROVE  \E k \in i + 1 .. j : IsCall(t[k])
    BY DEF Nested
  <2>1. i \in 1 .. Len(s) /\ t[i] = s[i]
    BY <1>2, <1>3
  <2>2. CASE j = Len(t)
    <3>1. ~Runs(s, i)
      BY <1>2, <1>3, <2>1, <2>2 DEF InOperand
    <3> QED BY <1>2, <1>3, <2>1, <2>2, <3>1 DEF Runs
  <2>3. CASE j # Len(t)
    <3>1. j \in i + 1 .. Len(s) /\ t[j] = s[j]
      BY <1>2, <1>3, <2>1, <2>3
    <3>2. PICK k \in i + 1 .. j : IsCall(s[k])
      BY <2>1, <3>1 DEF Nested
    <3> QED BY <1>2, <1>3, <2>1, <3>1, <3>2
  <2> QED BY <2>2, <2>3
<1>7. LoopsFree(t, S)
  <2> SUFFICES ASSUME NEW i \in 1 .. Len(t), t[i].f = "for"
               PROVE  /\ t[i].body \in S
                      /\ \A j \in i + 1 .. Len(t) : LoopFree(t[j], S) \/ \E k \in i + 1 .. j : IsCall(t[k])
    BY DEF LoopsFree
  <2>1. CASE i = Len(t)
    BY <1>2, <1>3, <2>1
  <2>2. CASE i # Len(t)
    <3>1. i \in 1 .. Len(s) /\ t[i] = s[i]
      BY <1>2, <1>3, <2>2
    <3>2. ASSUME NEW j \in i + 1 .. Len(t)
          PROVE  LoopFree(t[j], S) \/ \E k \in i + 1 .. j : IsCall(t[k])
      <4>1. CASE j = Len(t)
        <5>1. CASE Runs(s, i)
          BY <1>2, <1>3, <3>1, <4>1, <5>1 DEF InLoop
        <5>2. CASE ~Runs(s, i)
          BY <1>2, <1>3, <3>1, <4>1, <5>2 DEF Runs
        <5> QED BY <5>1, <5>2
      <4>2. CASE j # Len(t)
        <5>1. j \in i + 1 .. Len(s) /\ t[j] = s[j]
          BY <1>2, <1>3, <3>1, <4>2
        <5>2. LoopFree(s[j], S) \/ \E k \in i + 1 .. j : IsCall(s[k])
          BY <3>1, <5>1 DEF LoopsFree
        <5> QED BY <1>2, <1>3, <3>1, <5>1, <5>2
      <4> QED BY <4>1, <4>2
    <3> QED BY <3>1, <3>2 DEF LoopsFree
  <2> QED BY <2>1, <2>2
<1>8. InOperand(t) => Works(fr) \/ InOperand(s)
  BY <1>2, <1>3, <1>4 DEF InOperand
<1>9. InLoop(t) => fr.f = "for" \/ InLoop(s)
  BY <1>2, <1>3, <1>4 DEF InLoop
<1> QED BY <1>5, <1>6, <1>7, <1>8, <1>9 DEF OperandsOK, t

LEMMA PopValue ==
  ASSUME NEW S, NEW s, NEW w, NEW p, NEW L, StackOK(s, w, p), s # <<>>, ~IsCall(Last(s)),
         OperandsOK(s, w, L), Nested(s), LoopsFree(s, S)
  PROVE  /\ OperandsOK(Front(s), w, L) /\ Nested(Front(s)) /\ LoopsFree(Front(s), S)
         /\ InOperand(Front(s)) => InOperand(s) /\ Last(s).f \notin {"list", "for", "try"}
         /\ InLoop(Front(s)) => InLoop(s) /\ LoopFree(Last(s), S)
         /\ Last(s).f = "for" => InLoop(s) /\ Last(s).body \in S
         /\ Last(s).f = "right" => InList(L, Last(s).left)
         /\ Works(Last(s)) => InOperand(s)
<1> DEFINE t == Front(s)
           n == Len(s)
<1>2. s \in Seq(Frame) /\ n \in Nat \ {0} /\ Last(s) = s[n] /\ ~IsCall(s[n])
  BY Popped DEF StackOK
<1>3. t \in Seq(Frame) /\ Len(t) = n - 1 /\ \A i \in 1 .. Len(t) : t[i] = s[i]
  BY <1>2, Popped
<1> HIDE DEF t
<1>4. \A i \in 1 .. Len(t) : i \in 1 .. n /\ (Runs(t, i) => Runs(s, i))
  BY <1>2, <1>3 DEF Runs
<1>5. n \in 1 .. n /\ Runs(s, n)
  BY <1>2 DEF Runs
<1>6. ASSUME NEW i \in 1 .. Len(t), t[i].f = "right"
      PROVE  Safe(t, w, L, i)
  <2>1. Safe(s, w, L, i) /\ t[i] = s[i]
    BY <1>3, <1>4, <1>6 DEF OperandsOK
  <2>2. \A k \in i + 1 .. Len(t) : k \in i + 1 .. n /\ t[k] = s[k]
    BY <1>2, <1>3
  <2>3. \A k \in i + 1 .. n : \A j \in k + 1 .. Len(t) : j \in k + 1 .. n /\ t[j] = s[j]
    BY <1>2, <1>3
  <2> QED BY <2>1, <2>2, <2>3 DEF Safe
<1>7. Nested(t)
  <2> SUFFICES ASSUME NEW i \in 1 .. Len(t), NEW j \in i + 1 .. Len(t),
                      Works(t[i]), t[j].f \in {"list", "for", "try"}
               PROVE  \E k \in i + 1 .. j : IsCall(t[k])
    BY DEF Nested
  <2>1. t[i] = s[i] /\ t[j] = s[j] /\ i \in 1 .. n /\ j \in i + 1 .. n
    BY <1>2, <1>3
  <2>2. PICK k \in i + 1 .. j : IsCall(s[k])
    BY <2>1 DEF Nested
  <2> QED BY <1>2, <1>3, <2>1, <2>2
<1>8. LoopsFree(t, S)
  <2> SUFFICES ASSUME NEW i \in 1 .. Len(t), t[i].f = "for"
               PROVE  /\ t[i].body \in S
                      /\ \A j \in i + 1 .. Len(t) : LoopFree(t[j], S) \/ \E k \in i + 1 .. j : IsCall(t[k])
    BY DEF LoopsFree
  <2>1. t[i] = s[i] /\ i \in 1 .. n /\ s[i].body \in S
    BY <1>3, <1>4 DEF LoopsFree
  <2>2. ASSUME NEW j \in i + 1 .. Len(t)
        PROVE  LoopFree(t[j], S) \/ \E k \in i + 1 .. j : IsCall(t[k])
    <3>1. t[j] = s[j] /\ j \in i + 1 .. n
      BY <1>2, <1>3
    <3>2. LoopFree(s[j], S) \/ \E k \in i + 1 .. j : IsCall(s[k])
      BY <2>1, <3>1 DEF LoopsFree
    <3> QED BY <1>2, <1>3, <3>1, <3>2
  <2> QED BY <2>1, <2>2
<1>9. InOperand(t) => InOperand(s) /\ Last(s).f \notin {"list", "for", "try"}
  <2> SUFFICES ASSUME NEW i \in 1 .. Len(t), Works(t[i]), Runs(t, i)
               PROVE  InOperand(s) /\ s[n].f \notin {"list", "for", "try"}
    BY <1>2 DEF InOperand
  <2>1. t[i] = s[i] /\ i \in 1 .. n /\ Runs(s, i) /\ n \in i + 1 .. n
    BY <1>2, <1>3, <1>4
  <2>2. ~ \E k \in i + 1 .. n : IsCall(s[k])
    BY <2>1 DEF Runs
  <2> QED BY <2>1, <2>2 DEF InOperand, Nested
<1>10. InLoop(t) => InLoop(s) /\ LoopFree(Last(s), S)
  <2> SUFFICES ASSUME NEW i \in 1 .. Len(t), t[i].f = "for", Runs(t, i)
               PROVE  InLoop(s) /\ LoopFree(s[n], S)
    BY <1>2 DEF InLoop
  <2>1. t[i] = s[i] /\ i \in 1 .. n /\ Runs(s, i) /\ n \in i + 1 .. n
    BY <1>2, <1>3, <1>4
  <2>2. ~ \E k \in i + 1 .. n : IsCall(s[k])
    BY <2>1 DEF Runs
  <2> QED BY <2>1, <2>2 DEF InLoop, LoopsFree
<1>11. Last(s).f = "for" => InLoop(s) /\ Last(s).body \in S
  BY <1>2, <1>5 DEF InLoop, LoopsFree
<1>12. Last(s).f = "right" => InList(L, Last(s).left)
  BY <1>2, <1>5 DEF OperandsOK, Safe, InList
<1>13. Works(Last(s)) => InOperand(s)
  BY <1>2, <1>5 DEF InOperand
<1> QED BY <1>6, <1>7, <1>8, <1>9, <1>10, <1>11, <1>12, <1>13 DEF OperandsOK, t

LEMMA PushCallValue ==
  ASSUME NEW S, NEW s, NEW w, NEW p, NEW L, NEW l, NEW fr \in Routine, StackOK(s, w, p),
         fr.where = w, \A m \in DOMAIN L : m < l, OperandsOK(s, w, L), Nested(s), LoopsFree(s, S)
  PROVE  /\ OperandsOK(Append(s, fr), l, L) /\ Nested(Append(s, fr)) /\ LoopsFree(Append(s, fr), S)
         /\ ~InOperand(Append(s, fr)) /\ ~InLoop(Append(s, fr))
<1> DEFINE t == Append(s, fr)
           n == Len(s) + 1
<1>1. fr \in Frame /\ IsCall(fr) /\ fr.f = "routine"
  BY Tags DEF Frame, IsCall
<1>2. s \in Seq(Frame) /\ Len(s) \in Nat
  BY DEF StackOK
<1>3. t \in Seq(Frame) /\ Len(t) = n /\ t[n] = fr /\ \A i \in 1 .. Len(s) : t[i] = s[i]
  BY <1>1, <1>2, Pushed
<1> HIDE DEF t
<1>4. \A i \in 1 .. Len(t) : i \in 1 .. Len(s) \/ i = n
  BY <1>2, <1>3
<1>5. ASSUME NEW i \in 1 .. Len(t), t[i].f = "right"
      PROVE  Safe(t, l, L, i)
  <2>1. i \in 1 .. Len(s) /\ t[i] = s[i]
    BY <1>1, <1>3, <1>4, <1>5
  <2>2. Safe(s, w, L, i)
    BY <1>5, <2>1 DEF OperandsOK
  <2>3. CASE s[i].left = None
    BY <2>1, <2>3 DEF Safe
  <2>4. CASE s[i].left # None
    <3>1. PICK m \in DOMAIN L :
             /\ s[i].left \in L[m].objects
             /\ \A k \in i + 1 .. Len(s) : IsCall(s[k]) =>
                  m < w /\ \A j \in k + 1 .. Len(s) : IsCall(s[j]) => m < s[j].where
      BY <2>2, <2>4 DEF Safe
    <3>2. ASSUME NEW k \in i + 1 .. Len(t), IsCall(t[k]), NEW j \in k + 1 .. Len(t), IsCall(t[j])
          PROVE  m < t[j].where
      <4>1. k \in i + 1 .. Len(s) /\ t[k] = s[k]
        BY <1>2, <1>3
      <4>2. CASE j = n
        BY <1>3, <3>1, <3>2, <4>1, <4>2
      <4>3. CASE j # n
        <5>1. j \in k + 1 .. Len(s) /\ t[j] = s[j]
          BY <1>2, <1>3, <4>1, <4>3
        <5> QED BY <3>1, <3>2, <4>1, <5>1
      <4> QED BY <4>2, <4>3
    <3> QED BY <2>1, <3>1, <3>2 DEF Safe
  <2> QED BY <2>3, <2>4
<1>6. Nested(t)
  <2> SUFFICES ASSUME NEW i \in 1 .. Len(t), NEW j \in i + 1 .. Len(t),
                      Works(t[i]), t[j].f \in {"list", "for", "try"}
               PROVE  \E k \in i + 1 .. j : IsCall(t[k])
    BY DEF Nested
  <2>1. t[i] = s[i] /\ t[j] = s[j] /\ i \in 1 .. Len(s) /\ j \in i + 1 .. Len(s)
    BY <1>1, <1>2, <1>3
  <2>2. PICK k \in i + 1 .. j : IsCall(s[k])
    BY <2>1 DEF Nested
  <2> QED BY <1>2, <1>3, <2>1, <2>2
<1>7. LoopsFree(t, S)
  <2> SUFFICES ASSUME NEW i \in 1 .. Len(t), t[i].f = "for"
               PROVE  /\ t[i].body \in S
                      /\ \A j \in i + 1 .. Len(t) : LoopFree(t[j], S) \/ \E k \in i + 1 .. j : IsCall(t[k])
    BY DEF LoopsFree
  <2>1. t[i] = s[i] /\ i \in 1 .. Len(s) /\ s[i].body \in S
    BY <1>1, <1>3, <1>4 DEF LoopsFree
  <2>2. ASSUME NEW j \in i + 1 .. Len(t)
        PROVE  LoopFree(t[j], S) \/ \E k \in i + 1 .. j : IsCall(t[k])
    <3>1. CASE j = n
      BY <1>1, <1>2, <1>3, <2>1, <3>1
    <3>2. CASE j # n
      <4>1. t[j] = s[j] /\ j \in i + 1 .. Len(s)
        BY <1>2, <1>3, <2>1, <3>2
      <4>2. LoopFree(s[j], S) \/ \E k \in i + 1 .. j : IsCall(s[k])
        BY <2>1, <4>1 DEF LoopsFree
      <4> QED BY <1>2, <1>3, <2>1, <4>1, <4>2
    <3> QED BY <3>1, <3>2
  <2> QED BY <2>1, <2>2
<1>8. ASSUME NEW i \in 1 .. Len(t), Runs(t, i)
      PROVE  i = n
  BY <1>1, <1>2, <1>3, <1>4, <1>8 DEF Runs
<1>9. ~Works(t[n]) /\ t[n].f # "for"
  BY <1>1, <1>3 DEF Works
<1>10. ~InOperand(t) /\ ~InLoop(t)
  BY <1>8, <1>9 DEF InOperand, InLoop
<1> QED BY <1>5, <1>6, <1>7, <1>10 DEF OperandsOK, t

LEMMA PopCallValue ==
  ASSUME NEW S, NEW s, NEW w, NEW p, NEW L, StackOK(s, w, p), s # <<>>, IsCall(Last(s)),
         OperandsOK(s, w, L), Nested(s), LoopsFree(s, S)
  PROVE  OperandsOK(Front(s), Last(s).where, L) /\ Nested(Front(s)) /\ LoopsFree(Front(s), S)
<1> DEFINE t == Front(s)
           n == Len(s)
<1>2. s \in Seq(Frame) /\ n \in Nat \ {0} /\ Last(s) = s[n] /\ IsCall(s[n])
  BY Popped DEF StackOK
<1>3. t \in Seq(Frame) /\ Len(t) = n - 1 /\ \A i \in 1 .. Len(t) : t[i] = s[i]
  BY <1>2, Popped
<1> HIDE DEF t
<1>6. ASSUME NEW i \in 1 .. Len(t), t[i].f = "right"
      PROVE  Safe(t, s[n].where, L, i)
  <2>1. Safe(s, w, L, i) /\ t[i] = s[i]
    BY <1>2, <1>3, <1>6 DEF OperandsOK
  <2>2. \A k \in i + 1 .. Len(t) : k \in i + 1 .. n /\ t[k] = s[k] /\ n \in k + 1 .. n
    BY <1>2, <1>3
  <2>3. \A k \in i + 1 .. n : \A j \in k + 1 .. Len(t) : j \in k + 1 .. n /\ t[j] = s[j]
    BY <1>2, <1>3
  <2> QED BY <1>2, <2>1, <2>2, <2>3 DEF Safe
<1>7. Nested(t)
  <2> SUFFICES ASSUME NEW i \in 1 .. Len(t), NEW j \in i + 1 .. Len(t),
                      Works(t[i]), t[j].f \in {"list", "for", "try"}
               PROVE  \E k \in i + 1 .. j : IsCall(t[k])
    BY DEF Nested
  <2>1. t[i] = s[i] /\ t[j] = s[j] /\ i \in 1 .. n /\ j \in i + 1 .. n
    BY <1>2, <1>3
  <2>2. PICK k \in i + 1 .. j : IsCall(s[k])
    BY <2>1 DEF Nested
  <2> QED BY <1>2, <1>3, <2>1, <2>2
<1>8. LoopsFree(t, S)
  <2> SUFFICES ASSUME NEW i \in 1 .. Len(t), t[i].f = "for"
               PROVE  /\ t[i].body \in S
                      /\ \A j \in i + 1 .. Len(t) : LoopFree(t[j], S) \/ \E k \in i + 1 .. j : IsCall(t[k])
    BY DEF LoopsFree
  <2>1. t[i] = s[i] /\ i \in 1 .. n /\ s[i].body \in S
    BY <1>2, <1>3 DEF LoopsFree
  <2>2. ASSUME NEW j \in i + 1 .. Len(t)
        PROVE  LoopFree(t[j], S) \/ \E k \in i + 1 .. j : IsCall(t[k])
    <3>1. t[j] = s[j] /\ j \in i + 1 .. n
      BY <1>2, <1>3
    <3>2. LoopFree(s[j], S) \/ \E k \in i + 1 .. j : IsCall(s[k])
      BY <2>1, <3>1 DEF LoopsFree
    <3> QED BY <1>2, <1>3, <3>1, <3>2
  <2> QED BY <2>1, <2>2
<1> QED BY <1>2, <1>6, <1>7, <1>8 DEF OperandsOK, t

-----------------------------------------------------------------------------
(* The steps keep values. *)

LEMMA GrowsValues ==
  ASSUME NEW L, NEW M, Grows(L, M)
  PROVE  /\ \A o : InList(L, o) => InList(M, o)
         /\ \A s, w : OperandsOK(s, w, L) => OperandsOK(s, w, M)
<1>1. \A o : InList(L, o) => InList(M, o)
  BY DEF Grows, InList
<1>2. ASSUME NEW s, NEW w, NEW i, Safe(s, w, L, i)
      PROVE  Safe(s, w, M, i)
  BY <1>2 DEF Grows, Safe
<1> QED BY <1>1, <1>2 DEF OperandsOK

(* A list is cleaned when no operator of its function waits. *)
LEMMA CleanValues ==
  ASSUME NEW s, NEW w, NEW L, NEW M, OperandsOK(s, w, L), ~InOperand(s),
         \A m \in DOMAIN L : m < w => m \in DOMAIN M /\ M[m] = L[m]
  PROVE  OperandsOK(s, w, M)
<1> SUFFICES ASSUME NEW i \in 1 .. Len(s), s[i].f = "right"
             PROVE  Safe(s, w, M, i)
  BY DEF OperandsOK
<1>1. Safe(s, w, L, i)
  BY DEF OperandsOK
<1>2. PICK k \in i + 1 .. Len(s) : IsCall(s[k])
  BY DEF InOperand, Works, Runs
<1> QED BY <1>1, <1>2 DEF Safe

LEMMA ValuePush ==
  ASSUME NEW S, FrameInv, ValueInv(S), UNCHANGED <<where, lists>>, NEW fr \in Plain, Push(fr),
         fr.f \in {"list", "for", "try"} => ~InOperand(ctl), fr.f # "right",
         fr.f = "for" => fr.body \in S,
         InLoop(ctl) => LoopFree(fr, S),
         now'.val = None,
         (Works(fr) \/ InOperand(ctl)) /\ now'.k = "do" => IsExpression(now'.node),
         fr.f = "for" \/ InLoop(ctl) => NowFree(S)'
  PROVE  ValueInv(S)'
<1>1. ctl' = Append(ctl, fr) /\ StackOK(ctl, where, param)
  BY DEF Push, FrameInv
<1>2. OperandsOK(ctl, where, lists) /\ Nested(ctl) /\ LoopsFree(ctl, S)
  BY DEF ValueInv
<1>3. /\ OperandsOK(ctl', where, lists) /\ Nested(ctl') /\ LoopsFree(ctl', S)
      /\ InOperand(ctl') => Works(fr) \/ InOperand(ctl)
      /\ InLoop(ctl') => fr.f = "for" \/ InLoop(ctl)
  BY <1>1, <1>2, PushValue
<1>4. InList(lists', now'.val)
  BY DEF InList
<1> QED BY <1>3, <1>4 DEF ValueInv

LEMMA ValuePop ==
  ASSUME NEW S, FrameInv, ValueInv(S), UNCHANGED where, ctl # <<>>, ~IsCall(Top), Pop,
         OperandsOK(ctl, where, lists'), InList(lists', now'.val),
         InOperand(Front(ctl)) /\ now'.k = "do" => IsExpression(now'.node),
         InLoop(Front(ctl)) => NowFree(S)'
  PROVE  ValueInv(S)'
<1>1. ctl' = Front(ctl) /\ StackOK(ctl, where, param) /\ ~IsCall(Last(ctl))
  BY DEF Pop, FrameInv, Top
<1>2. Nested(ctl) /\ LoopsFree(ctl, S)
  BY DEF ValueInv
<1>3. OperandsOK(ctl', where, lists') /\ Nested(ctl') /\ LoopsFree(ctl', S)
  BY <1>1, <1>2, PopValue
<1> QED BY <1>1, <1>3 DEF ValueInv

LEMMA ValueSwap ==
  ASSUME NEW S, FrameInv, ValueInv(S), UNCHANGED where, ctl # <<>>, ~IsCall(Top),
         NEW fr \in Plain, Swap(fr), OperandsOK(ctl, where, lists'),
         fr.f = "right" => InList(lists', fr.left),
         fr.f \in {"list", "for", "try"} => ~InOperand(Front(ctl)),
         fr.f = "for" => fr.body \in S,
         InLoop(Front(ctl)) => LoopFree(fr, S),
         now'.val = None,
         (Works(fr) \/ InOperand(Front(ctl))) /\ now'.k = "do" => IsExpression(now'.node),
         fr.f = "for" \/ InLoop(Front(ctl)) => NowFree(S)'
  PROVE  ValueInv(S)'
<1>1. /\ ctl' = Append(Front(ctl), fr) /\ StackOK(ctl, where, param) /\ ~IsCall(Last(ctl))
      /\ HeldOK(ctl, where, param, lists)
  BY DEF Swap, FrameInv, Top
<1>2. Nested(ctl) /\ LoopsFree(ctl, S)
  BY DEF ValueInv
<1>3. OperandsOK(Front(ctl), where, lists') /\ Nested(Front(ctl)) /\ LoopsFree(Front(ctl), S)
  BY <1>1, <1>2, PopValue
<1>4. StackOK(Front(ctl), where, param)
  BY <1>1, PopFrame
<1>5. /\ OperandsOK(ctl', where, lists') /\ Nested(ctl') /\ LoopsFree(ctl', S)
      /\ InOperand(ctl') => Works(fr) \/ InOperand(Front(ctl))
      /\ InLoop(ctl') => fr.f = "for" \/ InLoop(Front(ctl))
  BY <1>1, <1>3, <1>4, PushValue
<1>6. InList(lists', now'.val)
  BY DEF InList
<1> QED BY <1>5, <1>6 DEF ValueInv

(* What is known of the innermost frame. *)
LEMMA TopValue ==
  ASSUME NEW S, FrameInv, ValueInv(S), ctl # <<>>, ~IsCall(Top)
  PROVE  /\ InOperand(Front(ctl)) => InOperand(ctl) /\ Top.f \notin {"list", "for", "try"}
         /\ InLoop(Front(ctl)) => InLoop(ctl) /\ LoopFree(Top, S)
         /\ Top.f = "for" => InLoop(ctl) /\ Top.body \in S
         /\ Top.f \in {"list", "for", "try"} => ~InOperand(ctl)
<1>1. StackOK(ctl, where, param) /\ ~IsCall(Last(ctl)) /\ Top = Last(ctl)
  BY DEF FrameInv, Top
<1>2. OperandsOK(ctl, where, lists) /\ Nested(ctl) /\ LoopsFree(ctl, S)
  BY DEF ValueInv
<1>3. /\ InOperand(Front(ctl)) => InOperand(ctl) /\ Last(ctl).f \notin {"list", "for", "try"}
      /\ InLoop(Front(ctl)) => InLoop(ctl) /\ LoopFree(Last(ctl), S)
      /\ Last(ctl).f = "for" => InLoop(ctl) /\ Last(ctl).body \in S
  BY <1>1, <1>2, PopValue
<1>4. ASSUME Top.f \in {"list", "for", "try"}, NEW i \in 1 .. Len(ctl), Works(ctl[i]), Runs(ctl, i)
      PROVE  FALSE
  <2>1. Top = ctl[Len(ctl)] /\ Len(ctl) \in Nat \ {0}
    BY TopOK
  <2>2. i # Len(ctl)
    BY <1>4, <2>1 DEF Works
  <2>3. Len(ctl) \in i + 1 .. Len(ctl)
    BY <2>1, <2>2
  <2>4. PICK k \in i + 1 .. Len(ctl) : IsCall(ctl[k])
    BY <1>2, <1>4, <2>1, <2>3 DEF Nested
  <2> QED BY <1>4, <2>4 DEF Runs
<1> QED BY <1>1, <1>3, <1>4 DEF InOperand

(* A node that is not an expression. *)
LEMMA NotInOperand ==
  ASSUME NEW S, FrameInv, ValueInv(S), NoReturnIn(S), now.k = "do", ~IsExpression(now.node)
  PROVE  /\ ~InOperand(ctl)
         /\ InLoop(ctl) =>
              \/ now.node \in S
              \/ now.node.op \in {"block", "list"} /\ now.node.ins \in Seq(S)
  BY DEF ValueInv, NowFree

LEMMA ValueTemp ==
  ASSUME NEW S, FrameInv, EnoughMemory, ValueInv(S), Temp
  PROVE  ValueInv(S)'
<1>1. where \in DOMAIN lists
  BY DEF FrameInv, HeldOK, Rooted
<1>2. Fresh \in lists'[where].objects /\ DOMAIN lists' = DOMAIN lists /\ Grows(lists, lists')
  BY <1>1, MakeTemporary DEF Temp, FrameInv
<1>3. now'.k = "ok" /\ now'.val = Fresh
  BY DEF Temp, Gives, Ok
<1>4. InList(lists', now'.val)
  BY <1>1, <1>2, <1>3 DEF InList
<1>5. OperandsOK(ctl, where, lists')
  BY <1>2, GrowsValues DEF ValueInv
<1> QED BY <1>3, <1>4, <1>5 DEF ValueInv, NowFree, Temp

LEMMA ValueFail ==
  ASSUME NEW S, ValueInv(S), Fail
  PROVE  ValueInv(S)'
<1>1. now'.k = "throw" /\ now'.val = None
  BY DEF Fail, Gives, Throw
<1> QED BY <1>1 DEF ValueInv, NowFree, Fail, InList

LEMMA ValueLeft ==
  ASSUME NEW S, FrameInv, ValueInv(S), Left
  PROVE  ValueInv(S)'
<1>1. now.k = "do" /\ now.node.op = "plus"
  BY DEF Left, Given
<1>2. now.node \in Nodes
  BY <1>1, DoableParts DEF FrameInv, NowOK
<1>3. IsExpression(now.node.left)
  BY <1>1, <1>2, Parts
<1>4. now'.k = "do" /\ now'.node = now.node.left /\ now'.val = None
  BY DEF Left, Gives, Do
<1> DEFINE fr == [f |-> "left", node |-> now.node]
<1>5. fr \in Plain /\ fr.f = "left" /\ LoopFree(fr, S)
  BY <1>1, <1>2 DEF Plain, Operand, LoopFree
<1>6. NowFree(S)'
  BY <1>3, <1>4 DEF NowFree
<1>7. Push(fr) /\ UNCHANGED <<where, lists>>
  BY DEF Left
<1> HIDE DEF fr
<1> QED BY <1>3, <1>4, <1>5, <1>6, <1>7, ValuePush

LEMMA ValueRight ==
  ASSUME NEW S, FrameInv, ValueInv(S), Right
  PROVE  ValueInv(S)'
<1>1. now.k = "ok" /\ ctl # <<>> /\ Top.f = "left" /\ UNCHANGED <<where, lists>>
  BY DEF Right, Given, In
<1>2. Top \in Frame /\ ~IsCall(Top)
  BY <1>1, TopOK DEF IsCall
<1>3. IsExpression(Top.node.right)
  BY <1>1, <1>2, Tags, Parts
<1>4. now'.k = "do" /\ now'.node = Top.node.right /\ now'.val = None
  BY DEF Right, Gives, Do
<1> DEFINE fr == [f |-> "right", left |-> now.val]
<1>5. fr \in Plain /\ fr.f = "right" /\ fr.left = now.val /\ LoopFree(fr, S)
  BY DEF Plain, Operand, LoopFree, FrameInv, NowOK
<1>6. NowFree(S)'
  BY <1>3, <1>4 DEF NowFree
<1>7. Swap(fr)
  BY DEF Right
<1>8. InList(lists', fr.left) /\ OperandsOK(ctl, where, lists')
  BY <1>1, <1>5 DEF ValueInv
<1> HIDE DEF fr
<1> QED BY <1>1, <1>2, <1>3, <1>4, <1>5, <1>6, <1>7, <1>8, ValueSwap

(* A new temporary is the value of an operator, or what a return throws. *)
LEMMA ValuePopTemporary ==
  ASSUME NEW S, FrameInv, EnoughMemory, ValueInv(S), ctl # <<>>, ~IsCall(Top), Pop,
         Made(Fresh), Temporary(Fresh), UNCHANGED where, now'.k # "do", now'.val = Fresh,
         now'.k = "throw" => ~InLoop(Front(ctl))
  PROVE  ValueInv(S)'
<1>1. where \in DOMAIN lists
  BY DEF FrameInv, HeldOK, Rooted
<1>2. Fresh \in lists'[where].objects /\ DOMAIN lists' = DOMAIN lists /\ Grows(lists, lists')
  BY <1>1, MakeTemporary DEF FrameInv
<1>3. InList(lists', now'.val)
  BY <1>1, <1>2 DEF InList
<1>4. OperandsOK(ctl, where, lists')
  BY <1>2, GrowsValues DEF ValueInv
<1>5. InLoop(Front(ctl)) => NowFree(S)'
  BY DEF NowFree
<1> QED BY <1>3, <1>4, <1>5, ValuePop

LEMMA ValuePlus ==
  ASSUME NEW S, FrameInv, EnoughMemory, ValueInv(S), Plus
  PROVE  ValueInv(S)'
<1>1. now'.k = "ok" /\ now'.val = Fresh
  BY DEF Plus, Gives, Ok
<1> QED BY <1>1, ValuePopTemporary DEF Plus, In, IsCall

LEMMA ValueReturnValue ==
  ASSUME NEW S, FrameInv, EnoughMemory, ValueInv(S), ReturnValue
  PROVE  ValueInv(S)'
<1>1. now'.k = "throw" /\ now'.val = Fresh
  BY DEF ReturnValue, Gives, Throw
<1>2. ctl # <<>> /\ Top.f = "return" /\ ~IsCall(Top)
  BY DEF ReturnValue, In, IsCall
<1>3. ~InLoop(Front(ctl))
  BY <1>2, TopValue DEF LoopFree
<1> QED BY <1>1, <1>2, <1>3, ValuePopTemporary DEF ReturnValue

LEMMA ValueCall ==
  ASSUME NEW S, FrameInv, EnoughMemory, ValueInv(S), Call
  PROVE  ValueInv(S)'
<1>1. /\ \A m \in DOMAIN lists : m < where'
      /\ Grows(lists, lists')
  BY CallMemory
<1> DEFINE fr == [f |-> "routine", where |-> where, param |-> param]
<1>2. ctl' = Append(ctl, fr)
  BY DEF Call, Push
<1>3. StackOK(ctl, where, param) /\ fr \in Routine /\ fr.where = where
  BY DEF FrameInv, StackOK, Routine
<1>4. OperandsOK(ctl, where, lists) /\ Nested(ctl) /\ LoopsFree(ctl, S)
  BY DEF ValueInv
<1> HIDE DEF fr
<1>5. /\ OperandsOK(Append(ctl, fr), where', lists) /\ Nested(Append(ctl, fr)) /\ LoopsFree(Append(ctl, fr), S)
      /\ ~InOperand(Append(ctl, fr)) /\ ~InLoop(Append(ctl, fr))
  BY <1>1, <1>3, <1>4, PushCallValue
<1>6. OperandsOK(ctl', where', lists')
  BY <1>1, <1>2, <1>5, GrowsValues
<1>7. now'.val = None
  BY DEF Call, Gives, Do
<1>8. InList(lists', now'.val)
  BY <1>7 DEF InList
<1> QED BY <1>2, <1>5, <1>6, <1>8 DEF ValueInv

LEMMA ValueReturn ==
  ASSUME NEW S, FrameInv, ValueInv(S), Return
  PROVE  ValueInv(S)'
<1>1. /\ ctl # <<>> /\ IsCall(Last(ctl))
      /\ where' = Last(ctl).where /\ ctl' = Front(ctl) /\ lists' = lists
  BY DEF Return, In, IsCall, Top, Pop
<1>2. now'.k = "ok" /\ now'.val = now.val
  BY DEF Return, Gives, Ok
<1>3. OperandsOK(ctl, where, lists) /\ Nested(ctl) /\ LoopsFree(ctl, S) /\ StackOK(ctl, where, param)
  BY DEF ValueInv, FrameInv
<1>4. OperandsOK(ctl', where', lists') /\ Nested(ctl') /\ LoopsFree(ctl', S)
  BY <1>1, <1>3, PopCallValue
<1> QED BY <1>1, <1>2, <1>4 DEF ValueInv, NowFree

LEMMA ValueRoutineFails ==
  ASSUME NEW S, FrameInv, ValueInv(S), RoutineFails
  PROVE  ValueInv(S)'
<1>1. /\ ctl # <<>> /\ IsCall(Last(ctl)) /\ Top = Last(ctl) /\ Top.f = "routine"
      /\ where' = Last(ctl).where /\ ctl' = Front(ctl) /\ now' = now
      /\ heap' = Delete(Swept(where) \cup {}) /\ lists' = Cleaned(where)
      /\ now.k = "throw" /\ now.code = "error"
  BY DEF RoutineFails, Restored, In, IsCall, Top, Pop, Given
<1>2. now.val = None
  BY <1>1 DEF FrameInv, NowOK
<1>3. \A m \in DOMAIN lists : m < where => m \in DOMAIN lists' /\ lists'[m] = lists[m]
  BY <1>1, CleanMemory DEF FrameInv
<1>4. ~InOperand(ctl)
  <2>1. Top = ctl[Len(ctl)] /\ Len(ctl) \in Nat \ {0}
    BY <1>1, TopOK
  <2> QED BY <1>1, <2>1 DEF InOperand, Runs, Works, IsCall
<1>5. OperandsOK(ctl, where, lists')
  BY <1>3, <1>4, CleanValues DEF ValueInv
<1>6. Nested(ctl) /\ LoopsFree(ctl, S) /\ StackOK(ctl, where, param)
  BY DEF ValueInv, FrameInv
<1>7. OperandsOK(ctl', where', lists') /\ Nested(ctl') /\ LoopsFree(ctl', S)
  BY <1>1, <1>5, <1>6, PopCallValue
<1> QED BY <1>1, <1>2, <1>7 DEF ValueInv, NowFree, InList

LEMMA ValueJump ==
  ASSUME NEW S, ValueInv(S), Jump
  PROVE  ValueInv(S)'
<1>1. now'.k = "throw" /\ now'.val = None
  BY DEF Jump, Gives, Throw
<1> QED BY <1>1 DEF ValueInv, NowFree, Jump, InList

LEMMA ValueReturnExpr ==
  ASSUME NEW S, FrameInv, ValueInv(S), NoReturnIn(S), ReturnExpr
  PROVE  ValueInv(S)'
<1>1. now.k = "do" /\ now.node.op = "return"
  BY DEF ReturnExpr, Given
<1>2. now.node \in Nodes
  BY <1>1, DoableParts DEF FrameInv, NowOK
<1>3. IsExpression(now.node.expr)
  BY <1>1, <1>2, Parts
<1>4. now'.k = "do" /\ now'.node = now.node.expr /\ now'.val = None
  BY DEF ReturnExpr, Gives, Do
<1> DEFINE fr == [f |-> "return"]
<1>5. fr \in Plain /\ fr.f = "return"
  BY DEF Plain, Operand
<1>6. NowFree(S)'
  BY <1>3, <1>4 DEF NowFree
<1>7. Push(fr) /\ UNCHANGED <<where, lists>>
  BY DEF ReturnExpr
<1>8. ~InLoop(ctl)
  BY <1>1, NotInOperand DEF IsExpression, NoReturnIn
<1> HIDE DEF fr
<1> QED BY <1>3, <1>4, <1>5, <1>6, <1>7, <1>8, ValuePush

LEMMA ValueDeclare ==
  ASSUME NEW S, FrameInv, ValueInv(S), Declare
  PROVE  ValueInv(S)'
<1>1. now.k = "do" /\ now.node.op = "decl"
  BY DEF Declare, Given
<1>2. now.node \in Nodes
  BY <1>1, DoableParts DEF FrameInv, NowOK
<1>3. IsExpression(now.node.expr) /\ now.node.v \in Variables
  BY <1>1, <1>2, Parts
<1>4. now'.k = "do" /\ now'.node = now.node.expr /\ now'.val = None
  BY DEF Declare, Gives, Do
<1> DEFINE fr == [f |-> "decl", v |-> now.node.v]
<1>5. fr \in Plain /\ fr.f = "decl" /\ LoopFree(fr, S)
  BY <1>3 DEF Plain, Operand, LoopFree
<1>6. NowFree(S)'
  BY <1>3, <1>4 DEF NowFree
<1>7. Push(fr) /\ UNCHANGED <<where, lists>>
  BY DEF Declare
<1> HIDE DEF fr
<1> QED BY <1>3, <1>4, <1>5, <1>6, <1>7, ValuePush

(* A frame goes, and nothing is cleaned. *)
LEMMA ValueSteadyPop ==
  ASSUME NEW S, FrameInv, ValueInv(S), UNCHANGED <<where, lists>>, ctl # <<>>, ~IsCall(Top), Pop,
         now' = now \/ now'.val = None, now'.k # "do", now' = now \/ now'.k = "ok"
  PROVE  ValueInv(S)'
<1>1. OperandsOK(ctl, where, lists') /\ InList(lists', now'.val)
  BY DEF ValueInv, InList
<1>2. InLoop(Front(ctl)) => NowFree(S)'
  <2>1. InLoop(Front(ctl)) => InLoop(ctl)
    BY TopValue
  <2>2. InLoop(ctl) => NowFree(S)
    BY DEF ValueInv
  <2> QED BY <2>1, <2>2 DEF NowFree
<1> QED BY <1>1, <1>2, ValuePop

LEMMA ValueInitialise ==
  ASSUME NEW S, FrameInv, ValueInv(S), Initialise
  PROVE  ValueInv(S)'
<1>1. now'.k = "ok" /\ now'.val = None
  BY DEF Initialise, Gives, Ok
<1> QED BY <1>1, ValueSteadyPop DEF Initialise, In, IsCall

LEMMA ValueUnwind ==
  ASSUME NEW S, FrameInv, ValueInv(S), Unwind
  PROVE  ValueInv(S)'
  BY ValueSteadyPop DEF Unwind, IsCall, Given

LEMMA ValueLoopFails ==
  ASSUME NEW S, FrameInv, ValueInv(S), LoopFails
  PROVE  ValueInv(S)'
  BY ValueSteadyPop DEF LoopFails, In, IsCall, Given

LEMMA ValueTryEnds ==
  ASSUME NEW S, FrameInv, ValueInv(S), TryEnds
  PROVE  ValueInv(S)'
  BY ValueSteadyPop DEF TryEnds, In, IsCall, Given

LEMMA ValueStart ==
  ASSUME NEW S, FrameInv, ValueInv(S), NoReturnIn(S), Start
  PROVE  ValueInv(S)'
<1>1. now.k = "do" /\ now.node.op \in {"block", "list"} /\ UNCHANGED <<where, lists>>
  BY DEF Start, Given
<1>2. now.node.ins \in Code /\ Doable(now.node)
  BY <1>1, DoableParts DEF FrameInv, NowOK
<1>3. now.node.base \in SUBSET Variables
  BY <1>1, <1>2, DoableParts
<1>4. ~IsExpression(now.node)
  BY <1>1 DEF IsExpression
<1>5. ~InOperand(ctl) /\ (InLoop(ctl) => now.node.ins \in Seq(S))
  <2>1. now.node \in S => now.node.ins \in Seq(S)
    BY <1>1, Parts DEF NoReturnIn
  <2> QED BY <1>1, <1>4, <2>1, NotInOperand
<1> DEFINE fr == [f |-> "list", ins |-> now.node.ins, i |-> 1, sptr |-> where, param |-> param,
                  base |-> now.node.base, close |-> now.node.op = "block"]
<1>6. where \in Nat /\ param \in Values
  BY DEF FrameInv, StackOK
<1>7. fr \in Plain /\ fr.f = "list" /\ fr.ins = now.node.ins
  BY <1>2, <1>3, <1>6 DEF Plain, ListFrame
<1>8. now'.k = "do" /\ now'.node = Head(now.node.ins) /\ now'.val = None
  BY DEF Start, Gives, Do
<1>9. Push(fr)
  BY DEF Start
<1> HIDE DEF fr
<1>10. InLoop(ctl) => LoopFree(fr, S) /\ NowFree(S)'
  <2> SUFFICES ASSUME InLoop(ctl)
               PROVE  LoopFree(fr, S) /\ NowFree(S)'
    OBVIOUS
  <2>1. now.node.ins \in Seq(S) /\ now.node.ins # <<>>
    BY <1>2, <1>5 DEF Code
  <2>2. Head(now.node.ins) \in S
    BY <2>1
  <2> QED BY <1>7, <1>8, <2>1, <2>2 DEF LoopFree, NowFree
<1> QED BY <1>1, <1>5, <1>7, <1>8, <1>9, <1>10, ValuePush DEF Works

LEMMA ValueFor ==
  ASSUME NEW S, FrameInv, ValueInv(S), NoReturnIn(S), For
  PROVE  ValueInv(S)'
<1>1. now.k = "do" /\ now.node.op = "for" /\ UNCHANGED <<where, lists>>
  BY DEF For, Given
<1>2. now.node \in Nodes
  BY <1>1, DoableParts DEF FrameInv, NowOK
<1>3. now.node.turns \in Nat /\ now.node.body \in Nodes /\ now.node.body \in S
  BY <1>1, <1>2, Parts DEF NoReturnIn
<1>4. ~InOperand(ctl)
  BY <1>1, NotInOperand DEF IsExpression
<1> DEFINE fr == [f |-> "for", body |-> now.node.body, left |-> now.node.turns, sptr |-> where,
                  sptrclean |-> TRUE]
<1>5. where \in Nat
  BY DEF FrameInv, StackOK
<1>6. fr \in Plain /\ fr.f = "for" /\ fr.body = now.node.body
  BY <1>3, <1>5 DEF Plain, ForFrame
<1>7. now'.k = "do" /\ now'.node = now.node.body /\ now'.val = None
  BY DEF For, Gives, Do
<1>8. Push(fr)
  BY DEF For
<1> HIDE DEF fr
<1>9. LoopFree(fr, S) /\ NowFree(S)'
  BY <1>3, <1>6, <1>7 DEF LoopFree, NowFree
<1> QED BY <1>1, <1>3, <1>4, <1>6, <1>7, <1>8, <1>9, ValuePush DEF Works

LEMMA ValueTry ==
  ASSUME NEW S, FrameInv, ValueInv(S), NoReturnIn(S), Try
  PROVE  ValueInv(S)'
<1>1. now.k = "do" /\ now.node.op = "try" /\ UNCHANGED <<where, lists>>
  BY DEF Try, Given
<1>2. now.node \in Nodes
  BY <1>1, DoableParts DEF FrameInv, NowOK
<1>3. ~InOperand(ctl) /\ (InLoop(ctl) => now.node.ins \in Seq(S) /\ now.node.handler \in Seq(S))
  BY <1>1, NotInOperand DEF IsExpression, NoReturnIn
<1> DEFINE fr == [f |-> "try", node |-> now.node]
           n  == [op |-> "list", ins |-> now.node.ins, base |-> {}]
<1>4. fr \in Plain /\ fr.f = "try" /\ fr.node = now.node
  BY <1>1, <1>2 DEF Plain, TryFrame
<1>5. now'.k = "do" /\ now'.node = n /\ now'.val = None
  BY DEF Try, Gives, Do
<1>6. n.op = "list" /\ n.ins = now.node.ins
  OBVIOUS
<1>7. Push(fr)
  BY DEF Try
<1> HIDE DEF fr, n
<1>8. InLoop(ctl) => LoopFree(fr, S) /\ NowFree(S)'
  BY <1>3, <1>4, <1>5, <1>6 DEF LoopFree, NowFree
<1> QED BY <1>1, <1>3, <1>4, <1>5, <1>7, <1>8, ValuePush DEF Works

(* What a clean of the innermost list leaves. *)
LEMMA ValueClean ==
  ASSUME NEW S, FrameInv, ValueInv(S), ctl # <<>>, Top.f \in {"list", "for"},
         NEW more \in SUBSET OfVariables, clean(Top.sptr, more)
  PROVE  where' = where /\ OperandsOK(ctl, where, lists')
<1>1. Top.sptr = where /\ ~IsCall(Top)
  BY TopOK DEF HasList, IsCall
<1>2. where' = where /\ \A m \in DOMAIN lists : m < where => m \in DOMAIN lists' /\ lists'[m] = lists[m]
  BY <1>1, CleanHere DEF FrameInv
<1>3. ~InOperand(ctl)
  BY <1>1, TopValue
<1> QED BY <1>2, <1>3, CleanValues DEF ValueInv

LEMMA ValueNextInst ==
  ASSUME NEW S, FrameInv, ValueInv(S), NextInst
  PROVE  ValueInv(S)'
<1>1. ctl # <<>> /\ Top.f = "list" /\ Top.i < Len(Top.ins) /\ clean(Top.sptr, {})
  BY DEF NextInst, In
<1>2. Top \in ListFrame /\ ~IsCall(Top)
  BY <1>1, TopOK, Tags DEF IsCall
<1>3. Top.ins \in Code /\ Top.i \in Nat \ {0}
  BY <1>2 DEF ListFrame
<1>4. Len(Top.ins) \in Nat /\ Top.i + 1 \in 1 .. Len(Top.ins)
  BY <1>1, <1>3, CodeParts
<1>5. where' = where /\ OperandsOK(ctl, where, lists')
  BY <1>1, ValueClean
<1> DEFINE fr == [Top EXCEPT !.i = @ + 1]
<1>6. fr \in Plain /\ fr.f = "list" /\ fr.ins = Top.ins
  BY <1>1, <1>2, <1>3 DEF Plain, ListFrame
<1>7. now'.k = "do" /\ now'.node = Top.ins[Top.i + 1] /\ now'.val = None
  BY DEF NextInst, Gives, Do
<1>8. Swap(fr)
  BY DEF NextInst
<1> HIDE DEF fr
<1>9. ~InOperand(Front(ctl)) /\ (InLoop(Front(ctl)) => LoopFree(Top, S))
  BY <1>1, <1>2, TopValue
<1>10. InLoop(Front(ctl)) => LoopFree(fr, S) /\ NowFree(S)'
  <2> SUFFICES ASSUME InLoop(Front(ctl))
               PROVE  LoopFree(fr, S) /\ NowFree(S)'
    OBVIOUS
  <2>1. Top.ins \in Seq(S)
    BY <1>1, <1>9 DEF LoopFree
  <2>2. Top.ins[Top.i + 1] \in S
    BY <1>4, <2>1
  <2> QED BY <1>6, <1>7, <2>1, <2>2 DEF LoopFree, NowFree
<1> QED BY <1>1, <1>2, <1>5, <1>6, <1>7, <1>8, <1>9, <1>10, ValueSwap DEF Works

LEMMA ValueEndOfList ==
  ASSUME NEW S, FrameInv, ValueInv(S), EndOfList
  PROVE  ValueInv(S)'
<1>1. ctl # <<>> /\ Top.f = "list" /\ clean(Top.sptr, Destroyed(Top, Top.i)) /\ Pop
  BY DEF EndOfList, In
<1>2. Top \in ListFrame /\ Top.i <= Len(Top.ins) /\ ~IsCall(Top)
  BY <1>1, TopOK, Tags DEF IsCall
<1>3. Destroyed(Top, Top.i) \in SUBSET OfVariables
  BY <1>2, DestroyedType
<1>4. where' = where /\ OperandsOK(ctl, where, lists')
  BY <1>1, <1>3, ValueClean
<1>5. now'.k = "ok" /\ now'.val = None
  BY DEF EndOfList, Gives, Ok
<1>6. InList(lists', now'.val) /\ NowFree(S)'
  BY <1>5 DEF InList, NowFree
<1> QED BY <1>1, <1>2, <1>4, <1>5, <1>6, ValuePop

LEMMA ValueLeaveList ==
  ASSUME NEW S, FrameInv, ValueInv(S), LeaveList
  PROVE  ValueInv(S)'
<1>1. ctl # <<>> /\ Top.f = "list" /\ Pop /\ now' = now /\ now.k = "throw"
  BY DEF LeaveList, In, Given
<1>2. Top \in ListFrame /\ Top.i <= Len(Top.ins) /\ ~IsCall(Top)
  BY <1>1, TopOK, Tags DEF IsCall
<1>3. CASE KeepsTemporaries
  BY <1>1, <1>2, <1>3, ValueSteadyPop DEF LeaveList
<1>4. CASE ~KeepsTemporaries
  <2>1. Destroyed(Top, Top.i) \in SUBSET OfVariables /\ clean(Top.sptr, Destroyed(Top, Top.i))
    BY <1>2, <1>4, DestroyedType DEF LeaveList
  <2>2. where' = where /\ OperandsOK(ctl, where, lists')
    BY <1>1, <2>1, ValueClean
  <2>3. now.val = None
    BY <1>1, <1>4 DEF KeepsTemporaries, FrameInv, NowOK
  <2>4. InList(lists', now'.val) /\ NowFree(S)'
    BY <1>1, <2>3 DEF InList, NowFree
  <2> QED BY <1>1, <1>2, <2>2, <2>4, ValuePop
<1> QED BY <1>3, <1>4

LEMMA ValueTurn ==
  ASSUME NEW S, FrameInv, ValueInv(S), Turn
  PROVE  ValueInv(S)'
<1>1. ctl # <<>> /\ Top.f = "for" /\ (now.k = "ok" \/ now.k = "throw")
  BY DEF Turn, In, Given
<1>2. Top \in ForFrame /\ ~IsCall(Top)
  BY <1>1, TopOK, Tags DEF IsCall
<1>3. where' = where /\ OperandsOK(ctl, where, lists')
  <2>1. IF Top.sptrclean THEN clean(Top.sptr, {}) ELSE UNCHANGED <<where, lists, heap>>
    BY DEF Turn
  <2>2. {} \in SUBSET OfVariables
    OBVIOUS
  <2> QED BY <1>1, <2>1, <2>2, ValueClean DEF ValueInv
<1>4. InLoop(ctl) /\ Top.body \in S /\ ~InOperand(ctl) /\ ~InOperand(Front(ctl))
  BY <1>1, <1>2, TopValue
<1>5. now.k = "throw" => now.val = None
  BY <1>4 DEF ValueInv, NowFree
<1> DEFINE fr == [Top EXCEPT !.left = @ - 1, !.sptrclean = @ /\ lists[Top.sptr] # NewItems]
<1>6. \/ Swap(fr) /\ Gives(Do(Top.body)) /\ Top.left > 1
      \/ Pop /\ Gives(Ok(None))
      \/ Pop /\ UNCHANGED now /\ now.k = "throw"
  BY DEF Turn, Given
<1>7. CASE Swap(fr) /\ Gives(Do(Top.body)) /\ Top.left > 1
  <2>1. Top \in [f : {"for"}, body : Nodes, left : Nat, sptr : Nat, sptrclean : BOOLEAN]
    BY <1>2 DEF ForFrame
  <2>2. Top.left - 1 \in Nat
    BY <1>7, <2>1
  <2>3. fr \in ForFrame /\ fr.f = "for" /\ fr.body = Top.body
    BY <2>1, <2>2 DEF ForFrame
  <2>4. fr \in Plain
    BY <2>3 DEF Plain
  <2>5. now'.k = "do" /\ now'.node = Top.body /\ now'.val = None
    BY <1>7 DEF Gives, Do
  <2>6. Swap(fr)
    BY <1>7
  <2> HIDE DEF fr
  <2>7. LoopFree(fr, S) /\ NowFree(S)'
    BY <1>4, <2>3, <2>5 DEF LoopFree, NowFree
  <2> QED BY <1>1, <1>2, <1>3, <1>4, <2>3, <2>4, <2>5, <2>6, <2>7, ValueSwap DEF Works
<1>8. CASE Pop /\ Gives(Ok(None))
  <2>1. now'.k = "ok" /\ now'.val = None
    BY <1>8 DEF Gives, Ok
  <2>2. InList(lists', now'.val) /\ NowFree(S)'
    BY <2>1 DEF InList, NowFree
  <2> QED BY <1>1, <1>2, <1>3, <1>8, <2>1, <2>2, ValuePop
<1>9. CASE Pop /\ UNCHANGED now /\ now.k = "throw"
  <2>1. now'.k = "throw" /\ now'.val = None
    BY <1>5, <1>9
  <2>2. InList(lists', now'.val) /\ NowFree(S)'
    BY <2>1 DEF InList, NowFree
  <2> QED BY <1>1, <1>2, <1>3, <1>9, <2>1, <2>2, ValuePop
<1> QED BY <1>6, <1>7, <1>8, <1>9

LEMMA ValueCaught ==
  ASSUME NEW S, FrameInv, ValueInv(S), Caught
  PROVE  ValueInv(S)'
<1>1. ctl # <<>> /\ Top.f = "try" /\ Pop /\ UNCHANGED <<where, lists>>
  BY DEF Caught, In
<1>2. Top \in TryFrame /\ ~IsCall(Top)
  BY <1>1, TopOK, Tags DEF IsCall
<1>3. Top.node \in Nodes /\ Top.node.op = "try"
  BY <1>2 DEF TryFrame
<1>4. Top.node.ins \in Code /\ Top.node.handler \in Code
  BY <1>3, Parts
<1> DEFINE b == {Top.node.ins[j].v : j \in {j \in 1 .. Len(Top.node.ins) : Top.node.ins[j].op = "decl"}}
           n == [Block(Top.node.handler) EXCEPT !.base = b]
<1>5. n.op = "block" /\ n.ins = Top.node.handler
  BY DEF Block
<1>6. now'.k = "do" /\ now'.node = n /\ now'.val = None
  BY DEF Caught, Gives, Do
<1> HIDE DEF n
<1>7. ~InOperand(Front(ctl)) /\ (InLoop(Front(ctl)) => LoopFree(Top, S))
  BY <1>1, <1>2, TopValue
<1>8. InLoop(Front(ctl)) => NowFree(S)'
  BY <1>1, <1>5, <1>6, <1>7 DEF LoopFree, NowFree
<1>9. InList(lists', now'.val) /\ OperandsOK(ctl, where, lists')
  BY <1>1, <1>6 DEF InList, ValueInv
<1> QED BY <1>1, <1>2, <1>7, <1>8, <1>9, ValuePop

LEMMA ValueEnd ==
  ASSUME NEW S, End
  PROVE  ValueInv(S)'
<1>1. now'.k # "do" /\ now'.k # "throw" /\ now'.val = None /\ ctl' = <<>>
  BY DEF End, Gives, Exits
<1>2. 1 .. Len(ctl') = {}
  BY <1>1
<1> QED BY <1>1, <1>2 DEF ValueInv, InList, OperandsOK, Nested, LoopsFree, InOperand, InLoop

LEMMA ValueDone ==
  ASSUME NEW S, ValueInv(S), UNCHANGED vars
  PROVE  ValueInv(S)'
  BY DEF ValueInv, NowFree, vars

LEMMA ValueInvInit ==
  ASSUME NEW S, Init
  PROVE  ValueInv(S)
<1>1. now.val = None /\ ctl = <<>>
  BY DEF Init, Do
<1>2. 1 .. Len(ctl) = {}
  BY <1>1
<1> QED BY <1>1, <1>2 DEF ValueInv, InList, OperandsOK, Nested, LoopsFree, InOperand, InLoop

LEMMA ValueInvNext ==
  ASSUME NEW S, NoReturnIn(S), FrameInv, EnoughMemory, ValueInv(S), [Next]_vars
  PROVE  ValueInv(S)'
  BY ValueTemp, ValueFail, ValueLeft, ValueRight, ValuePlus, ValueCall, ValueReturn, ValueRoutineFails,
     ValueJump, ValueReturnExpr, ValueReturnValue, ValueDeclare, ValueInitialise, ValueUnwind,
     ValueStart, ValueNextInst, ValueEndOfList, ValueLeaveList, ValueFor, ValueTurn, ValueLoopFails,
     ValueTry, ValueCaught, ValueTryEnds, ValueEnd, ValueDone
  DEF Next, Done

LEMMA ValueInvAlive ==
  ASSUME NEW S, FrameInv, ValueInv(S)
  PROVE  ValueAlive
<1>1. \A o : InList(lists, o) => Alive(o)
  BY DEF InList, Alive, FrameInv, MemoryOK
<1>2. ASSUME NEW i \in 1 .. Len(ctl), ctl[i].f = "right"
      PROVE  InList(lists, ctl[i].left)
  BY <1>2 DEF ValueInv, OperandsOK, Safe, InList
<1> QED BY <1>1, <1>2 DEF ValueInv, ValueAlive

(* When no instruction that runs in a loop returns an object, a value is   *)
(* read before it is deleted (ValueAlive), whatever is called and fails on *)
(* the way: a value is a temporary of a function that has not ended, a     *)
(* list is cleaned (StackOfPtr2Free::clean) when no operator of its        *)
(* function waits for an operand, and a return does not clean the lists it *)
(* leaves (AFunction.cpp).  A loop does, and LoopReturn shows what follows. *)
THEOREM ValuesAreAlive ==
  ASSUME NEW S, NoReturnIn(S)
  PROVE  Spec /\ []EnoughMemory => []ValueAlive
<1>1. Init => FrameInv /\ ValueInv(S)
  BY FrameInvInit, ValueInvInit
<1>2. FrameInv /\ ValueInv(S) /\ EnoughMemory /\ [Next]_vars => (FrameInv /\ ValueInv(S))'
  BY FrameInvNext, ValueInvNext
<1>3. FrameInv /\ ValueInv(S) => ValueAlive
  BY ValueInvAlive
<1> QED BY <1>1, <1>2, <1>3, PTL DEF Spec

-----------------------------------------------------------------------------
(* The objects of variables. *)

(* The code ins declares no variable again after it has, be it in what it  *)
(* calls: V[n] is a set that has the variables n declares.                 *)
Apart(ins, V) ==
  \A i, j \in 1 .. Len(ins) : i < j /\ ins[i].op = "decl" => ins[i].v \notin V[ins[j]]
VarsOf(ins, V) == UNION {V[ins[j]] : j \in 1 .. Len(ins)}
NoDecl(ins)    == \A j \in 1 .. Len(ins) : ins[j].op # "decl"

(* A variable is declared by one instruction of one block at a time, which *)
(* is in a block and not in the body of a try, and nothing declares it     *)
(* again before the block has ended.                                       *)
Scoped(V) ==
  /\ V \in [Nodes -> SUBSET Variables]
  /\ \A p \in Programs : Apart(p, V)
  /\ \A n \in Nodes :
       /\ n.op = "plus" => V[n.left] \cup V[n.right] \subseteq V[n]
       /\ n.op = "return" => V[n.expr] \subseteq V[n]
       /\ n.op = "decl" => n.v \in V[n] /\ V[n.expr] \subseteq V[n] \ {n.v}
       /\ n.op \in {"call", "block"} => Apart(n.ins, V) /\ VarsOf(n.ins, V) \subseteq V[n]
       /\ n.op = "for" => n.body.op # "decl" /\ V[n.body] \subseteq V[n]
       /\ n.op = "try" => /\ NoDecl(n.ins) /\ Apart(n.handler, V)
                          /\ VarsOf(n.ins, V) \cup VarsOf(n.handler, V) \subseteq V[n]

(* When an initial value fails, the variable was never given one: the      *)
(* block, which counts the variable as declared, has nothing to delete.    *)
FailsFirst == Given("throw") /\ In("decl") => slots[Top.v] = None

(* What a frame of the stack s, and what is given to the innermost, may    *)
(* still declare.                                                          *)
At(fr) == fr.ins[fr.i]
Scope(fr, V) ==
  IF fr.f = "list" THEN VarsOf(fr.ins, V)
  ELSE IF fr.f = "for" THEN V[fr.body]
  ELSE IF fr.f \in {"try", "left"} THEN V[fr.node]
  ELSE IF fr.f = "decl" THEN {fr.v} ELSE {}
Needs(n, V) == IF n.op \in {"block", "list"} THEN VarsOf(n.ins, V) ELSE V[n]

(* Of the variables W under the first m frames.                            *)
Inside(s, m, W, V) ==
  \A k \in 1 .. m : /\ s[k].f = "list" => W \subseteq V[At(s[k])]
                    /\ s[k].f = "decl" => s[k].v \notin W

CodeOK(fr, V) == /\ fr.f = "list" => /\ Apart(fr.ins, V) /\ fr.base = {}
                                     /\ ~fr.close => NoDecl(fr.ins)
                 /\ fr.f = "for" => fr.body.op # "decl"
NodeOK(n, V)  == n.op \in {"block", "list"} => /\ Apart(n.ins, V) /\ n.base = {}
                                               /\ n.op = "list" => NoDecl(n.ins)

(* A declaration is what the list under it is at, and the other way.       *)
Declares(n, x) == n.op = "decl" /\ n.v = x
Closes(fr)     == fr.f = "list" /\ fr.close
Follows(s, k) ==
  /\ s[k].f = "list" => (At(s[k]).op = "decl" <=> s[k + 1].f = "decl")
  /\ s[k + 1].f = "decl" => Closes(s[k]) /\ Declares(At(s[k]), s[k + 1].v)
Starts(s, n) ==
  /\ s # <<>> /\ Last(s).f = "list" => (At(Last(s)).op = "decl" <=> n.op = "decl")
  /\ n.op = "decl" => s # <<>> /\ Closes(Last(s)) /\ At(Last(s)) = n

Scopes(s, V) ==
  /\ \A m \in 1 .. Len(s) : Inside(s, m - 1, Scope(s[m], V), V) /\ CodeOK(s[m], V)
  /\ \A k \in 1 .. Len(s) - 1 : Follows(s, k)
  /\ Len(s) > 0 => s[1].f # "decl"
ShapeOK(s, g, V) ==
  /\ Scopes(s, V)
  /\ g.k = "do" => Inside(s, Len(s), Needs(g.node, V), V) /\ NodeOK(g.node, V) /\ Starts(s, g.node)

(* The variables the blocks of the stack have declared so far. *)
Past(s, g, k) == IF k = Len(s) /\ g.k = "ok" THEN s[k].i ELSE s[k].i - 1
Holds(s, g, k, x) == Closes(s[k]) /\ \E j \in 1 .. Past(s, g, k) : Declares(s[k].ins[j], x)
Held(s, g, x) == \E k \in 1 .. Len(s) : Holds(s, g, k, x)

(* An object that is not deleted is a temporary or that of a variable, and *)
(* a variable has one while its block holds it.                            *)
OwnedOK(s, g, L, h, v) ==
  /\ \A o \in Objects : h[o] \in {None, 0, 1}
  /\ \A o \in Objects : h[o] = 0 => \/ \E m \in DOMAIN L : o \in L[m].objects
                                    \/ \E x \in Variables : v[x] = o
  /\ \A x \in Variables : (v[x] # None /\ h[v[x]] = 0) <=> Held(s, g, x)
  /\ \A x, y \in Variables : v[x] = v[y] /\ v[x] # None => x = y

FailedOK(s, g, v) ==
  s # <<>> /\ Closes(Last(s)) /\ g.k = "throw" /\ At(Last(s)).op = "decl" => v[At(Last(s)).v] = None

EndOK ==
  /\ now.k \in {"end", "failed"} => ctl = <<>>
  /\ now.k = "end" => \A m \in DOMAIN lists : lists[m].objects = {}

OwnerInv(V) ==
  /\ ShapeOK(ctl, now, V) /\ OwnedOK(ctl, now, lists, heap, slots)
  /\ FailedOK(ctl, now, slots) /\ EndOK

-----------------------------------------------------------------------------
(* The stack and the variables. *)

(* What is under a new frame stays, and so does what it may declare. *)
LEMMA PushScope ==
  ASSUME NEW V, NEW s \in Seq(Frame), NEW fr \in Frame, NEW W, Scopes(s, V), Inside(s, Len(s), W, V),
         Scope(fr, V) \subseteq W, CodeOK(fr, V),
         s # <<>> /\ Last(s).f = "list" => (At(Last(s)).op = "decl" <=> fr.f = "decl"),
         fr.f = "decl" => s # <<>> /\ Closes(Last(s)) /\ Declares(At(Last(s)), fr.v)
  PROVE  /\ Scopes(Append(s, fr), V)
         /\ \A U : /\ U \subseteq W
                   /\ fr.f = "list" => U \subseteq V[At(fr)]
                   /\ fr.f = "decl" => fr.v \notin U
                   => Inside(Append(s, fr), Len(Append(s, fr)), U, V)
<1> DEFINE t == Append(s, fr)
<1>1. /\ Len(s) \in Nat /\ Len(t) = Len(s) + 1 /\ t[Len(s) + 1] = fr
      /\ \A k \in 1 .. Len(s) : t[k] = s[k]
  BY Pushed
<1>2. ASSUME s # <<>>
      PROVE  Last(s) = s[Len(s)] /\ Len(s) > 0
  <2>1. Len(s) \in Nat \ {0} /\ Last(s) = s[Len(s)]
    BY <1>2, Popped
  <2> QED BY <2>1
<1> HIDE DEF t
<1>3. \A m \in 0 .. Len(s) : \A U : Inside(t, m, U, V) <=> Inside(s, m, U, V)
  BY <1>1 DEF Inside
<1>4. Inside(t, Len(s), Scope(fr, V), V)
  BY <1>1, <1>3 DEF Inside
<1>5. \A m \in 1 .. Len(t) : Inside(t, m - 1, Scope(t[m], V), V) /\ CodeOK(t[m], V)
  <2> SUFFICES ASSUME NEW m \in 1 .. Len(t)
               PROVE  Inside(t, m - 1, Scope(t[m], V), V) /\ CodeOK(t[m], V)
    OBVIOUS
  <2>1. CASE m = Len(s) + 1
    BY <1>1, <1>4, <2>1
  <2>2. CASE m # Len(s) + 1
    <3>1. m \in 1 .. Len(s) /\ m - 1 \in 0 .. Len(s) /\ t[m] = s[m]
      BY <1>1, <2>2
    <3> QED BY <1>3, <3>1 DEF Scopes
  <2> QED BY <2>1, <2>2
<1>6. \A k \in 1 .. Len(t) - 1 : Follows(t, k)
  <2> SUFFICES ASSUME NEW k \in 1 .. Len(t) - 1
               PROVE  Follows(t, k)
    OBVIOUS
  <2>1. CASE k = Len(s)
    <3>1. s # <<>> /\ t[k] = Last(s) /\ t[k + 1] = fr
      BY <1>1, <1>2, <2>1
    <3> QED BY <3>1 DEF Follows
  <2>2. CASE k # Len(s)
    <3>1. k \in 1 .. Len(s) - 1 /\ t[k] = s[k] /\ t[k + 1] = s[k + 1]
      BY <1>1, <2>2
    <3> QED BY <3>1 DEF Follows, Scopes
  <2> QED BY <2>1, <2>2
<1>7. Len(t) > 0 => t[1].f # "decl"
  <2>1. CASE Len(s) = 0
    BY <1>1, <1>2, <2>1
  <2>2. CASE Len(s) > 0
    BY <1>1, <2>2 DEF Scopes
  <2> QED BY <1>1, <2>1, <2>2
<1>8. ASSUME NEW U, U \subseteq W, fr.f = "list" => U \subseteq V[At(fr)], fr.f = "decl" => fr.v \notin U
      PROVE  Inside(t, Len(t), U, V)
  <2>1. Inside(t, Len(s), U, V)
    BY <1>3, <1>1, <1>8 DEF Inside
  <2> QED BY <1>1, <1>8, <2>1 DEF Inside
<1> QED BY <1>5, <1>6, <1>7, <1>8 DEF Scopes, t

(* What is under a frame that ends. *)
LEMMA PopScope ==
  ASSUME NEW V, NEW s \in Seq(Frame), s # <<>>, Scopes(s, V)
  PROVE  /\ Scopes(Front(s), V) /\ Front(s) \in Seq(Frame)
         /\ Inside(Front(s), Len(Front(s)), Scope(Last(s), V), V) /\ CodeOK(Last(s), V)
         /\ Front(s) # <<>> => /\ Last(Front(s)) = s[Len(s) - 1] /\ Len(s) - 1 \in 1 .. Len(s) - 1
                               /\ Follows(s, Len(s) - 1) /\ s[Len(s) - 1 + 1] = Last(s)
         /\ Last(s).f = "decl" => Front(s) # <<>>
<1> DEFINE t == Front(s)
<1>1. /\ t \in Seq(Frame) /\ Len(s) \in Nat \ {0} /\ Len(t) = Len(s) - 1
      /\ \A i \in 1 .. Len(s) - 1 : t[i] = s[i]
      /\ Last(s) = s[Len(s)]
  BY Popped
<1>2. t # <<>> => Last(t) = t[Len(t)] /\ Len(t) \in Nat \ {0}
  BY <1>1, Popped
<1>3. t = <<>> => Len(t) = 0
  OBVIOUS
<1> HIDE DEF t
<1>4. \A m \in 0 .. Len(t) : \A U : Inside(t, m, U, V) <=> Inside(s, m, U, V)
  BY <1>1 DEF Inside
<1>5. \A m \in 1 .. Len(t) : Inside(t, m - 1, Scope(t[m], V), V) /\ CodeOK(t[m], V)
  <2> SUFFICES ASSUME NEW m \in 1 .. Len(t)
               PROVE  Inside(t, m - 1, Scope(t[m], V), V) /\ CodeOK(t[m], V)
    OBVIOUS
  <2>1. m \in 1 .. Len(s) /\ m - 1 \in 0 .. Len(t) /\ t[m] = s[m]
    BY <1>1
  <2> QED BY <1>4, <2>1 DEF Scopes
<1>6. \A k \in 1 .. Len(t) - 1 : Follows(t, k)
  <2> SUFFICES ASSUME NEW k \in 1 .. Len(t) - 1
               PROVE  Follows(t, k)
    OBVIOUS
  <2>1. k \in 1 .. Len(s) - 1 /\ t[k] = s[k] /\ t[k + 1] = s[k + 1]
    BY <1>1
  <2> QED BY <2>1 DEF Follows, Scopes
<1>7. Len(t) > 0 => t[1].f # "decl"
  BY <1>1 DEF Scopes
<1>8. Inside(t, Len(t), Scope(Last(s), V), V) /\ CodeOK(Last(s), V)
  <2>1. Inside(s, Len(s) - 1, Scope(s[Len(s)], V), V) /\ CodeOK(s[Len(s)], V)
    BY <1>1 DEF Scopes
  <2> QED BY <1>1, <1>4, <2>1
<1>9. t # <<>> => /\ Last(t) = s[Len(s) - 1] /\ Len(s) - 1 \in 1 .. Len(s) - 1
                  /\ Follows(s, Len(s) - 1) /\ s[Len(s) - 1 + 1] = Last(s)
  BY <1>1, <1>2 DEF Scopes
<1>10. Last(s).f = "decl" => t # <<>>
  BY <1>1, <1>3 DEF Scopes
<1> QED BY <1>1, <1>5, <1>6, <1>7, <1>8, <1>9, <1>10 DEF Scopes, t


(* What starts in a new frame is of what was to be evaluated. *)
LEMMA ShapePush ==
  ASSUME NEW V, NEW s \in Seq(Frame), NEW g, NEW n, NEW fr \in Frame, ShapeOK(s, g, V), g.k = "do",
         Scope(fr, V) \subseteq Needs(g.node, V), Needs(n, V) \subseteq Needs(g.node, V),
         CodeOK(fr, V), NodeOK(n, V), fr.f = "decl" <=> g.node.op = "decl",
         fr.f = "decl" => g.node.v = fr.v /\ fr.v \notin Needs(n, V),
         fr.f = "list" => Needs(n, V) \subseteq V[At(fr)] /\ At(fr) = n,
         n.op = "decl" => Closes(fr)
  PROVE  \A h : h.k = "do" /\ h.node = n => ShapeOK(Append(s, fr), h, V)
<1> DEFINE t == Append(s, fr)
<1>1. Scopes(s, V) /\ Inside(s, Len(s), Needs(g.node, V), V) /\ Starts(s, g.node)
  BY DEF ShapeOK
<1>2. t # <<>> /\ Last(t) = fr
  <2>1. t \in Seq(Frame) /\ Len(t) = Len(s) + 1 /\ t[Len(s) + 1] = fr /\ Len(s) \in Nat
    BY Pushed
  <2>2. t # <<>>
    BY <2>1
  <2> QED BY <2>1, <2>2, Popped
<1>3. s # <<>> /\ Last(s).f = "list" => (At(Last(s)).op = "decl" <=> fr.f = "decl")
  BY <1>1 DEF Starts
<1>4. fr.f = "decl" => s # <<>> /\ Closes(Last(s)) /\ Declares(At(Last(s)), fr.v)
  BY <1>1 DEF Starts, Declares
<1>5. Scopes(t, V) /\ Inside(t, Len(t), Needs(n, V), V)
  BY <1>1, <1>3, <1>4, PushScope
<1> HIDE DEF t
<1>6. Starts(t, n)
  BY <1>2 DEF Starts, Closes
<1> QED BY <1>5, <1>6 DEF ShapeOK, t

LEMMA ShapePop ==
  ASSUME NEW V, NEW s \in Seq(Frame), s # <<>>, NEW g, NEW h, ShapeOK(s, g, V), h.k # "do"
  PROVE  ShapeOK(Front(s), h, V)
  BY PopScope DEF ShapeOK

(* The innermost frame goes on. *)
LEMMA ShapeSwap ==
  ASSUME NEW V, NEW s \in Seq(Frame), s # <<>>, NEW g, NEW n, NEW fr \in Frame, ShapeOK(s, g, V),
         Last(s).f # "decl", fr.f # "decl", Scope(fr, V) \subseteq Scope(Last(s), V),
         Needs(n, V) \subseteq Scope(Last(s), V), CodeOK(fr, V), NodeOK(n, V),
         fr.f = "list" => Needs(n, V) \subseteq V[At(fr)] /\ At(fr) = n,
         n.op = "decl" => Closes(fr)
  PROVE  \A h : h.k = "do" /\ h.node = n => ShapeOK(Append(Front(s), fr), h, V)
<1> DEFINE t == Front(s)
           u == Append(t, fr)
<1>1. /\ Scopes(t, V) /\ t \in Seq(Frame) /\ Inside(t, Len(t), Scope(Last(s), V), V)
      /\ t # <<>> => /\ Last(t) = s[Len(s) - 1] /\ Follows(s, Len(s) - 1)
                     /\ s[Len(s) - 1 + 1] = Last(s)
  BY PopScope DEF ShapeOK
<1> HIDE DEF t
<1>2. u # <<>> /\ Last(u) = fr
  <2>1. u \in Seq(Frame) /\ Len(u) = Len(t) + 1 /\ u[Len(t) + 1] = fr /\ Len(t) \in Nat
    BY <1>1, Pushed
  <2>2. u # <<>>
    BY <2>1
  <2> QED BY <2>1, <2>2, Popped
<1>3. t # <<>> /\ Last(t).f = "list" => (At(Last(t)).op = "decl" <=> fr.f = "decl")
  BY <1>1 DEF Follows
<1>5. Scopes(u, V) /\ Inside(u, Len(u), Needs(n, V), V)
  BY <1>1, <1>3, PushScope
<1> HIDE DEF u
<1>6. Starts(u, n)
  BY <1>2 DEF Starts, Closes
<1> QED BY <1>5, <1>6 DEF ShapeOK, t, u

(* The handler of a try. *)
LEMMA ShapeCaught ==
  ASSUME NEW V, NEW s \in Seq(Frame), s # <<>>, NEW g, NEW n, ShapeOK(s, g, V),
         Last(s).f # "decl", Needs(n, V) \subseteq Scope(Last(s), V), NodeOK(n, V), n.op # "decl"
  PROVE  \A h : h.k = "do" /\ h.node = n => ShapeOK(Front(s), h, V)
<1> DEFINE t == Front(s)
<1>1. /\ Scopes(t, V) /\ t \in Seq(Frame) /\ Inside(t, Len(t), Scope(Last(s), V), V)
      /\ t # <<>> => /\ Last(t) = s[Len(s) - 1] /\ Follows(s, Len(s) - 1)
                     /\ s[Len(s) - 1 + 1] = Last(s)
  BY PopScope DEF ShapeOK
<1> HIDE DEF t
<1>2. Starts(t, n)
  BY <1>1 DEF Starts, Follows
<1>3. Inside(t, Len(t), Needs(n, V), V)
  BY <1>1 DEF Inside
<1> QED BY <1>1, <1>2, <1>3 DEF ShapeOK, t

LEMMA ShapeStay ==
  ASSUME NEW V, NEW s, NEW g, NEW h, ShapeOK(s, g, V), h.k # "do"
  PROVE  ShapeOK(s, h, V)
  BY DEF ShapeOK

-----------------------------------------------------------------------------
(* What the blocks hold. *)

(* A list is at one of its instructions. *)
Placed(s) ==
  /\ s \in Seq(Frame)
  /\ \A i \in 1 .. Len(s) : s[i].f = "list" => s[i].i \in Nat \ {0} /\ s[i].i <= Len(s[i].ins)

LEMMA FramePlaced ==
  ASSUME FrameInv
  PROVE  Placed(ctl)
<1>1. ctl \in Seq(Frame) /\ \A i \in 1 .. Len(ctl) : ctl[i].f = "list" => ctl[i].i <= Len(ctl[i].ins)
  BY DEF FrameInv, StackOK
<1>2. \A i \in 1 .. Len(ctl) : ctl[i].f = "list" => ctl[i].i \in Nat \ {0}
  BY <1>1, Tags DEF ListFrame
<1> QED BY <1>1, <1>2 DEF Placed

LEMMA HeldPush ==
  ASSUME NEW s, Placed(s), NEW fr \in Frame, NEW g, NEW h, g.k = "do", h.k = "do",
         fr.f = "list" => fr.i = 1
  PROVE  \A x : Held(Append(s, fr), h, x) <=> Held(s, g, x)
<1> DEFINE t == Append(s, fr)
<1>1. /\ Len(s) \in Nat /\ Len(t) = Len(s) + 1 /\ t[Len(s) + 1] = fr
      /\ \A k \in 1 .. Len(s) : t[k] = s[k]
  BY Pushed DEF Placed
<1> HIDE DEF t
<1>2. ASSUME NEW x, NEW k \in 1 .. Len(s)
      PROVE  Holds(t, h, k, x) <=> Holds(s, g, k, x)
  BY <1>1 DEF Holds, Past
<1>3. ASSUME NEW x
      PROVE  ~Holds(t, h, Len(s) + 1, x)
  BY <1>1 DEF Holds, Past, Closes
<1>4. \A k : k \in 1 .. Len(t) <=> k \in 1 .. Len(s) \/ k = Len(s) + 1
  BY <1>1
<1> QED BY <1>2, <1>3, <1>4 DEF Held, t

(* What is held under the frame that ends. *)
LEMMA HeldUnder ==
  ASSUME NEW V, NEW s, Placed(s), s # <<>>, Scopes(s, V), NEW g, NEW h,
         Last(s).f # "decl" \/ h.k # "ok"
  PROVE  \A x : Held(Front(s), h, x) <=> \E k \in 1 .. Len(s) - 1 : Holds(s, g, k, x)
<1> DEFINE t == Front(s)
<1>1. /\ t \in Seq(Frame) /\ Len(s) \in Nat \ {0} /\ Len(t) = Len(s) - 1
      /\ \A i \in 1 .. Len(s) - 1 : t[i] = s[i]
      /\ Last(s) = s[Len(s)]
  BY Popped DEF Placed
<1> HIDE DEF t
<1>2. ASSUME NEW x, NEW k \in 1 .. Len(s) - 1
      PROVE  Holds(t, h, k, x) <=> Holds(s, g, k, x)
  <2>1. t[k] = s[k] /\ Past(s, g, k) = s[k].i - 1 /\ k \in 1 .. Len(s)
    BY <1>1 DEF Past
  <2>2. CASE ~(k = Len(t) /\ h.k = "ok")
    BY <2>1, <2>2 DEF Holds, Past
  <2>3. CASE k = Len(t) /\ h.k = "ok" /\ Closes(s[k])
    <3>1. s[k].i \in Nat \ {0}
      BY <2>1, <2>3 DEF Placed, Closes
    <3>2. Past(t, h, k) = s[k].i
      BY <2>1, <2>3 DEF Past
    <3>3. ~Declares(s[k].ins[s[k].i], x)
      <4>1. Follows(s, k) /\ s[k + 1] = Last(s)
        BY <1>1, <2>3 DEF Scopes
      <4> QED BY <2>3, <4>1 DEF Follows, Declares, At, Closes
    <3>4. \A j : j \in 1 .. s[k].i <=> j \in 1 .. s[k].i - 1 \/ j = s[k].i
      BY <3>1
    <3> QED BY <2>1, <3>2, <3>3, <3>4 DEF Holds
  <2> QED BY <2>1, <2>2, <2>3 DEF Holds
<1> QED BY <1>1, <1>2 DEF Held, t

LEMMA HeldPop ==
  ASSUME NEW V, NEW s, Placed(s), s # <<>>, Scopes(s, V), NEW g, NEW h,
         Last(s).f # "decl" \/ h.k # "ok", ~Closes(Last(s))
  PROVE  \A x : Held(Front(s), h, x) <=> Held(s, g, x)
<1>1. Len(s) \in Nat \ {0} /\ Last(s) = s[Len(s)]
  BY Popped DEF Placed
<1>2. \A k : k \in 1 .. Len(s) <=> k \in 1 .. Len(s) - 1 \/ k = Len(s)
  BY <1>1
<1>3. \A x : ~Holds(s, g, Len(s), x)
  BY <1>1 DEF Holds
<1> QED BY <1>2, <1>3, HeldUnder DEF Held

LEMMA HeldStay ==
  ASSUME NEW s, Placed(s), NEW g, NEW h, g.k = "do", Starts(s, g.node), g.node.op # "decl"
  PROVE  \A x : Held(s, h, x) <=> Held(s, g, x)
<1>1. ASSUME NEW x, NEW k \in 1 .. Len(s)
      PROVE  Holds(s, h, k, x) <=> Holds(s, g, k, x)
  <2>1. Past(s, g, k) = s[k].i - 1
    BY DEF Past
  <2>2. CASE ~(k = Len(s) /\ h.k = "ok")
    BY <2>1, <2>2 DEF Holds, Past
  <2>3. CASE k = Len(s) /\ h.k = "ok" /\ Closes(s[k])
    <3>1. s[k].i \in Nat \ {0} /\ s \in Seq(Frame) /\ s # <<>>
      BY <2>3 DEF Placed, Closes
    <3>2. Past(s, h, k) = s[k].i /\ s[k] = Last(s)
      BY <2>3, <3>1, Popped DEF Past
    <3>3. ~Declares(s[k].ins[s[k].i], x)
      BY <2>3, <3>1, <3>2 DEF Starts, Declares, At, Closes
    <3>4. \A j : j \in 1 .. s[k].i <=> j \in 1 .. s[k].i - 1 \/ j = s[k].i
      BY <3>1
    <3> QED BY <2>1, <3>2, <3>3, <3>4 DEF Holds
  <2> QED BY <2>1, <2>2, <2>3 DEF Holds
<1> QED BY <1>1 DEF Held

(* A list or a loop goes on. *)
LEMMA HeldSwap ==
  ASSUME NEW s, Placed(s), s # <<>>, NEW fr \in Frame, NEW g, NEW h, h.k = "do",
         Closes(fr) <=> Closes(Last(s)),
         Closes(fr) => g.k = "ok" /\ fr.ins = Last(s).ins /\ fr.i = Last(s).i + 1
  PROVE  \A x : Held(Append(Front(s), fr), h, x) <=> Held(s, g, x)
<1> DEFINE t == Append(Front(s), fr)
<1>1. /\ Front(s) \in Seq(Frame) /\ Len(s) \in Nat \ {0} /\ Len(Front(s)) = Len(s) - 1
      /\ \A i \in 1 .. Len(s) - 1 : Front(s)[i] = s[i]
      /\ Last(s) = s[Len(s)]
  BY Popped DEF Placed
<1>2. Len(t) = Len(s) /\ t[Len(s)] = fr /\ \A k \in 1 .. Len(s) - 1 : t[k] = s[k]
  BY <1>1, Pushed
<1> HIDE DEF t
<1>3. ASSUME NEW x, NEW k \in 1 .. Len(s)
      PROVE  Holds(t, h, k, x) <=> Holds(s, g, k, x)
  <2>1. CASE k # Len(s)
    BY <1>1, <1>2, <2>1 DEF Holds, Past
  <2>2. CASE k = Len(s) /\ ~Closes(fr)
    BY <1>1, <1>2, <2>2 DEF Holds
  <2>3. CASE k = Len(s) /\ Closes(fr)
    <3>1. Last(s).i \in Nat
      BY <1>1, <2>3 DEF Placed, Closes
    <3>2. Past(t, h, k) = Last(s).i /\ Past(s, g, k) = Last(s).i
      BY <1>1, <1>2, <2>3, <3>1 DEF Past
    <3> QED BY <1>1, <1>2, <2>3, <3>2 DEF Holds
  <2> QED BY <2>1, <2>2, <2>3
<1> QED BY <1>2, <1>3 DEF Held, t


(* A variable held under the innermost frame is none of those it may       *)
(* declare.                                                                *)
LEMMA NotAgain ==
  ASSUME NEW V, NEW s, Placed(s), s # <<>>, Scopes(s, V), NEW g, NEW x, NEW k \in 1 .. Len(s) - 1,
         Holds(s, g, k, x)
  PROVE  x \notin Scope(Last(s), V)
<1>1. s \in Seq(Frame) /\ Len(s) \in Nat \ {0} /\ Last(s) = s[Len(s)]
  BY Popped DEF Placed
<1>2. Inside(s, Len(s) - 1, Scope(Last(s), V), V) /\ CodeOK(s[k], V) /\ k \in 1 .. Len(s)
  BY <1>1 DEF Scopes
<1>3. /\ s[k].f = "list" /\ Apart(s[k].ins, V) /\ s[k].i \in Nat \ {0} /\ s[k].i <= Len(s[k].ins)
      /\ Scope(Last(s), V) \subseteq V[At(s[k])]
  BY <1>2 DEF Holds, Closes, Inside, CodeOK, Placed
<1>4. PICK j \in 1 .. s[k].i - 1 : Declares(s[k].ins[j], x)
  BY <1>1, <1>2 DEF Holds, Past
<1>5. s[k] \in ListFrame
  BY <1>1, <1>2, <1>3, Tags
<1>6. Len(s[k].ins) \in Nat
  BY <1>5 DEF ListFrame, Code
<1>7. j \in 1 .. Len(s[k].ins) /\ s[k].i \in 1 .. Len(s[k].ins) /\ j < s[k].i
  BY <1>3, <1>4, <1>6
<1>8. x \notin V[At(s[k])]
  BY <1>3, <1>4, <1>7 DEF Apart, Declares, At
<1> QED BY <1>3, <1>8

(* The declaration of a variable, which its block does not hold, is done.  *)
LEMMA HeldInit ==
  ASSUME NEW V, NEW s, Placed(s), s # <<>>, Scopes(s, V), Last(s).f = "decl", NEW g, NEW h, h.k = "ok"
  PROVE  /\ ~Held(s, g, Last(s).v)
         /\ \A x : Held(Front(s), h, x) <=> Held(s, g, x) \/ x = Last(s).v
<1> DEFINE t == Front(s)
           e == Len(s) - 1
<1>1. /\ s \in Seq(Frame) /\ Len(s) \in Nat \ {0} /\ Len(t) = Len(s) - 1
      /\ \A i \in 1 .. Len(s) - 1 : t[i] = s[i]
      /\ Last(s) = s[Len(s)]
  BY Popped DEF Placed
<1> HIDE DEF t
<1>2. Len(s) # 1
  BY <1>1 DEF Scopes
<1>3. e \in 1 .. Len(s) - 1 /\ s[e + 1] = Last(s) /\ t[e] = s[e] /\ e \in 1 .. Len(s)
  BY <1>1, <1>2
<1>4. Closes(s[e]) /\ Declares(At(s[e]), Last(s).v)
  <2>1. Follows(s, e)
    BY <1>3 DEF Scopes
  <2> QED BY <1>3, <2>1 DEF Follows
<1>5. e = Len(t) /\ e = Len(s) - 1 /\ e \in Nat
  BY <1>1, <1>3
<1> HIDE DEF e
<1>6. \A x : ~Holds(s, g, Len(s), x)
  BY <1>1 DEF Holds, Closes
<1>7. \A k : k \in 1 .. Len(s) <=> k \in 1 .. e \/ k = Len(s)
  BY <1>1, <1>5
<1>8. \A x : Held(s, g, x) <=> \E k \in 1 .. e : Holds(s, g, k, x)
  BY <1>6, <1>7 DEF Held
<1>9. ~Held(s, g, Last(s).v)
  <2>1. Last(s).v \in Scope(Last(s), V)
    BY DEF Scope
  <2> QED BY <1>5, <1>8, <2>1, NotAgain
<1>10. ASSUME NEW x, NEW k \in 1 .. e, k # e
       PROVE  Holds(t, h, k, x) <=> Holds(s, g, k, x)
  <2>1. t[k] = s[k] /\ k # Len(t) /\ k # Len(s)
    BY <1>1, <1>5, <1>10
  <2> QED BY <2>1 DEF Holds, Past
<1>11. ASSUME NEW x
       PROVE  Holds(t, h, e, x) <=> Holds(s, g, e, x) \/ x = Last(s).v
  <2>1. Past(t, h, e) = s[e].i /\ Past(s, g, e) = s[e].i - 1
    BY <1>1, <1>3, <1>5 DEF Past
  <2>2. s[e].i \in Nat \ {0}
    BY <1>3, <1>4 DEF Placed, Closes
  <2>3. \A j : j \in 1 .. s[e].i <=> j \in 1 .. s[e].i - 1 \/ j = s[e].i
    BY <2>2
  <2>4. Declares(s[e].ins[s[e].i], x) <=> x = Last(s).v
    BY <1>4 DEF Declares, At
  <2> QED BY <1>3, <1>4, <2>1, <2>3, <2>4 DEF Holds
<1>12. \A x : Held(t, h, x) <=> \E k \in 1 .. e : Holds(t, h, k, x)
  BY <1>5 DEF Held
<1>13. \A x : Held(t, h, x) <=> Held(s, g, x) \/ x = Last(s).v
  BY <1>3, <1>5, <1>8, <1>10, <1>11, <1>12
<1> QED BY <1>9, <1>13 DEF t

(* What a block destroys, when it ends or is left, is what it holds.       *)
LEMMA DestroyedHeld ==
  ASSUME NEW V, FrameInv, ctl # <<>>, Closes(Top), Scopes(ctl, V), FailedOK(ctl, now, slots),
         now.k \in {"ok", "throw"}
  PROVE  \A o : o \in Destroyed(Top, Top.i) <=>
               o # None /\ \E x \in Variables : Holds(ctl, now, Len(ctl), x) /\ slots[x] = o
<1>1. Top = ctl[Len(ctl)] /\ Top = Last(ctl) /\ Len(ctl) \in Nat \ {0} /\ Top \in Frame
  BY TopOK DEF Top
<1>2. Top.f = "list" /\ Top.close /\ Top \in ListFrame /\ Placed(ctl)
  BY <1>1, Tags, FramePlaced DEF Closes
<1>3. Top.i \in Nat \ {0} /\ Top.i <= Len(Top.ins) /\ Top.ins \in Code
  <2>1. Len(ctl) \in 1 .. Len(ctl)
    BY <1>1
  <2>2. Top.i \in Nat \ {0} /\ Top.i <= Len(Top.ins)
    BY <1>1, <1>2, <2>1 DEF Placed
  <2>3. Top.ins \in Code
    BY <1>2 DEF ListFrame
  <2> QED BY <2>2, <2>3
<1>4. Top.base = {}
  <2>1. Len(ctl) \in 1 .. Len(ctl)
    BY <1>1
  <2>2. CodeOK(Top, V)
    BY <1>1, <2>1 DEF Scopes
  <2> QED BY <1>2, <2>2 DEF CodeOK
<1>5. \A j \in 1 .. Top.i : Top.ins[j] \in Nodes
  BY <1>3, CodeParts
<1>6. \A x : x \in Declared(Top, Top.i) <=> \E j \in 1 .. Top.i : Declares(Top.ins[j], x)
  BY <1>4 DEF Declared, Declares
<1>7. \A x : x \in Declared(Top, Top.i) => x \in Variables
  BY <1>5, <1>6, Parts DEF Declares
<1>8. \A o : o \in Destroyed(Top, Top.i) <=>
            o # None /\ \E x \in Variables : x \in Declared(Top, Top.i) /\ slots[x] = o
  BY <1>2, <1>7 DEF Destroyed
<1>9. ASSUME NEW x \in Variables, slots[x] # None
      PROVE  x \in Declared(Top, Top.i) <=> Holds(ctl, now, Len(ctl), x)
  <2>1. CASE now.k = "ok"
    <3>1. Past(ctl, now, Len(ctl)) = Top.i
      BY <1>1, <2>1 DEF Past
    <3> QED BY <1>1, <1>6, <3>1 DEF Holds
  <2>2. CASE now.k = "throw"
    <3>1. Past(ctl, now, Len(ctl)) = Top.i - 1
      BY <1>1, <2>2 DEF Past
    <3>2. \A j : j \in 1 .. Top.i <=> j \in 1 .. Top.i - 1 \/ j = Top.i
      BY <1>3
    <3>3. ~Declares(Top.ins[Top.i], x)
      BY <1>1, <1>9, <2>2 DEF FailedOK, Declares, At
    <3> QED BY <1>1, <1>6, <3>1, <3>2, <3>3 DEF Holds
  <2> QED BY <2>1, <2>2
<1> QED BY <1>8, <1>9
-----------------------------------------------------------------------------
(* The objects. *)

LEMMA OwnedSame ==
  ASSUME NEW s, NEW g, NEW t, NEW h, UNCHANGED <<lists, heap, slots>>,
         OwnedOK(s, g, lists, heap, slots), \A x : Held(t, h, x) <=> Held(s, g, x)
  PROVE  OwnedOK(t, h, lists', heap', slots')
<1>1. lists' = lists /\ heap' = heap /\ slots' = slots
  OBVIOUS
<1>2. OwnedOK(t, h, lists, heap, slots)
  BY DEF OwnedOK
<1> QED BY <1>1, <1>2

LEMMA OwnedTemporary ==
  ASSUME NEW s, NEW g, NEW t, NEW h, EnoughMemory, MemoryOK(lists, heap, slots), Made(Fresh),
         Grows(lists, lists'), \E m \in DOMAIN lists' : Fresh \in lists'[m].objects, UNCHANGED slots,
         OwnedOK(s, g, lists, heap, slots), \A x : Held(t, h, x) <=> Held(s, g, x)
  PROVE  OwnedOK(t, h, lists', heap', slots')
<1> DEFINE o == Fresh
<1>1. o \in Objects /\ heap[o] = None
  BY FreshIsNew
<1>2. heap' \in [Objects -> {None} \cup Nat] /\ heap'[o] = 0 /\ \A p \in Objects : p # o => heap'[p] = heap[p]
  BY <1>1 DEF Made, MemoryOK
<1> HIDE DEF o
<1>3. \A x \in Variables : slots[x] # None => slots[x] \in Objects /\ slots[x] # o
  BY <1>1 DEF MemoryOK, Values
<1>4. \A p \in Objects : heap'[p] \in {None, 0, 1}
  BY <1>2 DEF OwnedOK
<1>5. ASSUME NEW p \in Objects, heap'[p] = 0
      PROVE  \/ \E m \in DOMAIN lists' : p \in lists'[m].objects
             \/ \E x \in Variables : slots[x] = p
  <2>1. CASE p = o
    BY <2>1 DEF o
  <2>2. CASE p # o
    <3>1. heap[p] = 0
      BY <1>2, <1>5, <2>2
    <3> QED BY <3>1 DEF OwnedOK, Grows
  <2> QED BY <2>1, <2>2
<1>6. \A x \in Variables : (slots[x] # None /\ heap'[slots[x]] = 0) <=> Held(t, h, x)
  <2> SUFFICES ASSUME NEW x \in Variables
               PROVE  (slots[x] # None /\ heap'[slots[x]] = 0) <=> Held(t, h, x)
    OBVIOUS
  <2>1. slots[x] # None => heap'[slots[x]] = heap[slots[x]]
    BY <1>2, <1>3
  <2>2. (slots[x] # None /\ heap[slots[x]] = 0) <=> Held(s, g, x)
    BY DEF OwnedOK
  <2> QED BY <2>1, <2>2
<1>7. slots' = slots
  OBVIOUS
<1>8. \A x, y \in Variables : slots[x] = slots[y] /\ slots[x] # None => x = y
  BY DEF OwnedOK
<1> QED BY <1>4, <1>5, <1>6, <1>7, <1>8 DEF OwnedOK

LEMMA OwnedVariable ==
  ASSUME NEW s, NEW g, NEW t, NEW h, EnoughMemory, MemoryOK(lists, heap, slots), Made(Fresh),
         NEW y \in Variables, slots' = [slots EXCEPT ![y] = Fresh], UNCHANGED lists,
         OwnedOK(s, g, lists, heap, slots), ~Held(s, g, y),
         \A x : Held(t, h, x) <=> Held(s, g, x) \/ x = y
  PROVE  OwnedOK(t, h, lists', heap', slots')
<1> DEFINE o == Fresh
<1>1. o \in Objects /\ heap[o] = None /\ o # None
  BY FreshIsNew, MemoryAssumption
<1>2. heap'[o] = 0 /\ \A p \in Objects : p # o => heap'[p] = heap[p]
  BY <1>1 DEF Made, MemoryOK
<1>3. slots'[y] = o /\ \A x \in Variables : x # y => slots'[x] = slots[x]
  BY DEF MemoryOK
<1> HIDE DEF o
<1>4. \A x \in Variables : slots[x] # None => slots[x] \in Objects /\ slots[x] # o
  BY <1>1 DEF MemoryOK, Values
<1>5. \A p \in Objects : heap'[p] \in {None, 0, 1}
  BY <1>2 DEF OwnedOK
<1>6. ASSUME NEW p \in Objects, heap'[p] = 0
      PROVE  \/ \E m \in DOMAIN lists : p \in lists[m].objects
             \/ \E x \in Variables : slots'[x] = p
  <2>1. CASE p = o
    BY <1>3, <2>1
  <2>2. CASE p # o
    <3>1. heap[p] = 0 /\ p # None
      BY <1>2, <1>6, <2>2, MemoryAssumption
    <3>2. slots[y] # p
      BY <3>1 DEF OwnedOK
    <3>3. \/ \E m \in DOMAIN lists : p \in lists[m].objects
          \/ \E x \in Variables : slots[x] = p
      BY <3>1 DEF OwnedOK
    <3> QED BY <1>3, <3>2, <3>3
  <2> QED BY <2>1, <2>2
<1>7. \A x \in Variables : (slots'[x] # None /\ heap'[slots'[x]] = 0) <=> Held(t, h, x)
  <2> SUFFICES ASSUME NEW x \in Variables
               PROVE  (slots'[x] # None /\ heap'[slots'[x]] = 0) <=> Held(t, h, x)
    OBVIOUS
  <2>1. CASE x = y
    BY <1>1, <1>2, <1>3, <2>1
  <2>2. CASE x # y
    <3>1. slots'[x] = slots[x]
      BY <1>3, <2>2
    <3>2. slots[x] # None => heap'[slots[x]] = heap[slots[x]]
      BY <1>2, <1>4
    <3>3. (slots[x] # None /\ heap[slots[x]] = 0) <=> Held(s, g, x)
      BY DEF OwnedOK
    <3>4. Held(t, h, x) <=> Held(s, g, x)
      BY <2>2
    <3> QED BY <3>1, <3>2, <3>3, <3>4
  <2> QED BY <2>1, <2>2
<1>8. \A x, z \in Variables : slots'[x] = slots'[z] /\ slots'[x] # None => x = z
  <2> SUFFICES ASSUME NEW x \in Variables, NEW z \in Variables, slots'[x] = slots'[z], slots'[x] # None
               PROVE  x = z
    OBVIOUS
  <2>1. CASE x # y /\ z # y
    BY <1>3, <2>1 DEF OwnedOK
  <2>2. CASE x = y /\ z # y
    BY <1>3, <1>4, <2>2
  <2>3. CASE x # y /\ z = y
    BY <1>3, <1>4, <2>3
  <2> QED BY <2>1, <2>2, <2>3
<1>9. lists' = lists
  OBVIOUS
<1> QED BY <1>5, <1>6, <1>7, <1>8, <1>9 DEF OwnedOK

(* Objects D that are not deleted are, all those of the lists that are     *)
(* cleaned and those of variables that are not held any more.              *)
LEMMA OwnedDelete ==
  ASSUME NEW s, NEW g, NEW t, NEW h, MemoryOK(lists, heap, slots), UNCHANGED slots,
         OwnedOK(s, g, lists, heap, slots),
         NEW D, heap' = Delete(D), \A o \in D : o \in Objects /\ heap[o] = 0,
         \A m \in DOMAIN lists : \A o \in lists[m].objects :
           o \in D \/ \E n \in DOMAIN lists' : o \in lists'[n].objects,
         \A x : x \in Variables => (Held(t, h, x) <=> Held(s, g, x) /\ slots[x] \notin D)
  PROVE  OwnedOK(t, h, lists', heap', slots')
<1>1. /\ \A o \in D : heap'[o] = 1
      /\ \A o \in Objects : o \notin D => heap'[o] = heap[o]
  BY DEF Delete
<1>2. \A x \in Variables : slots[x] # None => slots[x] \in Objects
  BY DEF MemoryOK, Values
<1>3. \A o \in Objects : heap'[o] \in {None, 0, 1}
  BY <1>1 DEF OwnedOK
<1>4. ASSUME NEW o \in Objects, heap'[o] = 0
      PROVE  \/ \E m \in DOMAIN lists' : o \in lists'[m].objects
             \/ \E x \in Variables : slots[x] = o
  <2>1. o \notin D /\ heap[o] = 0
    BY <1>1, <1>4
  <2>2. \/ \E m \in DOMAIN lists : o \in lists[m].objects
        \/ \E x \in Variables : slots[x] = o
    BY <2>1 DEF OwnedOK
  <2> QED BY <2>1, <2>2
<1>5. \A x \in Variables : (slots[x] # None /\ heap'[slots[x]] = 0) <=> Held(t, h, x)
  <2> SUFFICES ASSUME NEW x \in Variables
               PROVE  (slots[x] # None /\ heap'[slots[x]] = 0) <=> Held(t, h, x)
    OBVIOUS
  <2>1. (slots[x] # None /\ heap[slots[x]] = 0) <=> Held(s, g, x)
    BY DEF OwnedOK
  <2>2. CASE slots[x] \in D
    BY <1>1, <2>1, <2>2
  <2>3. CASE slots[x] \notin D
    <3>1. slots[x] # None => heap'[slots[x]] = heap[slots[x]]
      BY <1>1, <1>2, <2>3
    <3> QED BY <2>1, <2>3, <3>1
  <2> QED BY <2>2, <2>3
<1>6. slots' = slots
  OBVIOUS
<1>7. \A x, y \in Variables : slots[x] = slots[y] /\ slots[x] # None => x = y
  BY DEF OwnedOK
<1> QED BY <1>3, <1>4, <1>5, <1>6, <1>7 DEF OwnedOK

(* A clean of the list of an instruction. *)
LEMMA OwnedClean ==
  ASSUME NEW s, NEW g, NEW t, NEW h, FrameInv, NEW more \in SUBSET OfVariables,
         heap' = Delete(Swept(where) \cup more), lists' = Cleaned(where), UNCHANGED slots,
         OwnedOK(s, g, lists, heap, slots), \A o \in more : heap[o] = 0,
         \A x : x \in Variables => (Held(t, h, x) <=> Held(s, g, x) /\ slots[x] \notin more)
  PROVE  OwnedOK(t, h, lists', heap', slots')
<1> DEFINE D == Swept(where) \cup more
<1>1. /\ MemoryOK(lists, heap, slots) /\ StackOK(ctl, where, param)
      /\ HeldOK(ctl, where, param, lists) /\ where \in Nat /\ Rooted(lists, where)
  BY DEF FrameInv, StackOK, HeldOK
<1>2. Within(where) = {n \in DOMAIN lists : where <= n}
  BY <1>1, WithinIsYounger
<1>3. \A o : o \in Swept(where) <=> \E n \in DOMAIN lists : where <= n /\ o \in lists[n].objects
  BY <1>2 DEF Swept
<1>4. \A m \in DOMAIN lists : m < where => m \in DOMAIN lists' /\ lists'[m] = lists[m]
  BY <1>1, CleanMemory
<1>5. DOMAIN lists \subseteq Nat /\ \A m \in DOMAIN lists : lists[m].objects \subseteq Objects
  <2>1. PICK n \in Nat : DOMAIN lists = 0 .. n
    BY <1>1 DEF MemoryOK
  <2>2. \A m \in DOMAIN lists : lists[m] \in [objects : SUBSET Objects, lists : SUBSET DOMAIN lists]
    BY <1>1 DEF MemoryOK
  <2> QED BY <2>1, <2>2
<1>6. \A o \in Swept(where) : o \in Objects /\ heap[o] = 0
  BY <1>1, <1>3, <1>5 DEF MemoryOK
<1>7. \A o \in more : o \in Objects
  BY <1>1 DEF OfVariables, MemoryOK, Values
<1>8. \A o \in D : o \in Objects /\ heap[o] = 0
  BY <1>6, <1>7
<1>9. \A m \in DOMAIN lists : \A o \in lists[m].objects :
        o \in D \/ \E n \in DOMAIN lists' : o \in lists'[n].objects
  <2> SUFFICES ASSUME NEW m \in DOMAIN lists, NEW o \in lists[m].objects
               PROVE  o \in D \/ \E n \in DOMAIN lists' : o \in lists'[n].objects
    OBVIOUS
  <2>1. CASE m < where
    BY <1>4, <2>1
  <2>2. CASE ~(m < where)
    <3>1. where <= m
      BY <1>1, <1>5, <2>2
    <3> QED BY <1>3, <3>1
  <2> QED BY <2>1, <2>2
<1>10. \A x \in Variables : Held(s, g, x) => slots[x] \notin Swept(where)
  <2> SUFFICES ASSUME NEW x \in Variables, Held(s, g, x)
               PROVE  slots[x] \notin Swept(where)
    OBVIOUS
  <2>1. slots[x] # None
    BY DEF OwnedOK
  <2> QED BY <1>1, <1>3, <2>1 DEF MemoryOK
<1>11. \A x : x \in Variables => (Held(t, h, x) <=> Held(s, g, x) /\ slots[x] \notin D)
  BY <1>10
<1>12. heap' = Delete(D) /\ UNCHANGED slots
  OBVIOUS
<1> HIDE DEF D
<1> QED BY <1>1, <1>8, <1>9, <1>11, <1>12, OwnedDelete

(* A block is left: it has deleted what it held. *)
LEMMA HeldClose ==
  ASSUME NEW V, Scoped(V), FrameInv, OwnerInv(V), ctl # <<>>, Closes(Top), now.k \in {"ok", "throw"}, NEW h
  PROVE  /\ \A o \in Destroyed(Top, Top.i) : heap[o] = 0
         /\ \A x : x \in Variables =>
              (Held(Front(ctl), h, x) <=> Held(ctl, now, x) /\ slots[x] \notin Destroyed(Top, Top.i))
<1> DEFINE D == Destroyed(Top, Top.i)
           e == Len(ctl) - 1
<1>1. /\ Placed(ctl) /\ Scopes(ctl, V) /\ OwnedOK(ctl, now, lists, heap, slots)
      /\ FailedOK(ctl, now, slots)
  BY FramePlaced DEF OwnerInv, ShapeOK
<1>2. Len(ctl) \in Nat \ {0} /\ Last(ctl).f = "list" /\ Top = Last(ctl)
  BY TopOK DEF Top, Closes
<1>3. \A o : o \in D <=> o # None /\ \E x \in Variables : Holds(ctl, now, Len(ctl), x) /\ slots[x] = o
  BY <1>1, DestroyedHeld
<1> HIDE DEF D
<1>4. \A x : Held(Front(ctl), h, x) <=> \E k \in 1 .. Len(ctl) - 1 : Holds(ctl, now, k, x)
  <2>1. Last(ctl).f # "decl" \/ h.k # "ok"
    BY <1>2
  <2> QED BY <1>1, <2>1, HeldUnder
<1>5. \A k : k \in 1 .. Len(ctl) <=> k \in 1 .. e \/ k = Len(ctl)
  BY <1>2
<1>6. e = Len(ctl) - 1
  OBVIOUS
<1> HIDE DEF e
<1>7. \A x : Held(ctl, now, x) <=> Holds(ctl, now, Len(ctl), x) \/ \E k \in 1 .. e : Holds(ctl, now, k, x)
  BY <1>5 DEF Held
<1>8. \A x \in Variables : Held(ctl, now, x) <=> slots[x] # None /\ heap[slots[x]] = 0
  BY <1>1 DEF OwnedOK
<1>9. ASSUME NEW x, NEW k \in 1 .. e, Holds(ctl, now, k, x)
      PROVE  ~Holds(ctl, now, Len(ctl), x)
  <2>1. x \notin Scope(Top, V)
    BY <1>1, <1>2, <1>6, <1>9, NotAgain
  <2>2. Top.f = "list" /\ Top \in ListFrame /\ Top = ctl[Len(ctl)]
    BY <1>2, TopOK, Tags
  <2>3. Scopes(ctl, V) /\ Top.i <= Len(Top.ins) /\ Top.i \in Nat \ {0}
    BY <1>1, <2>2, TopOK DEF ListFrame
  <2>4. Top.ins \in Code
    BY <2>2 DEF ListFrame
  <2> SUFFICES ASSUME Holds(ctl, now, Len(ctl), x)
               PROVE  FALSE
    OBVIOUS
  <2>5. PICK j \in 1 .. Past(ctl, now, Len(ctl)) : Declares(Top.ins[j], x)
    BY <2>2 DEF Holds
  <2>6. j \in 1 .. Len(Top.ins)
    <3>1. Past(ctl, now, Len(ctl)) = Top.i \/ Past(ctl, now, Len(ctl)) = Top.i - 1
      BY <2>2 DEF Past
    <3>2. Len(Top.ins) \in Nat
      BY <2>4, CodeParts
    <3> QED BY <2>3, <2>5, <3>1, <3>2
  <2>7. x \in V[Top.ins[j]]
    <3>1. Top.ins[j] \in Nodes
      BY <2>4, <2>6, CodeParts
    <3> QED BY <2>5, <3>1 DEF Declares, Scoped
  <2> QED BY <2>1, <2>2, <2>6, <2>7 DEF Scope, VarsOf
<1>10. \A o \in D : heap[o] = 0
  BY <1>2, <1>3, <1>7, <1>8
<1>11. ASSUME NEW x \in Variables
       PROVE  Held(Front(ctl), h, x) <=> Held(ctl, now, x) /\ slots[x] \notin D
  <2>1. CASE Holds(ctl, now, Len(ctl), x)
    <3>1. Held(ctl, now, x) /\ slots[x] # None
      BY <1>7, <1>8, <2>1
    <3>2. slots[x] \in D
      BY <1>3, <2>1, <3>1
    <3>3. ~Held(Front(ctl), h, x)
      BY <1>4, <1>6, <1>9, <2>1
    <3> QED BY <3>2, <3>3
  <2>2. CASE ~Holds(ctl, now, Len(ctl), x)
    <3>1. Held(Front(ctl), h, x) <=> Held(ctl, now, x)
      BY <1>4, <1>6, <1>7, <2>2
    <3>2. ASSUME Held(ctl, now, x), slots[x] \in D
          PROVE  FALSE
      <4>1. PICK y \in Variables : Holds(ctl, now, Len(ctl), y) /\ slots[y] = slots[x] /\ slots[x] # None
        BY <1>3, <3>2
      <4>2. y = x
        BY <1>1, <4>1 DEF OwnedOK
      <4> QED BY <2>2, <4>1, <4>2
    <3> QED BY <3>1, <3>2
  <2> QED BY <2>1, <2>2
<1> QED BY <1>10, <1>11 DEF D
-----------------------------------------------------------------------------
(* The actions keep OwnerInv. *)

LEMMA NodeParts ==
  ASSUME NEW V, Scoped(V), NEW n \in Nodes
  PROVE  Needs(n, V) \subseteq V[n] /\ NodeOK(n, V) /\ n.op # "list"
<1>1. n.op = "block" => n.ins \in Code /\ n.base = {}
  BY Parts
<1>2. n.op # "list"
  BY Parts
<1>3. n.op = "block" => Apart(n.ins, V) /\ VarsOf(n.ins, V) \subseteq V[n]
  BY DEF Scoped
<1> QED BY <1>1, <1>2, <1>3 DEF Needs, NodeOK

LEMMA CodeScope ==
  ASSUME NEW V, NEW s \in Code, NEW i \in 1 .. Len(s)
  PROVE  V[s[i]] \subseteq VarsOf(s, V)
  BY DEF VarsOf

(* The node of an expression or an instruction is begun under a frame. *)
LEMMA PushOwner ==
  ASSUME NEW V, FrameInv, OwnerInv(V), Given("do"), NEW fr \in Frame, NEW n, Push(fr), Gives(Do(n)),
         fr.f = "list" => fr.i = 1,
         Scope(fr, V) \subseteq Needs(now.node, V), Needs(n, V) \subseteq Needs(now.node, V),
         CodeOK(fr, V), NodeOK(n, V), fr.f = "decl" <=> now.node.op = "decl",
         fr.f = "decl" => now.node.v = fr.v /\ fr.v \notin Needs(n, V),
         fr.f = "list" => Needs(n, V) \subseteq V[At(fr)] /\ At(fr) = n,
         n.op = "decl" => Closes(fr)
  PROVE  /\ ShapeOK(ctl', now', V) /\ FailedOK(ctl', now', slots') /\ EndOK'
         /\ \A x : Held(ctl', now', x) <=> Held(ctl, now, x)
<1>1. ctl' = Append(ctl, fr) /\ now'.k = "do" /\ now'.node = n /\ now.k = "do"
  BY DEF Push, Gives, Do, Given
<1>2. ShapeOK(ctl, now, V) /\ ctl \in Seq(Frame)
  BY DEF OwnerInv, FrameInv, StackOK
<1>3. ShapeOK(ctl', now', V)
  BY <1>1, <1>2, ShapePush
<1>4. \A x : Held(ctl', now', x) <=> Held(ctl, now, x)
  BY <1>1, FramePlaced, HeldPush
<1>5. FailedOK(ctl', now', slots') /\ EndOK'
  BY <1>1 DEF FailedOK, EndOK
<1> QED BY <1>3, <1>4, <1>5

LEMMA SteadyOwner ==
  ASSUME NEW V, OwnerInv(V), UNCHANGED <<lists, heap, slots>>,
         ShapeOK(ctl', now', V), FailedOK(ctl', now', slots'), EndOK',
         \A x : Held(ctl', now', x) <=> Held(ctl, now, x)
  PROVE  OwnerInv(V)'
<1>1. OwnedOK(ctl, now, lists, heap, slots)
  BY DEF OwnerInv
<1>2. OwnedOK(ctl', now', lists', heap', slots')
  BY <1>1, OwnedSame
<1> QED BY <1>2 DEF OwnerInv

(* What the innermost frame is given is a result. *)
LEMMA DoesNode ==
  ASSUME FrameInv, Given("do")
  PROVE  /\ now.node.op \notin {"block", "list"} => now.node \in Nodes
         /\ now.node.op \in {"block", "list"} => now.node.ins \in Code
  BY DoableParts DEF FrameInv, NowOK, Given

LEMMA OwnerLeft ==
  ASSUME NEW V, Scoped(V), FrameInv, OwnerInv(V), Left
  PROVE  OwnerInv(V)'
<1> DEFINE fr == [f |-> "left", node |-> now.node]
           n  == now.node.left
<1>1. /\ Given("do") /\ now.node.op = "plus" /\ Push(fr) /\ Gives(Do(n))
      /\ UNCHANGED <<lists, heap, slots>>
  BY DEF Left
<1>2. now.node \in Nodes
  BY <1>1, DoesNode
<1>3. n \in Nodes /\ IsExpression(n)
  BY <1>1, <1>2, Parts
<1>4. fr \in Frame /\ fr.f = "left" /\ fr.node = now.node
  BY <1>1, <1>2 DEF Frame, Plain, Operand
<1>5. n.op # "decl"
  BY <1>3 DEF IsExpression
<1>6. Needs(now.node, V) = V[now.node] /\ V[n] \subseteq V[now.node]
  BY <1>1, <1>2 DEF Needs, Scoped
<1>7. Needs(n, V) \subseteq V[n] /\ NodeOK(n, V)
  BY <1>3, NodeParts
<1> HIDE DEF fr, n
<1>8. Scope(fr, V) = V[now.node] /\ CodeOK(fr, V)
  BY <1>4 DEF Scope, CodeOK
<1>9. /\ ShapeOK(ctl', now', V) /\ FailedOK(ctl', now', slots') /\ EndOK'
      /\ \A x : Held(ctl', now', x) <=> Held(ctl, now, x)
  BY <1>1, <1>4, <1>5, <1>6, <1>7, <1>8, PushOwner
<1> QED BY <1>1, <1>9, SteadyOwner

LEMMA OwnerReturnExpr ==
  ASSUME NEW V, Scoped(V), FrameInv, OwnerInv(V), ReturnExpr
  PROVE  OwnerInv(V)'
<1> DEFINE fr == [f |-> "return"]
           n  == now.node.expr
<1>1. /\ Given("do") /\ now.node.op = "return" /\ Push(fr) /\ Gives(Do(n))
      /\ UNCHANGED <<lists, heap, slots>>
  BY DEF ReturnExpr
<1>2. now.node \in Nodes
  BY <1>1, DoesNode
<1>3. n \in Nodes /\ IsExpression(n)
  BY <1>1, <1>2, Parts
<1>4. fr \in Frame /\ fr.f = "return"
  BY DEF Frame, Plain, Operand
<1>5. n.op # "decl"
  BY <1>3 DEF IsExpression
<1>6. Needs(now.node, V) = V[now.node] /\ V[n] \subseteq V[now.node]
  BY <1>1, <1>2 DEF Needs, Scoped
<1>7. Needs(n, V) \subseteq V[n] /\ NodeOK(n, V)
  BY <1>3, NodeParts
<1> HIDE DEF fr, n
<1>8. Scope(fr, V) = {} /\ CodeOK(fr, V)
  BY <1>4 DEF Scope, CodeOK
<1>9. /\ ShapeOK(ctl', now', V) /\ FailedOK(ctl', now', slots') /\ EndOK'
      /\ \A x : Held(ctl', now', x) <=> Held(ctl, now, x)
  BY <1>1, <1>4, <1>5, <1>6, <1>7, <1>8, PushOwner
<1> QED BY <1>1, <1>9, SteadyOwner

LEMMA OwnerDeclare ==
  ASSUME NEW V, Scoped(V), FrameInv, OwnerInv(V), Declare
  PROVE  OwnerInv(V)'
<1> DEFINE fr == [f |-> "decl", v |-> now.node.v]
           n  == now.node.expr
<1>1. /\ Given("do") /\ now.node.op = "decl" /\ Push(fr) /\ Gives(Do(n))
      /\ UNCHANGED <<lists, heap, slots>>
  BY DEF Declare
<1>2. now.node \in Nodes
  BY <1>1, DoesNode
<1>3. n \in Nodes /\ IsExpression(n) /\ now.node.v \in Variables
  BY <1>1, <1>2, Parts
<1>4. fr \in Frame /\ fr.f = "decl" /\ fr.v = now.node.v
  BY <1>3 DEF Frame, Plain, Operand
<1>5. n.op # "decl"
  BY <1>3 DEF IsExpression
<1>6. /\ Needs(now.node, V) = V[now.node] /\ now.node.v \in V[now.node]
      /\ V[n] \subseteq V[now.node] \ {now.node.v}
  BY <1>1, <1>2 DEF Needs, Scoped
<1>7. Needs(n, V) \subseteq V[n] /\ NodeOK(n, V)
  BY <1>3, NodeParts
<1> HIDE DEF fr, n
<1>8. Scope(fr, V) = {fr.v} /\ CodeOK(fr, V)
  BY <1>4 DEF Scope, CodeOK
<1>9. /\ ShapeOK(ctl', now', V) /\ FailedOK(ctl', now', slots') /\ EndOK'
      /\ \A x : Held(ctl', now', x) <=> Held(ctl, now, x)
  BY <1>1, <1>4, <1>5, <1>6, <1>7, <1>8, PushOwner
<1> QED BY <1>1, <1>9, SteadyOwner

LEMMA OwnerFor ==
  ASSUME NEW V, Scoped(V), FrameInv, OwnerInv(V), For
  PROVE  OwnerInv(V)'
<1> DEFINE fr == [f |-> "for", body |-> now.node.body, left |-> now.node.turns, sptr |-> where,
                  sptrclean |-> TRUE]
           n  == now.node.body
<1>1. /\ Given("do") /\ now.node.op = "for" /\ Push(fr) /\ Gives(Do(n))
      /\ UNCHANGED <<lists, heap, slots>>
  BY DEF For
<1>2. now.node \in Nodes
  BY <1>1, DoesNode
<1>3. n \in Nodes /\ now.node.turns \in Nat /\ where \in Nat
  BY <1>1, <1>2, Parts DEF FrameInv, StackOK
<1>4. fr \in Frame /\ fr.f = "for" /\ fr.body = n
  BY <1>3 DEF Frame, Plain, ForFrame
<1>5. n.op # "decl"
  BY <1>1, <1>2 DEF Scoped
<1>6. Needs(now.node, V) = V[now.node] /\ V[n] \subseteq V[now.node]
  BY <1>1, <1>2 DEF Needs, Scoped
<1>7. Needs(n, V) \subseteq V[n] /\ NodeOK(n, V)
  BY <1>3, NodeParts
<1> HIDE DEF fr, n
<1>8. Scope(fr, V) = V[n] /\ CodeOK(fr, V)
  BY <1>4, <1>5 DEF Scope, CodeOK
<1>9. /\ ShapeOK(ctl', now', V) /\ FailedOK(ctl', now', slots') /\ EndOK'
      /\ \A x : Held(ctl', now', x) <=> Held(ctl, now, x)
  BY <1>1, <1>4, <1>5, <1>6, <1>7, <1>8, PushOwner
<1> QED BY <1>1, <1>9, SteadyOwner

LEMMA OwnerTry ==
  ASSUME NEW V, Scoped(V), FrameInv, OwnerInv(V), Try
  PROVE  OwnerInv(V)'
<1> DEFINE fr == [f |-> "try", node |-> now.node]
           n  == [op |-> "list", ins |-> now.node.ins, base |-> {}]
<1>1. /\ Given("do") /\ now.node.op = "try" /\ Push(fr) /\ Gives(Do(n))
      /\ UNCHANGED <<lists, heap, slots>>
  BY DEF Try
<1>2. now.node \in Nodes
  BY <1>1, DoesNode
<1>4. fr \in Frame /\ fr.f = "try" /\ fr.node = now.node
  BY <1>1, <1>2 DEF Frame, Plain, TryFrame
<1>5. n.op = "list" /\ n.ins = now.node.ins /\ n.base = {}
  OBVIOUS
<1>6. /\ Needs(now.node, V) = V[now.node] /\ VarsOf(n.ins, V) \subseteq V[now.node]
      /\ NoDecl(n.ins)
  BY <1>1, <1>2 DEF Needs, Scoped
<1> HIDE DEF fr, n
<1>7. Needs(n, V) = VarsOf(n.ins, V) /\ NodeOK(n, V)
  BY <1>5, <1>6 DEF Needs, NodeOK, NoDecl, Apart
<1>8. Scope(fr, V) = V[now.node] /\ CodeOK(fr, V)
  BY <1>4 DEF Scope, CodeOK
<1>9. /\ ShapeOK(ctl', now', V) /\ FailedOK(ctl', now', slots') /\ EndOK'
      /\ \A x : Held(ctl', now', x) <=> Held(ctl, now, x)
  BY <1>1, <1>4, <1>5, <1>6, <1>7, <1>8, PushOwner
<1> QED BY <1>1, <1>9, SteadyOwner

LEMMA OwnerStart ==
  ASSUME NEW V, Scoped(V), FrameInv, OwnerInv(V), Start
  PROVE  OwnerInv(V)'
<1> DEFINE fr == [f |-> "list", ins |-> now.node.ins, i |-> 1, sptr |-> where, param |-> param,
                  base |-> now.node.base, close |-> now.node.op = "block"]
           n  == Head(now.node.ins)
<1>1. /\ Given("do") /\ now.node.op \in {"block", "list"} /\ Push(fr) /\ Gives(Do(n))
      /\ UNCHANGED <<lists, heap, slots>>
  BY DEF Start
<1>2. now.node.ins \in Code /\ now.node.base = {} /\ Apart(now.node.ins, V)
      /\ (now.node.op = "list" => NoDecl(now.node.ins))
  BY <1>1, DoesNode DEF OwnerInv, ShapeOK, NodeOK, Given
<1>3. n = now.node.ins[1] /\ n \in Nodes /\ 1 \in 1 .. Len(now.node.ins)
  BY <1>2, CodeParts
<1>4. /\ fr \in Frame /\ fr.f = "list" /\ fr.ins = now.node.ins /\ fr.i = 1 /\ fr.base = now.node.base
      /\ fr.close <=> now.node.op = "block"
  <2>1. where \in Nat /\ param \in Values
    BY DEF FrameInv, StackOK
  <2>2. fr \in ListFrame
    BY <1>2, <2>1 DEF ListFrame
  <2> QED BY <2>2 DEF Frame, Plain
<1>5. Needs(now.node, V) = VarsOf(now.node.ins, V) /\ V[n] \subseteq VarsOf(now.node.ins, V)
  BY <1>1, <1>2, <1>3, CodeScope DEF Needs
<1>6. Needs(n, V) \subseteq V[n] /\ NodeOK(n, V)
  BY <1>3, NodeParts
<1> HIDE DEF fr, n
<1>7. Scope(fr, V) = VarsOf(now.node.ins, V) /\ At(fr) = n
  BY <1>3, <1>4 DEF Scope, At
<1>8. CodeOK(fr, V)
  BY <1>1, <1>2, <1>4 DEF CodeOK
<1>9. n.op = "decl" => Closes(fr)
  BY <1>1, <1>2, <1>3, <1>4 DEF NoDecl, Closes
<1>10. /\ ShapeOK(ctl', now', V) /\ FailedOK(ctl', now', slots') /\ EndOK'
       /\ \A x : Held(ctl', now', x) <=> Held(ctl, now, x)
  BY <1>1, <1>4, <1>5, <1>6, <1>7, <1>8, <1>9, PushOwner
<1> QED BY <1>1, <1>10, SteadyOwner

LEMMA OwnerCall ==
  ASSUME NEW V, Scoped(V), FrameInv, EnoughMemory, OwnerInv(V), Call
  PROVE  OwnerInv(V)'
<1> DEFINE fr == [f |-> "routine", where |-> where, param |-> param]
           n  == Block(now.node.ins)
           l  == Cardinality(DOMAIN lists)
<1>1. /\ Given("do") /\ now.node.op = "call" /\ Push(fr) /\ Gives(Do(n))
      /\ Made(Fresh) /\ UNCHANGED slots
  BY DEF Call
<1>2. now.node \in Nodes
  BY <1>1, DoesNode
<1>3. n.op = "block" /\ n.ins = now.node.ins /\ n.base = {}
  BY DEF Block
<1>4. fr \in Frame /\ fr.f = "routine"
  BY DEF FrameInv, StackOK, Frame, Routine
<1>5. /\ Needs(now.node, V) = V[now.node] /\ VarsOf(now.node.ins, V) \subseteq V[now.node]
      /\ Apart(now.node.ins, V)
  BY <1>1, <1>2 DEF Needs, Scoped
<1> HIDE DEF fr, n
<1>6. Needs(n, V) = VarsOf(n.ins, V) /\ NodeOK(n, V)
  BY <1>3, <1>5 DEF Needs, NodeOK
<1>7. Scope(fr, V) = {} /\ CodeOK(fr, V)
  BY <1>4 DEF Scope, CodeOK
<1>8. /\ ShapeOK(ctl', now', V) /\ FailedOK(ctl', now', slots') /\ EndOK'
      /\ \A x : Held(ctl', now', x) <=> Held(ctl, now, x)
  BY <1>1, <1>3, <1>4, <1>5, <1>6, <1>7, PushOwner
<1>9. Grows(lists, lists') /\ where < where' /\ where \in DOMAIN lists /\ where' = l
  BY CallMemory DEF Call, FrameInv, HeldOK, Rooted
<1>10. where # l /\ where \in DOMAIN lists'
  <2>1. where \in Nat
    BY DEF FrameInv, StackOK
  <2> QED BY <1>9, <2>1 DEF Grows
<1>11. lists'[where].objects = lists[where].objects \cup {Fresh}
  BY <1>9, <1>10 DEF Call
<1>12. \E m \in DOMAIN lists' : Fresh \in lists'[m].objects
  BY <1>10, <1>11
<1>13. OwnedOK(ctl, now, lists, heap, slots) /\ MemoryOK(lists, heap, slots)
  BY DEF OwnerInv, FrameInv
<1>14. OwnedOK(ctl', now', lists', heap', slots')
  BY <1>1, <1>8, <1>9, <1>12, <1>13, OwnedTemporary
<1> QED BY <1>8, <1>14 DEF OwnerInv

(* The innermost frame ends, or an exception leaves it. *)
LEMMA PopOwner ==
  ASSUME NEW V, FrameInv, OwnerInv(V), ctl # <<>>, Pop, now'.k \in {"ok", "throw"},
         now'.k = "throw" => UNCHANGED slots /\ (Top.f = "decl" => slots[Top.v] = None)
  PROVE  ShapeOK(ctl', now', V) /\ FailedOK(ctl', now', slots') /\ EndOK'
<1> DEFINE t == Front(ctl)
           e == Len(ctl) - 1
<1>1. ctl' = t /\ ctl \in Seq(Frame) /\ ShapeOK(ctl, now, V) /\ Top = Last(ctl)
  BY DEF Pop, FrameInv, StackOK, OwnerInv, Top
<1>2. ShapeOK(t, now', V)
  BY <1>1, ShapePop
<1>3. t # <<>> => Last(t) = ctl[e] /\ Follows(ctl, e) /\ ctl[e + 1] = Top
  BY <1>1, PopScope DEF ShapeOK
<1> HIDE DEF t, e
<1>4. ASSUME t # <<>>, Closes(Last(t)), now'.k = "throw", At(Last(t)).op = "decl"
      PROVE  slots'[At(Last(t)).v] = None
  <2>1. Top.f = "decl" /\ Declares(At(Last(t)), Top.v)
    BY <1>3, <1>4 DEF Follows, Closes
  <2> QED BY <1>4, <2>1 DEF Declares
<1>5. FailedOK(t, now', slots')
  BY <1>4 DEF FailedOK
<1>6. EndOK'
  BY DEF EndOK
<1> QED BY <1>1, <1>2, <1>5, <1>6

LEMMA UnderOwner ==
  ASSUME NEW V, FrameInv, OwnerInv(V), ctl # <<>>, Pop, ~Closes(Top), Top.f # "decl" \/ now'.k # "ok"
  PROVE  \A x : Held(ctl', now', x) <=> Held(ctl, now, x)
<1>1. Placed(ctl) /\ Scopes(ctl, V) /\ ctl' = Front(ctl) /\ Top = Last(ctl)
  BY FramePlaced DEF Pop, OwnerInv, ShapeOK, Top
<1> QED BY <1>1, HeldPop

LEMMA SteadyPopOwner ==
  ASSUME NEW V, FrameInv, OwnerInv(V), ctl # <<>>, Pop, now'.k \in {"ok", "throw"},
         UNCHANGED <<lists, heap, slots>>, ~Closes(Top), Top.f # "decl" \/ now'.k # "ok",
         now'.k = "throw" => (Top.f = "decl" => slots[Top.v] = None)
  PROVE  OwnerInv(V)'
<1>1. ShapeOK(ctl', now', V) /\ FailedOK(ctl', now', slots') /\ EndOK'
  BY PopOwner
<1>2. \A x : Held(ctl', now', x) <=> Held(ctl, now, x)
  BY UnderOwner
<1> QED BY <1>1, <1>2, SteadyOwner

LEMMA OwnerReturn ==
  ASSUME NEW V, FrameInv, OwnerInv(V), Return
  PROVE  OwnerInv(V)'
<1>1. /\ ctl # <<>> /\ Top.f = "routine" /\ Pop /\ now'.k = "ok"
      /\ UNCHANGED <<lists, heap, slots>>
  BY DEF Return, In, Gives, Ok
<1>2. ~Closes(Top)
  BY <1>1 DEF Closes
<1> QED BY <1>1, <1>2, SteadyPopOwner

LEMMA OwnerUnwind ==
  ASSUME NEW V, FrameInv, OwnerInv(V), FailsFirst, Unwind
  PROVE  OwnerInv(V)'
<1>1. /\ ctl # <<>> /\ Top.f \in {"left", "right", "decl", "return"} /\ Pop /\ now'.k = "throw"
      /\ UNCHANGED <<lists, heap, slots>>
  BY DEF Unwind, Given
<1>2. ~Closes(Top)
  BY <1>1 DEF Closes
<1>3. Top.f = "decl" => slots[Top.v] = None
  BY <1>1 DEF FailsFirst, In, Unwind
<1> QED BY <1>1, <1>2, <1>3, SteadyPopOwner

LEMMA OwnerLoopFails ==
  ASSUME NEW V, FrameInv, OwnerInv(V), LoopFails
  PROVE  OwnerInv(V)'
<1>1. /\ ctl # <<>> /\ Top.f = "for" /\ Pop /\ now'.k = "throw"
      /\ UNCHANGED <<lists, heap, slots>>
  BY DEF LoopFails, In, Given
<1>2. ~Closes(Top)
  BY <1>1 DEF Closes
<1> QED BY <1>1, <1>2, SteadyPopOwner

LEMMA OwnerTryEnds ==
  ASSUME NEW V, FrameInv, OwnerInv(V), TryEnds
  PROVE  OwnerInv(V)'
<1>1. /\ ctl # <<>> /\ Top.f = "try" /\ Pop /\ now'.k \in {"ok", "throw"}
      /\ UNCHANGED <<lists, heap, slots>>
  BY DEF TryEnds, In, Given
<1>2. ~Closes(Top)
  BY <1>1 DEF Closes
<1> QED BY <1>1, <1>2, SteadyPopOwner

LEMMA PopTemporaryOwner ==
  ASSUME NEW V, FrameInv, EnoughMemory, OwnerInv(V), ctl # <<>>, Top.f \in {"right", "return"}, Pop,
         now'.k \in {"ok", "throw"}, Made(Fresh), Temporary(Fresh), UNCHANGED slots
  PROVE  OwnerInv(V)'
<1>1. ~Closes(Top) /\ Top.f # "decl"
  BY DEF Closes
<1>2. ShapeOK(ctl', now', V) /\ FailedOK(ctl', now', slots') /\ EndOK'
  BY <1>1, PopOwner
<1>3. \A x : Held(ctl', now', x) <=> Held(ctl, now, x)
  BY <1>1, UnderOwner
<1>4. MemoryOK(lists, heap, slots) /\ where \in DOMAIN lists /\ OwnedOK(ctl, now, lists, heap, slots)
  BY DEF FrameInv, HeldOK, Rooted, OwnerInv
<1>5. Grows(lists, lists') /\ \E m \in DOMAIN lists' : Fresh \in lists'[m].objects
  BY <1>4, MakeTemporary
<1>6. OwnedOK(ctl', now', lists', heap', slots')
  BY <1>3, <1>4, <1>5, OwnedTemporary
<1> QED BY <1>2, <1>6 DEF OwnerInv

LEMMA OwnerPlus ==
  ASSUME NEW V, FrameInv, EnoughMemory, OwnerInv(V), Plus
  PROVE  OwnerInv(V)'
<1>1. /\ ctl # <<>> /\ Top.f = "right" /\ Pop /\ now'.k = "ok" /\ Made(Fresh) /\ Temporary(Fresh)
      /\ UNCHANGED slots
  BY DEF Plus, In, Gives, Ok
<1> QED BY <1>1, PopTemporaryOwner

LEMMA OwnerReturnValue ==
  ASSUME NEW V, FrameInv, EnoughMemory, OwnerInv(V), ReturnValue
  PROVE  OwnerInv(V)'
<1>1. /\ ctl # <<>> /\ Top.f = "return" /\ Pop /\ now'.k = "throw" /\ Made(Fresh) /\ Temporary(Fresh)
      /\ UNCHANGED slots
  BY DEF ReturnValue, In, Gives, Throw
<1> QED BY <1>1, PopTemporaryOwner

LEMMA OwnerInitialise ==
  ASSUME NEW V, FrameInv, EnoughMemory, OwnerInv(V), Initialise
  PROVE  OwnerInv(V)'
<1>1. /\ ctl # <<>> /\ Top.f = "decl" /\ Pop /\ now'.k = "ok" /\ Made(Fresh) /\ UNCHANGED lists
      /\ slots' = [slots EXCEPT ![Top.v] = Fresh]
  BY DEF Initialise, In, Gives, Ok
<1>2. ShapeOK(ctl', now', V) /\ FailedOK(ctl', now', slots') /\ EndOK'
  BY <1>1, PopOwner
<1>3. Placed(ctl) /\ Scopes(ctl, V) /\ ctl' = Front(ctl) /\ Top = Last(ctl)
  BY <1>1, FramePlaced DEF Pop, OwnerInv, ShapeOK, Top
<1>4. /\ ~Held(ctl, now, Top.v)
      /\ \A x : Held(ctl', now', x) <=> Held(ctl, now, x) \/ x = Top.v
  BY <1>1, <1>3, HeldInit
<1>5. MemoryOK(lists, heap, slots) /\ OwnedOK(ctl, now, lists, heap, slots)
  BY DEF FrameInv, OwnerInv
<1>6. Top.v \in Variables
  BY <1>1, TopOK, Tags
<1>7. OwnedOK(ctl', now', lists', heap', slots')
  BY <1>1, <1>4, <1>5, <1>6, OwnedVariable
<1> QED BY <1>2, <1>7 DEF OwnerInv

(* Temporaries are deleted, and no variable. *)
LEMMA OwnedSweep ==
  ASSUME NEW s, NEW g, NEW t, NEW h, FrameInv, heap' = Delete(Swept(where) \cup {}),
         lists' = Cleaned(where), UNCHANGED slots,
         OwnedOK(s, g, lists, heap, slots), \A x : Held(t, h, x) <=> Held(s, g, x)
  PROVE  OwnedOK(t, h, lists', heap', slots')
<1> DEFINE none == {}
<1>1. none \in SUBSET OfVariables /\ \A o \in none : heap[o] = 0
  OBVIOUS
<1>2. \A x : x \in Variables => (Held(t, h, x) <=> Held(s, g, x) /\ slots[x] \notin none)
  OBVIOUS
<1>3. heap' = Delete(Swept(where) \cup none)
  OBVIOUS
<1> HIDE DEF none
<1> QED BY <1>1, <1>2, <1>3, OwnedClean

LEMMA OwnerRoutineFails ==
  ASSUME NEW V, FrameInv, OwnerInv(V), RoutineFails
  PROVE  OwnerInv(V)'
<1>1. /\ ctl # <<>> /\ Top.f = "routine" /\ Pop /\ now'.k = "throw" /\ UNCHANGED slots
      /\ heap' = Delete(Swept(where)) /\ lists' = Cleaned(where)
  BY DEF RoutineFails, In, Given
<1>2. ~Closes(Top) /\ Top.f # "decl"
  BY <1>1 DEF Closes
<1>3. ShapeOK(ctl', now', V) /\ FailedOK(ctl', now', slots') /\ EndOK'
  BY <1>1, <1>2, PopOwner
<1>4. \A x : Held(ctl', now', x) <=> Held(ctl, now, x)
  BY <1>1, <1>2, UnderOwner
<1>5. OwnedOK(ctl, now, lists, heap, slots)
  BY DEF OwnerInv
<1>6. heap' = Delete(Swept(where) \cup {})
  BY <1>1
<1>7. OwnedOK(ctl', now', lists', heap', slots')
  BY <1>1, <1>4, <1>5, <1>6, OwnedSweep
<1> QED BY <1>3, <1>7 DEF OwnerInv

(* The block deletes what it holds, with its temporaries or, on a return,  *)
(* without them.                                                           *)
LEMMA ListDestroys ==
  ASSUME NEW V, Scoped(V), FrameInv, OwnerInv(V), ctl # <<>>, Top.f = "list", now.k \in {"ok", "throw"},
         NEW h
  PROVE  /\ Destroyed(Top, Top.i) \in SUBSET OfVariables
         /\ \A o \in Destroyed(Top, Top.i) : heap[o] = 0
         /\ \A x : x \in Variables =>
              (Held(Front(ctl), h, x) <=> Held(ctl, now, x) /\ slots[x] \notin Destroyed(Top, Top.i))
<1>1. Top \in ListFrame /\ Top.i <= Len(Top.ins) /\ Top = Last(ctl)
  BY TopOK, Tags DEF Top
<1>2. Destroyed(Top, Top.i) \in SUBSET OfVariables
  BY <1>1, DestroyedType
<1>3. CASE Closes(Top)
  BY <1>2, <1>3, HeldClose
<1>4. CASE ~Closes(Top)
  <2>1. Destroyed(Top, Top.i) = {}
    BY <1>4 DEF Destroyed, Closes
  <2>2. Placed(ctl) /\ Scopes(ctl, V)
    BY FramePlaced DEF OwnerInv, ShapeOK
  <2>3. \A x : Held(Front(ctl), h, x) <=> Held(ctl, now, x)
    BY <1>1, <1>4, <2>2, HeldPop
  <2> QED BY <1>2, <2>1, <2>3
<1> QED BY <1>3, <1>4

LEMMA OwnerEndOfList ==
  ASSUME NEW V, Scoped(V), FrameInv, OwnerInv(V), EndOfList
  PROVE  OwnerInv(V)'
<1> DEFINE D == Destroyed(Top, Top.i)
<1>1. /\ ctl # <<>> /\ Top.f = "list" /\ Pop /\ now.k = "ok" /\ now'.k = "ok" /\ UNCHANGED slots
      /\ heap' = Delete(Swept(Top.sptr) \cup D) /\ lists' = Cleaned(Top.sptr)
  BY DEF EndOfList, In, Given, Gives, Ok, clean
<1>2. Top.sptr = where /\ ctl' = Front(ctl)
  BY <1>1, TopOK DEF HasList, Pop
<1>3. /\ D \in SUBSET OfVariables /\ \A o \in D : heap[o] = 0
      /\ \A x : x \in Variables => (Held(ctl', now', x) <=> Held(ctl, now, x) /\ slots[x] \notin D)
  BY <1>1, <1>2, ListDestroys
<1> HIDE DEF D
<1>4. ShapeOK(ctl', now', V) /\ FailedOK(ctl', now', slots') /\ EndOK'
  BY <1>1, PopOwner
<1>5. OwnedOK(ctl, now, lists, heap, slots)
  BY DEF OwnerInv
<1>6. OwnedOK(ctl', now', lists', heap', slots')
  BY <1>1, <1>2, <1>3, <1>5, OwnedClean
<1> QED BY <1>4, <1>6 DEF OwnerInv

LEMMA OwnerLeaveList ==
  ASSUME NEW V, Scoped(V), FrameInv, OwnerInv(V), LeaveList
  PROVE  OwnerInv(V)'
<1> DEFINE D == Destroyed(Top, Top.i)
<1>1. /\ ctl # <<>> /\ Top.f = "list" /\ Pop /\ now.k = "throw" /\ UNCHANGED <<now, slots>>
      /\ \/ heap' = Delete(D) /\ UNCHANGED lists
         \/ heap' = Delete(Swept(Top.sptr) \cup D) /\ lists' = Cleaned(Top.sptr)
  BY DEF LeaveList, In, Given, clean
<1>2. Top.sptr = where /\ ctl' = Front(ctl)
  BY <1>1, TopOK DEF HasList, Pop
<1>3. /\ D \in SUBSET OfVariables /\ \A o \in D : heap[o] = 0
      /\ \A x : x \in Variables => (Held(ctl', now', x) <=> Held(ctl, now, x) /\ slots[x] \notin D)
  BY <1>1, <1>2, ListDestroys
<1> HIDE DEF D
<1>4. ShapeOK(ctl', now', V) /\ FailedOK(ctl', now', slots') /\ EndOK'
  BY <1>1, PopOwner
<1>5. OwnedOK(ctl, now, lists, heap, slots) /\ MemoryOK(lists, heap, slots)
  BY DEF OwnerInv, FrameInv
<1>6. CASE heap' = Delete(D) /\ UNCHANGED lists
  <2>1. \A o \in D : o \in Objects /\ heap[o] = 0
    BY <1>3, <1>5 DEF OfVariables, MemoryOK, Values
  <2>2. \A m \in DOMAIN lists : \A o \in lists[m].objects :
          o \in D \/ \E n \in DOMAIN lists' : o \in lists'[n].objects
    BY <1>6
  <2>3. OwnedOK(ctl', now', lists', heap', slots')
    BY <1>1, <1>3, <1>5, <1>6, <2>1, <2>2, OwnedDelete
  <2> QED BY <1>4, <2>3 DEF OwnerInv
<1>7. CASE heap' = Delete(Swept(Top.sptr) \cup D) /\ lists' = Cleaned(Top.sptr)
  <2>1. OwnedOK(ctl', now', lists', heap', slots')
    BY <1>1, <1>2, <1>3, <1>5, <1>7, OwnedClean
  <2> QED BY <1>4, <2>1 DEF OwnerInv
<1> QED BY <1>1, <1>6, <1>7

(* The innermost frame is given a result where it was given a node. *)
LEMMA StayOwner ==
  ASSUME NEW V, FrameInv, OwnerInv(V), Given("do"), now.node.op # "decl", UNCHANGED ctl,
         now'.k \in {"ok", "throw"}
  PROVE  /\ ShapeOK(ctl', now', V) /\ FailedOK(ctl', now', slots') /\ EndOK'
         /\ \A x : Held(ctl', now', x) <=> Held(ctl, now, x)
<1>1. ShapeOK(ctl, now, V) /\ now.k = "do" /\ Starts(ctl, now.node) /\ ctl' = ctl
  BY DEF OwnerInv, ShapeOK, Given
<1>2. ShapeOK(ctl, now', V)
  BY <1>1, ShapeStay
<1>3. \A x : Held(ctl, now', x) <=> Held(ctl, now, x)
  BY <1>1, FramePlaced, HeldStay
<1>4. ctl # <<>> /\ Closes(Last(ctl)) => At(Last(ctl)).op # "decl"
  BY <1>1 DEF Starts, Closes
<1>5. FailedOK(ctl, now', slots')
  BY <1>4 DEF FailedOK
<1>6. EndOK'
  BY DEF EndOK
<1> QED BY <1>1, <1>2, <1>3, <1>5, <1>6

LEMMA OwnerTemp ==
  ASSUME NEW V, FrameInv, EnoughMemory, OwnerInv(V), Temp
  PROVE  OwnerInv(V)'
<1>1. /\ Given("do") /\ now.node.op # "decl" /\ UNCHANGED <<ctl, slots>> /\ now'.k = "ok"
      /\ Made(Fresh) /\ Temporary(Fresh)
  BY DEF Temp, Gives, Ok
<1>2. /\ ShapeOK(ctl', now', V) /\ FailedOK(ctl', now', slots') /\ EndOK'
      /\ \A x : Held(ctl', now', x) <=> Held(ctl, now, x)
  BY <1>1, StayOwner
<1>3. MemoryOK(lists, heap, slots) /\ where \in DOMAIN lists /\ OwnedOK(ctl, now, lists, heap, slots)
  BY DEF FrameInv, HeldOK, Rooted, OwnerInv
<1>4. Grows(lists, lists') /\ \E m \in DOMAIN lists' : Fresh \in lists'[m].objects
  BY <1>1, <1>3, MakeTemporary
<1>5. OwnedOK(ctl', now', lists', heap', slots')
  BY <1>1, <1>2, <1>3, <1>4, OwnedTemporary
<1> QED BY <1>2, <1>5 DEF OwnerInv

LEMMA OwnerFail ==
  ASSUME NEW V, FrameInv, OwnerInv(V), Fail \/ Jump
  PROVE  OwnerInv(V)'
<1>1. /\ Given("do") /\ now.node.op # "decl" /\ UNCHANGED <<ctl, lists, heap, slots>>
      /\ now'.k = "throw"
  BY DEF Fail, Jump, Gives, Throw
<1>2. /\ ShapeOK(ctl', now', V) /\ FailedOK(ctl', now', slots') /\ EndOK'
      /\ \A x : Held(ctl', now', x) <=> Held(ctl, now, x)
  BY <1>1, StayOwner
<1> QED BY <1>1, <1>2, SteadyOwner

(* The innermost frame goes on with another node. *)
LEMMA SwapOwner ==
  ASSUME NEW V, FrameInv, OwnerInv(V), ctl # <<>>, Top.f # "decl", NEW fr \in Frame, fr.f # "decl",
         NEW n, Swap(fr), Gives(Do(n)), Scope(fr, V) \subseteq Scope(Top, V),
         Needs(n, V) \subseteq Scope(Top, V), CodeOK(fr, V), NodeOK(n, V),
         fr.f = "list" => Needs(n, V) \subseteq V[At(fr)] /\ At(fr) = n,
         n.op = "decl" => Closes(fr),
         Closes(fr) <=> Closes(Top),
         Closes(fr) => now.k = "ok" /\ fr.ins = Top.ins /\ fr.i = Top.i + 1
  PROVE  /\ ShapeOK(ctl', now', V) /\ FailedOK(ctl', now', slots') /\ EndOK'
         /\ \A x : Held(ctl', now', x) <=> Held(ctl, now, x)
<1>1. ctl' = Append(Front(ctl), fr) /\ now'.k = "do" /\ now'.node = n /\ Top = Last(ctl)
  BY DEF Swap, Gives, Do, Top
<1>2. ShapeOK(ctl, now, V) /\ ctl \in Seq(Frame)
  BY DEF OwnerInv, FrameInv, StackOK
<1>3. ShapeOK(ctl', now', V)
  BY <1>1, <1>2, ShapeSwap
<1>4. \A x : Held(ctl', now', x) <=> Held(ctl, now, x)
  BY <1>1, FramePlaced, HeldSwap
<1>5. FailedOK(ctl', now', slots') /\ EndOK'
  BY <1>1 DEF FailedOK, EndOK
<1> QED BY <1>3, <1>4, <1>5

LEMMA OwnerRight ==
  ASSUME NEW V, Scoped(V), FrameInv, OwnerInv(V), Right
  PROVE  OwnerInv(V)'
<1> DEFINE fr == [f |-> "right", left |-> now.val]
           n  == Top.node.right
<1>1. /\ ctl # <<>> /\ Top.f = "left" /\ Swap(fr) /\ Gives(Do(n)) /\ UNCHANGED <<lists, heap, slots>>
  BY DEF Right, In
<1>2. Top.node \in Nodes /\ Top.node.op = "plus"
  BY <1>1, TopOK, Tags
<1>3. n \in Nodes /\ IsExpression(n)
  BY <1>2, Parts
<1>4. fr \in Frame /\ fr.f = "right"
  BY DEF Frame, Plain, Operand, FrameInv, NowOK
<1>5. n.op # "decl"
  BY <1>3 DEF IsExpression
<1>6. Scope(Top, V) = V[Top.node] /\ V[n] \subseteq V[Top.node]
  BY <1>1, <1>2 DEF Scope, Scoped
<1>7. Needs(n, V) \subseteq V[n] /\ NodeOK(n, V)
  BY <1>3, NodeParts
<1> HIDE DEF fr, n
<1>8. Scope(fr, V) = {} /\ CodeOK(fr, V) /\ ~Closes(fr) /\ ~Closes(Top)
  BY <1>1, <1>4 DEF Scope, CodeOK, Closes
<1>9. /\ ShapeOK(ctl', now', V) /\ FailedOK(ctl', now', slots') /\ EndOK'
      /\ \A x : Held(ctl', now', x) <=> Held(ctl, now, x)
  BY <1>1, <1>4, <1>5, <1>6, <1>7, <1>8, SwapOwner
<1> QED BY <1>1, <1>9, SteadyOwner

LEMMA TopScope ==
  ASSUME NEW V, FrameInv, OwnerInv(V), ctl # <<>>
  PROVE  CodeOK(Top, V)
<1>1. Top = ctl[Len(ctl)] /\ Len(ctl) \in 1 .. Len(ctl)
  BY TopOK
<1> QED BY <1>1 DEF OwnerInv, ShapeOK, Scopes

LEMMA OwnerNextInst ==
  ASSUME NEW V, Scoped(V), FrameInv, OwnerInv(V), NextInst
  PROVE  OwnerInv(V)'
<1> DEFINE fr == [Top EXCEPT !.i = @ + 1]
           n  == Top.ins[Top.i + 1]
<1>1. /\ ctl # <<>> /\ Top.f = "list" /\ Top.i < Len(Top.ins) /\ Swap(fr) /\ Gives(Do(n)) /\ now.k = "ok"
      /\ clean(Top.sptr, {}) /\ UNCHANGED slots
  BY DEF NextInst, In, Given
<1>2. Top \in ListFrame /\ Top.sptr = where
  BY <1>1, TopOK, Tags DEF HasList
<1>3. Top.ins \in Code /\ Top.i \in Nat \ {0}
  BY <1>2 DEF ListFrame
<1>4. Top.i + 1 \in 1 .. Len(Top.ins) /\ n \in Nodes
  BY <1>1, <1>3, CodeParts
<1>5. /\ fr \in Frame /\ fr.f = "list" /\ fr.ins = Top.ins /\ fr.i = Top.i + 1 /\ fr.base = Top.base
      /\ fr.close <=> Top.close
  <2>1. fr \in ListFrame
    BY <1>2, <1>3 DEF ListFrame
  <2> QED BY <1>2, <2>1 DEF Frame, Plain, ListFrame
<1>6. Scope(Top, V) = VarsOf(Top.ins, V) /\ V[n] \subseteq VarsOf(Top.ins, V)
  BY <1>1, <1>3, <1>4, CodeScope DEF Scope
<1>7. Needs(n, V) \subseteq V[n] /\ NodeOK(n, V)
  BY <1>4, NodeParts
<1>8. Apart(Top.ins, V) /\ Top.base = {} /\ (~Top.close => NoDecl(Top.ins))
  BY <1>1, TopScope DEF CodeOK
<1>9. n.op = "decl" => Top.close
  BY <1>4, <1>8 DEF NoDecl
<1>10. At(fr) = n
  BY <1>5 DEF At
<1> HIDE DEF fr, n
<1>11. Scope(fr, V) = VarsOf(Top.ins, V) /\ CodeOK(fr, V) /\ (Closes(fr) <=> Closes(Top))
       /\ (n.op = "decl" => Closes(fr))
  BY <1>1, <1>5, <1>8, <1>9 DEF Scope, CodeOK, Closes
<1>12. /\ ShapeOK(ctl', now', V) /\ FailedOK(ctl', now', slots') /\ EndOK'
       /\ \A x : Held(ctl', now', x) <=> Held(ctl, now, x)
  BY <1>1, <1>5, <1>6, <1>7, <1>10, <1>11, SwapOwner
<1>13. OwnedOK(ctl, now, lists, heap, slots)
  BY DEF OwnerInv
<1>14. heap' = Delete(Swept(where) \cup {}) /\ lists' = Cleaned(where)
  BY <1>1, <1>2 DEF clean
<1>15. OwnedOK(ctl', now', lists', heap', slots')
  BY <1>1, <1>12, <1>13, <1>14, OwnedSweep
<1> QED BY <1>12, <1>15 DEF OwnerInv

LEMMA OwnerTurn ==
  ASSUME NEW V, Scoped(V), FrameInv, OwnerInv(V), Turn
  PROVE  OwnerInv(V)'
<1> DEFINE fr == [Top EXCEPT !.left = @ - 1, !.sptrclean = @ /\ lists[Top.sptr] # NewItems]
           n  == Top.body
<1>1. /\ ctl # <<>> /\ Top.f = "for" /\ UNCHANGED slots /\ now.k \in {"ok", "throw"}
      /\ IF Top.sptrclean THEN clean(Top.sptr, {}) ELSE UNCHANGED <<where, lists, heap>>
      /\ \/ Swap(fr) /\ Gives(Do(n)) /\ Top.left > 1
         \/ Pop /\ Gives(Ok(None))
         \/ Pop /\ UNCHANGED now
  BY DEF Turn, In, Given
<1>2. Top \in ForFrame /\ Top.sptr = where
  BY <1>1, TopOK, Tags DEF HasList
<1>3. ~Closes(Top)
  BY <1>1 DEF Closes
<1>4. ASSUME Pop, now'.k \in {"ok", "throw"}
      PROVE  /\ ShapeOK(ctl', now', V) /\ FailedOK(ctl', now', slots') /\ EndOK'
             /\ \A x : Held(ctl', now', x) <=> Held(ctl, now, x)
  <2>1. ShapeOK(ctl', now', V) /\ FailedOK(ctl', now', slots') /\ EndOK'
    BY <1>1, <1>4, PopOwner
  <2>2. \A x : Held(ctl', now', x) <=> Held(ctl, now, x)
    BY <1>1, <1>3, <1>4, UnderOwner
  <2> QED BY <2>1, <2>2
<1>5. ASSUME Swap(fr), Gives(Do(n)), Top.left > 1
      PROVE  /\ ShapeOK(ctl', now', V) /\ FailedOK(ctl', now', slots') /\ EndOK'
             /\ \A x : Held(ctl', now', x) <=> Held(ctl, now, x)
  <2>1. Top \in [f : {"for"}, body : Nodes, left : Nat, sptr : Nat, sptrclean : BOOLEAN]
    BY <1>2 DEF ForFrame
  <2>2. Top.left - 1 \in Nat
    BY <1>5, <2>1
  <2>3. fr \in ForFrame /\ fr.f = "for" /\ fr.body = Top.body
    BY <2>1, <2>2 DEF ForFrame
  <2>4. fr \in Frame /\ n \in Nodes
    BY <2>1, <2>3 DEF Frame, Plain
  <2>5. n.op # "decl"
    BY <1>1, TopScope DEF CodeOK
  <2>6. Needs(n, V) \subseteq V[n] /\ NodeOK(n, V) /\ Scope(Top, V) = V[n]
    BY <1>1, <2>4, NodeParts DEF Scope
  <2>7. fr.body = n
    BY <2>3
  <2> HIDE DEF fr, n
  <2>8. Scope(fr, V) = V[n] /\ CodeOK(fr, V) /\ ~Closes(fr)
    BY <2>3, <2>5, <2>7 DEF Scope, CodeOK, Closes
  <2> QED BY <1>1, <1>3, <1>5, <2>3, <2>4, <2>5, <2>6, <2>8, SwapOwner
<1>6. /\ ShapeOK(ctl', now', V) /\ FailedOK(ctl', now', slots') /\ EndOK'
      /\ \A x : Held(ctl', now', x) <=> Held(ctl, now, x)
  <2>1. Gives(Ok(None)) => now'.k = "ok"
    BY DEF Gives, Ok
  <2>2. UNCHANGED now => now'.k \in {"ok", "throw"}
    BY <1>1
  <2> HIDE DEF fr
  <2> QED BY <1>1, <1>4, <1>5, <2>1, <2>2
<1>7. OwnedOK(ctl, now, lists, heap, slots)
  BY DEF OwnerInv
<1>8. CASE Top.sptrclean
  <2>1. heap' = Delete(Swept(where) \cup {}) /\ lists' = Cleaned(where)
    BY <1>1, <1>2, <1>8 DEF clean
  <2>2. OwnedOK(ctl', now', lists', heap', slots')
    BY <1>1, <1>6, <1>7, <2>1, OwnedSweep
  <2> QED BY <1>6, <2>2 DEF OwnerInv
<1>9. CASE ~Top.sptrclean
  <2>1. UNCHANGED <<lists, heap, slots>>
    BY <1>1, <1>9
  <2> QED BY <1>6, <2>1, SteadyOwner
<1> QED BY <1>8, <1>9

LEMMA OwnerCaught ==
  ASSUME NEW V, Scoped(V), FrameInv, OwnerInv(V), Caught
  PROVE  OwnerInv(V)'
<1> DEFINE base == {Top.node.ins[j].v : j \in {j \in 1 .. Len(Top.node.ins) : Top.node.ins[j].op = "decl"}}
           n    == [Block(Top.node.handler) EXCEPT !.base = base]
<1>1. ctl # <<>> /\ Top.f = "try" /\ Pop /\ Gives(Do(n)) /\ UNCHANGED <<lists, heap, slots>>
  BY DEF Caught, In
<1>2. Top.node \in Nodes /\ Top.node.op = "try"
  BY <1>1, TopOK, Tags DEF TryFrame
<1>3. /\ NoDecl(Top.node.ins) /\ Apart(Top.node.handler, V)
      /\ VarsOf(Top.node.handler, V) \subseteq V[Top.node]
  BY <1>2 DEF Scoped
<1>4. base = {}
  BY <1>3 DEF NoDecl
<1> HIDE DEF base
<1>5. n.op = "block" /\ n.ins = Top.node.handler /\ n.base = {}
  BY <1>4 DEF Block
<1> HIDE DEF n
<1>6. Needs(n, V) = VarsOf(Top.node.handler, V) /\ NodeOK(n, V) /\ n.op # "decl"
  BY <1>3, <1>5 DEF Needs, NodeOK
<1>7. Scope(Top, V) = V[Top.node] /\ ~Closes(Top)
  BY <1>1 DEF Scope, Closes
<1>8. ctl' = Front(ctl) /\ now'.k = "do" /\ now'.node = n /\ Top = Last(ctl)
  BY <1>1 DEF Pop, Gives, Do, Top
<1>9. ShapeOK(ctl, now, V) /\ ctl \in Seq(Frame)
  BY DEF OwnerInv, FrameInv, StackOK
<1>10. ShapeOK(ctl', now', V)
  BY <1>1, <1>3, <1>6, <1>7, <1>8, <1>9, ShapeCaught
<1>11. \A x : Held(ctl', now', x) <=> Held(ctl, now, x)
  BY <1>1, <1>7, UnderOwner
<1>12. FailedOK(ctl', now', slots') /\ EndOK'
  BY <1>8 DEF FailedOK, EndOK
<1> QED BY <1>1, <1>10, <1>11, <1>12, SteadyOwner

LEMMA OwnerEnd ==
  ASSUME NEW V, FrameInv, OwnerInv(V), End
  PROVE  OwnerInv(V)'
<1>1. ctl = <<>> /\ ctl' = ctl /\ slots' = slots /\ now'.k \in {"end", "failed"} /\ 1 .. Len(ctl) = {}
  BY DEF End, Gives, Exits
<1>2. ShapeOK(ctl', now', V)
  BY <1>1, ShapeStay DEF OwnerInv
<1>3. FailedOK(ctl', now', slots')
  BY <1>1 DEF FailedOK
<1>4. \A x : Held(ctl', now', x) <=> Held(ctl, now, x)
  BY <1>1 DEF Held
<1>5. CASE clean(0, {})
  <2>1. where = 0 /\ MemoryOK(lists, heap, slots) /\ Rooted(lists, where)
    BY <1>1 DEF FrameInv, StackOK, Based, HeldOK
  <2>2. Within(0) = {n \in DOMAIN lists : 0 <= n}
    BY <2>1, WithinIsYounger
  <2>3. PICK m \in Nat : DOMAIN lists = 0 .. m
    BY <2>1 DEF MemoryOK
  <2>4. Within(0) = DOMAIN lists
    <3>1. \A k \in DOMAIN lists : 0 <= k
      BY <2>3
    <3> QED BY <2>2, <3>1
  <2>5. lists' = Cleaned(0) /\ heap' = Delete(Swept(where) \cup {}) /\ lists' = Cleaned(where)
    BY <1>5, <2>1 DEF clean
  <2>6. \A l \in DOMAIN lists' : lists'[l].objects = {}
    BY <2>4, <2>5 DEF Cleaned, NewItems
  <2>7. EndOK'
    BY <1>1, <2>6 DEF EndOK
  <2>8. OwnedOK(ctl, now, lists, heap, slots)
    BY DEF OwnerInv
  <2>9. OwnedOK(ctl', now', lists', heap', slots')
    BY <1>1, <1>4, <2>5, <2>8, OwnedSweep
  <2> QED BY <1>2, <1>3, <2>7, <2>9 DEF OwnerInv
<1>6. CASE now'.k = "failed" /\ UNCHANGED <<lists, heap>>
  <2>1. EndOK'
    BY <1>1, <1>6 DEF EndOK
  <2> QED BY <1>1, <1>2, <1>3, <1>4, <1>6, <2>1, SteadyOwner
<1>7. clean(0, {}) \/ (now'.k = "failed" /\ UNCHANGED <<lists, heap>>)
  BY DEF End, Gives, Exits
<1> QED BY <1>5, <1>6, <1>7

LEMMA OwnerInit ==
  ASSUME NEW V, Scoped(V), Init
  PROVE  OwnerInv(V)
<1>1. PICK p \in Programs : now = Do(Block(p))
  BY DEF Init
<1>2. /\ now.k = "do" /\ now.node.op = "block" /\ now.node.ins = p /\ now.node.base = {}
      /\ Apart(p, V)
  BY <1>1 DEF Do, Block, Scoped
<1>3. /\ ctl = <<>> /\ Len(ctl) = 0 /\ lists = [l \in {0} |-> NewItems]
      /\ heap = [o \in Objects |-> None] /\ slots = [v \in Variables |-> None]
  BY DEF Init
<1>4. 1 .. Len(ctl) = {} /\ 1 .. Len(ctl) - 1 = {}
  BY <1>3
<1>5. ShapeOK(ctl, now, V)
  BY <1>2, <1>3, <1>4 DEF ShapeOK, Scopes, Inside, NodeOK, Starts
<1>6. \A x : ~Held(ctl, now, x)
  BY <1>4 DEF Held
<1>7. \A o \in Objects : heap[o] = None /\ heap[o] # 0
  BY <1>3, MemoryAssumption
<1>8. \A x \in Variables : slots[x] = None
  BY <1>3
<1>9. OwnedOK(ctl, now, lists, heap, slots)
  BY <1>6, <1>7, <1>8 DEF OwnedOK
<1>10. FailedOK(ctl, now, slots) /\ EndOK
  BY <1>2, <1>3 DEF FailedOK, EndOK
<1> QED BY <1>5, <1>9, <1>10 DEF OwnerInv

LEMMA OwnerStutter ==
  ASSUME NEW V, OwnerInv(V), UNCHANGED vars
  PROVE  OwnerInv(V)'
<1>1. /\ ctl' = ctl /\ now' = now /\ lists' = lists /\ heap' = heap /\ slots' = slots
  BY DEF vars
<1> QED BY <1>1 DEF OwnerInv, EndOK

LEMMA OwnerNext ==
  ASSUME NEW V, Scoped(V), FrameInv, EnoughMemory, FailsFirst, OwnerInv(V), [Next]_vars
  PROVE  OwnerInv(V)'
  BY OwnerTemp, OwnerFail, OwnerLeft, OwnerRight, OwnerPlus, OwnerCall, OwnerReturn, OwnerRoutineFails,
     OwnerReturnExpr, OwnerReturnValue, OwnerDeclare, OwnerInitialise, OwnerUnwind, OwnerStart,
     OwnerNextInst, OwnerEndOfList, OwnerLeaveList, OwnerFor, OwnerTurn, OwnerLoopFails, OwnerTry,
     OwnerCaught, OwnerTryEnds, OwnerEnd, OwnerStutter
  DEF Next, Done

LEMMA OwnerOnce ==
  ASSUME NEW V, OwnerInv(V)
  PROVE  DeletedOnce
<1>1. OwnedOK(ctl, now, lists, heap, slots) /\ EndOK
  BY DEF OwnerInv
<1>2. \A o \in Objects : heap[o] # None => heap[o] <= 1
  BY <1>1 DEF OwnedOK
<1>3. ASSUME Given("end"), NEW o \in Objects
      PROVE  heap[o] # 0
  <2>1. /\ Len(ctl) = 0 /\ \A m \in DOMAIN lists : lists[m].objects = {}
    BY <1>1, <1>3 DEF EndOK, Given
  <2>2. \A x : ~Held(ctl, now, x)
    BY <2>1 DEF Held
  <2>3. o # None
    BY MemoryAssumption
  <2> SUFFICES ASSUME heap[o] = 0
               PROVE  FALSE
    OBVIOUS
  <2>4. PICK x \in Variables : slots[x] = o
    BY <1>1, <2>1 DEF OwnedOK
  <2> QED BY <1>1, <2>2, <2>3, <2>4 DEF OwnedOK
<1> QED BY <1>2, <1>3 DEF DeletedOnce

(* When a variable is declared at one place of its block and not again     *)
(* before the block has ended, nor in the body of a try (Scoped), and an   *)
(* initial value that fails is that of a variable which never had one      *)
(* (FailsFirst), no object is deleted twice and a script that ends leaves  *)
(* none (DeletedOnce): what a block counts as declared when it ends or is  *)
(* left (lsldel, vectorOfInst::eval) is what it has given a value, and it  *)
(* is in no list of temporaries.                                           *)
THEOREM DeletedOnceCorrect ==
  ASSUME NEW V, Scoped(V)
  PROVE  Spec /\ []EnoughMemory /\ []FailsFirst => []DeletedOnce
<1>1. Init => FrameInv /\ OwnerInv(V)
  BY FrameInvInit, OwnerInit
<1>2. FrameInv /\ OwnerInv(V) /\ EnoughMemory /\ FailsFirst /\ [Next]_vars => (FrameInv /\ OwnerInv(V))'
  BY FrameInvNext, OwnerNext
<1>3. FrameInv /\ OwnerInv(V) => DeletedOnce
  BY OwnerOnce
<1> QED BY <1>1, <1>2, <1>3, PTL DEF Spec

=============================================================================
