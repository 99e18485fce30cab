---------------------------- MODULE MCPlotStream ----------------------------
(* Plots for TLC: each option alone, and items of every kind. *)
EXTENDS PlotStream

I(w, m)  == [what |-> w, mesh |-> m]
P(a, it) == [args |-> a, items |-> it]

(* 3 (wait) is written by every plot command. *)
Options == {<<3>>} \cup {SetToSortSeq({3, k}, <) : k \in 0 .. 45}

(* One item of each code, set or not if that is asked; two meshes of a kind in either order *)
(* of their addresses; and all the kinds together.                         *)
Single == {<<I(w, 1)>> : w \in DOMAIN OnMesh}
  \cup {<<I(w, 0)>> : w \in DOMAIN OnMesh \ SentUnasked}
  \cup {<<I(w, 0)>> : w \in {curve, border, hmatrix}}
Pairs == {<<I(v, a), I(w, b), I(v, b)>> : v, w \in {0, 1, 5, 6}, a, b \in {1, 2}}
Mixed == {SelectSeq(<<I(0, 1), I(5, 2), I(8, 3), I(55, 4), I(curve, 0)>>,
                    LAMBDA x : x.what \in S) : S \in SUBSET {0, 5, 8, 55, curve}}

MCScripts ==
  {<<P(a, <<I(1, 1)>>)>> : a \in Options}
  \cup {<<P(<<3>>, s)>> : s \in Single \cup Pairs \cup Mixed}
  \cup {<<P(<<1, 3>>, s), P(<<3, 40>>, <<I(1, 2)>>)>> : s \in Mixed}

FewScripts == {<<P(<<0, 3>>, <<I(border, 0)>>), P(<<3>>, <<I(1, 1)>>)>>}
==============================================================================
