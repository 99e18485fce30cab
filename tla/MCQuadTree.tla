------------------------------ MODULE MCQuadTree ------------------------------
(* Tasks for TLC, in a tree of side 8 over places of 0 .. 15, and cells to  *)
(* search for in the quarters, at their borders and outside of the tree.    *)
EXTENDS QuadTree

(* A mesh with four places in the first quarter, two of them in one cell,   *)
(* and two in other quarters.                                               *)
Crowd == {<<0, 0>>, <<1, 1>>, <<2, 1>>, <<6, 7>>, <<8, 8>>, <<15, 2>>}

(* Meshes that match: being close is transitive, and six vertices are kept, *)
(* five of them in the first quarter (four, with <<8, 8>>), which is then   *)
(* an inner box beside the leaf of <<15, 15>>.  <<7, 7>> and <<8, 8>> are   *)
(* close across the middle of the tree, <<3, 0>> and <<4, 0>> across that   *)
(* of the first quarter.                                                    *)
Corner   == {<<3, 0>>, <<0, 7>>, <<0, 3>>, <<4, 4>>, <<7, 7>>, <<15, 15>>}
AtMiddle == Corner \cup {<<8, 8>>}
InCorner == Corner \cup {<<4, 0>>}

(* <<8, 8>> is close to two places that are not close to each other, in two *)
(* quarters; the tree is split when both of these are kept.                 *)
Chain == {<<6, 6>>, <<8, 8>>, <<10, 9>>, <<0, 0>>, <<15, 0>>, <<0, 15>>}

MCTasks == {[glue |-> FALSE, seuil |-> 4, places |-> Crowd],
            [glue |-> TRUE, seuil |-> 4, places |-> AtMiddle],
            [glue |-> TRUE, seuil |-> 4, places |-> InCorner],
            [glue |-> TRUE, seuil |-> 4, places |-> Chain]}

MCAsked == {<<3, 3>>, <<2, 5>>, <<7, 1>>, <<-1, 8>>}
==============================================================================
