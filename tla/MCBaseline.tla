----------------------------- MODULE MCBaseline -----------------------------
(***************************************************************************)
(* A small pair of trees: a file of two blocks and one of one block, in    *)
(* two directories.                                                        *)
(***************************************************************************)
EXTENDS Baseline, TLC

CONSTANTS d1, d2, f, g, f1, f2, g1, x, y, z

MCDirOf == f :> d1 @@ g :> d2
MCFileOf == f1 :> f @@ f2 :> f @@ g1 :> g

\* The copy is complete; or the player has a file besides; or one file differs.
Complete == f1 :> x @@ f2 :> x @@ g1 :> x
Smaller == f1 :> x @@ f2 :> x @@ g1 :> Absent
Other == f1 :> x @@ f2 :> y @@ g1 :> x
Pair(a, b) == [s \in Sides |-> IF s = "source" THEN a ELSE b]
MCStart == {Pair(Complete, Complete), Pair(Smaller, Smaller), Pair(Other, Complete)}
=============================================================================
