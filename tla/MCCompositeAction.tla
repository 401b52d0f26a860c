--------------------------- MODULE MCCompositeAction ---------------------------
(* Three workflows of a type each, the first of them being published, and a *)
(* request with a child, which may both be within a run of the third.       *)
EXTENDS CompositeAction, TLC

CONSTANTS w1, w2, w3, t1, t2, t3, r1, r2

MCTypesOf == (w1 :> {t1}) @@ (w2 :> {t2}) @@ (w3 :> {t3})
MCParent == (r1 :> None) @@ (r2 :> r1)
MCAsks == (r1 :> {t2}) @@ (r2 :> Types)
MCBefore == {[depth |-> 0, ancestry |-> {w3}]}
MCSymmetry == Permutations(Calls) \cup Permutations(Contents)
=============================================================================
