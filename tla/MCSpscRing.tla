----------------------------- MODULE MCSpscRing -----------------------------
(* A ring of MaxSize slots checked for every interleaving of one pushing    *)
(* and one popping thread; the elements are interchangeable.                *)
EXTENDS SpscRing, TLC

MCSymmetry == Permutations(Elems)
=============================================================================
