----------------------------- MODULE MCHashTable -----------------------------
(* A table of two buckets: k1 and k2 collide, k3 is alone.  k1 and k3 are too    *)
(* long to be stored: k1 is found again by HtClear, k3 is not.                   *)
EXTENDS HashTable, TLC

CONSTANTS k1, k2, k3

MCHtHash == k1 :> 0 @@ k2 :> 0 @@ k3 :> 1
MCKeys == {k1, k2, k3}

NodeSymmetry == Permutations(Nodes)
=============================================================================
