-------------------------- MODULE MCCacheStoreFast --------------------------
(* CacheStoreFast on small instances. *)
EXTENDS CacheStoreFast

CONSTANTS k1, k2, k3, k4, t1, t2

(* Every value has one byte, but that of the second put exceeds MaxL1. *)
Sizes(v) == IF v = 2 THEN 4 ELSE 1

(* Threads are alike, and so are the keys that have a file to begin with. *)
Alike == {f @@ g : f \in Permutations(Threads), g \in Permutations(Disk0)}

=============================================================================
