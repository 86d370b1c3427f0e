------------------------- MODULE MCCacheStoreAsync -------------------------
(* CacheStoreAsync on small instances. *)
EXTENDS CacheStoreAsync

CONSTANTS k1, k2

(* An earlier process left a value for k1. *)
OldDisk == [k \in Keys |-> IF k = k1 THEN 0 ELSE None]

=============================================================================
