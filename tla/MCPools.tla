------------------------------- MODULE MCPools -------------------------------
(* The three page pools on small instances; a behaviour is of one of them. *)
EXTENDS PagePoolFast, PagePool, PagePoolNUMA, TLC

CONSTANTS a, b, c, Kinds

VARIABLE kind

allVars == <<vars, mutexVars, numaVars, kind>>

(* Threads that only free are alike. *)
FreersAlike == Permutations(Threads \ (Allocators \cup Scanners))

MCInit == kind \in Kinds /\ Init /\ PoolInit /\ NumaInit

MCNext ==
    /\ \/ kind = "fast" /\ Next /\ UNCHANGED <<mutexVars, numaVars>>
       \/ kind = "mutex" /\ PoolNext /\ UNCHANGED <<vars, numaVars>>
       \/ kind = "numa" /\ NumaNext /\ UNCHANGED <<vars, mutexVars>>
    /\ UNCHANGED kind

MCSpec == MCInit /\ [][MCNext]_allVars

=============================================================================
