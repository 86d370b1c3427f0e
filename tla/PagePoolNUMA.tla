---------------------------- MODULE PagePoolNUMA ----------------------------
(***************************************************************************)
(* The NUMA-aware pool of src/pool_numa.cpp: one PagePoolFast per node,    *)
(* whose pages have an id of the node and a global one.                    *)
(*                                                                         *)
(* PagePoolFast is sound only if the calls of alloc and leak_scan come     *)
(* from one thread (see PagePoolFast, which has the steps in detail, and   *)
(* the run pool_aba), and PagePoolNUMA adds no lock: one thread, Leader,   *)
(* makes these calls here and any number of threads free.  A node's pool   *)
(* is a set of pages, which alloc, free_pages and leak_scan take and give  *)
(* one at a time.  Callers touch what they hold in time, so touch changes  *)
(* nothing here and leak_scan finds pages that were lost.                  *)
(***************************************************************************)
EXTENDS Integers, FiniteSets, FiniteSetsExt

CONSTANTS
    Workers,        \* threads
    Leader,         \* the one that calls alloc and leak_scan
    NNodes,         \* n_nodes_
    PagesPerNode,   \* pages_per_node_
    MaxRequest      \* bound: pages asked for in one call

ASSUME NumaAssumption ==
    /\ Leader \in Workers
    /\ {NNodes, PagesPerNode, MaxRequest} \subseteq Nat \ {0}

Nodes  == 0 .. NNodes - 1
Locals == 0 .. PagesPerNode - 1
Gids   == 0 .. NNodes * PagesPerNode - 1

VARIABLES
    nfree,    \* nfree[i]: the free pages of node i's pool
    npc,      \* where each thread is
    node,     \* alloc: node
    at,       \* alloc, leak_scan: the node whose pool is called
    asked,    \* alloc: n
    hand,     \* local ids that the call on node at has taken: out, orphan
    missed,   \* those freed since it began, which alloc may not see
    batch,    \* batch[t]: free_pages: global ids not given back yet
    gids,     \* global ids that callers hold
    astray    \* pages nobody will free

leaderVars == <<node, at, asked, hand, missed>>
numaVars   == <<nfree, npc, leaderVars, batch, gids, astray>>

NumaInit ==
    /\ nfree = [i \in Nodes |-> Locals]
    /\ npc = [t \in Workers |-> "idle"]
    /\ node = 0 /\ at = 0 /\ asked = 0
    /\ hand = {} /\ missed = {}
    /\ batch = [t \in Workers |-> {}]
    /\ gids = {} /\ astray = {}

global_id(i, l) == i * PagesPerNode + l

(* Mutant: quotient and remainder swapped. *)
SplitSwapped(g) == <<g % PagesPerNode, g \div PagesPerNode>>

split(g) == <<g \div PagesPerNode, g % PagesPerNode>>

NGoto(t, l) == npc' = [npc EXCEPT ![t] = l]

(* The end of the leader's call; its locals are gone. *)
NReturn ==
    /\ NGoto(Leader, "idle")
    /\ node' = 0 /\ at' = 0 /\ asked' = 0
    /\ hand' = {} /\ missed' = {}

-----------------------------------------------------------------------------
(* alloc *)

(* The thread's node, or one for its number if the system names none. *)
numa_alloc(n, current, tid) ==
    LET i == IF current \in Nodes THEN current ELSE tid % NNodes
    IN  /\ npc[Leader] = "idle"
        /\ asked' = n /\ node' = i /\ at' = i
        /\ NGoto(Leader, "take")
        /\ UNCHANGED <<nfree, hand, missed, batch, gids, astray>>

(* PagePoolFast::alloc on the node pops a page, *)
NodePop(l) ==
    /\ npc[Leader] = "take"
    /\ Cardinality(hand) < asked
    /\ l \in nfree[at]
    /\ nfree' = [nfree EXCEPT ![at] = @ \ {l}]
    /\ hand' = hand \cup {l}
    /\ UNCHANGED <<npc, node, at, asked, missed, batch, gids, astray>>

(* and succeeds when it has enough: alloc returns the global ids. *)
NodeAlloc ==
    /\ npc[Leader] = "take"
    /\ Cardinality(hand) = asked
    /\ gids' = gids \cup {global_id(at, l) : l \in hand}
    /\ NReturn
    /\ UNCHANGED <<nfree, batch, astray>>

(* It fails when it has found every shard empty, and gives everything      *)
(* back.  A page pushed to a shard after its turn goes unseen.             *)
NodeShort ==
    /\ npc[Leader] = "take"
    /\ Cardinality(hand) < asked
    /\ nfree[at] \subseteq missed
    /\ NGoto(Leader, "return")
    /\ UNCHANGED <<nfree, leaderVars, batch, gids, astray>>

(* What a failed alloc took, or a leak_scan found, is pushed. *)
NodePush(l) ==
    /\ npc[Leader] \in {"return", "reclaim"}
    /\ l \in hand
    /\ nfree' = [nfree EXCEPT ![at] = @ \cup {l}]
    /\ hand' = hand \ {l}
    /\ UNCHANGED <<npc, node, at, asked, missed, batch, gids, astray>>

(* After that, on to the next other node, the first after the thread's     *)
(* own; after the last one, alloc returns nothing.                         *)
NodeNext ==
    LET alts == {i \in Nodes \ {node} : at = node \/ i > at}
    IN  /\ npc[Leader] = "return"
        /\ hand = {}
        /\ \/ alts = {} /\ NReturn
           \/ /\ alts # {}
              /\ NGoto(Leader, "take")
              /\ at' = Min(alts)
              /\ missed' = {}
              /\ UNCHANGED <<node, asked, hand>>
        /\ UNCHANGED <<nfree, batch, gids, astray>>

-----------------------------------------------------------------------------
(* free_pages *)

numa_free_pages(t, G) ==
    /\ npc[t] = "idle"
    /\ batch' = [batch EXCEPT ![t] = G]
    /\ gids' = gids \ G
    /\ NGoto(t, "free")
    /\ UNCHANGED <<nfree, leaderVars, astray>>

(* A page of the next node's share, per[n], is pushed. *)
NodeFree(t, g) ==
    LET i == split(g)[1]
        l == split(g)[2]
    IN  /\ npc[t] = "free"
        /\ g \in batch[t]
        /\ \A x \in batch[t] : i <= split(x)[1]
        /\ nfree' = [nfree EXCEPT ![i] = @ \cup {l}]
        /\ missed' = IF npc[Leader] = "take" /\ at = i THEN missed \cup {l} ELSE missed
        /\ batch' = [batch EXCEPT ![t] = @ \ {g}]
        /\ NGoto(t, IF batch[t] = {g} THEN "idle" ELSE "free")
        /\ UNCHANGED <<node, at, asked, hand, gids, astray>>

-----------------------------------------------------------------------------
(* leak_scan *)

numa_leak_scan ==
    /\ npc[Leader] = "idle"
    /\ at' = 0
    /\ NGoto(Leader, "scan")
    /\ UNCHANGED <<nfree, node, asked, hand, missed, batch, gids, astray>>

(* PagePoolFast::leak_scan on the node collects lost pages that have been  *)
(* lost for long enough, which NodePush then pushes.                       *)
NodeScan(S) ==
    /\ npc[Leader] = "scan"
    /\ hand' = S
    /\ astray' = astray \ {global_id(at, l) : l \in S}
    /\ NGoto(Leader, "reclaim")
    /\ UNCHANGED <<nfree, node, at, asked, missed, batch, gids>>

(* One node after the other. *)
NodeScanned ==
    /\ npc[Leader] = "reclaim"
    /\ hand = {}
    /\ IF at + 1 \in Nodes
       THEN /\ at' = at + 1
            /\ NGoto(Leader, "scan")
            /\ UNCHANGED <<node, asked, hand, missed>>
       ELSE NReturn
    /\ UNCHANGED <<nfree, batch, gids, astray>>

-----------------------------------------------------------------------------

LosePage(g) ==
    /\ g \in gids
    /\ gids' = gids \ {g}
    /\ astray' = astray \cup {g}
    /\ UNCHANGED <<nfree, npc, leaderVars, batch>>

NumaNext ==
    \/ \E n \in 1 .. MaxRequest, current \in -1 .. NNodes, tid \in 0 .. NNodes :
           numa_alloc(n, current, tid)
    \/ NodeAlloc \/ NodeShort \/ NodeNext
    \/ \E l \in Locals : NodePop(l) \/ NodePush(l)
    \/ \E t \in Workers : \E G \in SUBSET gids \ {{}} : numa_free_pages(t, G)
    \/ \E t \in Workers : \E g \in batch[t] : NodeFree(t, g)
    \/ numa_leak_scan \/ NodeScanned
    \/ \E S \in SUBSET {l \in Locals : global_id(at, l) \in astray} : NodeScan(S)
    \/ \E g \in gids : LosePage(g)

NumaSpec == NumaInit /\ [][NumaNext]_numaVars

-----------------------------------------------------------------------------
(* Properties *)

(* Page l of node i is page i * PagesPerNode + l of the pool. *)
HomeOf(g) == CHOOSE h \in Nodes \X Locals : g = h[1] * PagesPerNode + h[2]

(* Every page is in one place, and if that is a pool, in that of its node: *)
(* the ids callers hold are pages that no pool and no call has, however    *)
(* frees of other threads come in between the steps of an alloc that goes  *)
(* from node to node or of a leak_scan.                                    *)
PagesGoHome ==
    \A g \in Gids :
        LET h == HomeOf(g)
            inPool == {i \in {h[1]} : h[2] \in nfree[i]}
            inHand == {i \in {h[1]} : at = i /\ h[2] \in hand}
            given == {t \in Workers : g \in batch[t]}
        IN  Cardinality(inPool) + Cardinality(inHand) + Cardinality(given)
              + Cardinality({g} \cap gids) + Cardinality({g} \cap astray) = 1

=============================================================================
