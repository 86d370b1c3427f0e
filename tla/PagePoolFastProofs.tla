------------------------- MODULE PagePoolFastProofs -------------------------
(***************************************************************************)
(* Theorems about PagePoolFast, for every number of pages, shards and      *)
(* threads, as long as the calls of alloc, touch and leak_scan come from   *)
(* one thread at most.  That is needed: with two allocators a pop may      *)
(* install a stale link (the run pool_aba), and a scan beside an allocator *)
(* takes pages stamped after it read the time.                             *)
(***************************************************************************)
EXTENDS PagePoolFast, WellFoundedInduction, TLAPS

(* One thread at most allocates, touches and scans, as under mtx_ of the   *)
(* scheduler.                                                              *)
SingleAllocator == \A t, u \in Allocators \cup Scanners : t = u

-----------------------------------------------------------------------------
(* The inductive invariant *)

(* A thread has local state only for the call it is in.  What makes a      *)
(* lone allocator safe: the page it read as top stays on its stack, so     *)
(* that the link it read stays true, until its own compare-and-swap.       *)
ThreadOK(t) ==
    /\ pc[t] \in {"load", "shard", "next", "pop", "stamp"} => t \in Allocators
    /\ pc[t] = "touch" => t \in Allocators
    /\ pc[t] = "scan" => t \in Scanners
    /\ pc[t] \in {"idle", "clear", "head", "link", "push", "touch", "scan"} => out[t] = {}
    /\ pc[t] \notin {"clear", "head", "link", "push", "touch"} => todo[t] = {}
    /\ pc[t] \in {"next", "pop"} => top[t] \in Free
    /\ pc[t] = "pop" => nxt[t] = next[top[t]]
    /\ pc[t] = "push" => next[id[t]] = top[t]

(* The stacks do not share pages: every free page is the top of one stack  *)
(* or the successor of one free page, and not both.                        *)
StacksApart ==
    /\ \A p, q \in Free : next[p] = next[q] /\ next[p] # Nil => p = q
    /\ \A p \in Free, h \in Shards : next[p] = heads[h] => heads[h] = Nil
    /\ \A h, g \in Shards : heads[h] = heads[g] /\ heads[h] # Nil => h = g

(* What is not yet held is stamped, what is about to be pushed is not. *)
StampsInHand ==
    \A t \in Threads :
        /\ \A p \in out[t] : stamp[p] # 0
        /\ pc[t] = "touch" => \A p \in todo[t] : stamp[p] # 0
        /\ pc[t] \in {"head", "link", "push"} => stamp[id[t]] = 0
        /\ pc[t] \in {"load", "shard", "next", "pop", "stamp", "touch"} <=> ts[t] # 0

(* No stamp is of the future, and none in use is older than the time to    *)
(* live.  (What a scanning thread frees is, and nobody else sees it.)      *)
(* While a scan runs, no stamp is later than the time it read: the only    *)
(* thread that stamps pages is the one that scans.                         *)
InTime ==
    /\ \A p \in Pages : stamp[p] <= clock
    /\ \A p \in held : clock - stamp[p] <= TtlUs
    /\ \A t \in Threads :
          /\ ts[t] <= clock /\ now[t] <= clock
          /\ ts[t] # 0 => clock - ts[t] <= TtlUs
          /\ \A p \in out[t] : clock - stamp[p] <= TtlUs
          /\ t \notin Scanners \/ pc[t] = "touch"
                => \A p \in todo[t] : stamp[p] # 0 => clock - stamp[p] <= TtlUs
          /\ pc[t] = "scan" => \A p \in Pages : stamp[p] <= now[t]
          /\ pc[t] # "scan" => orphan[t] = {}

(* The pages are where PagesConserved says, and stacks and locals are such *)
(* that they stay there.                                                   *)
PoolInv ==
    /\ PagesConserved
    /\ \A t \in Threads : ThreadOK(t)
    /\ StacksApart

(* Stamps tell the truth, of the pages in a call too, and in time. *)
StampInv == StampsTellTruth /\ StampsInHand /\ InTime

-----------------------------------------------------------------------------
(* Arithmetic of shards *)

(* shard() yields a shard, and pages of one shard are at least NShards     *)
(* apart.                                                                  *)
LEMMA ShardStep ==
    ASSUME NEW p \in Nat, NEW r \in Nat, shard(p) = shard(r), p < r
    PROVE  p + NShards <= r
<1> DEFINE dp == p \div NShards
           dr == r \div NShards
<1>1. /\ dp \in Int /\ p = NShards * dp + (p % NShards)
      /\ dr \in Int /\ r = NShards * dr + (r % NShards)
  BY PoolAssumption
<1>2. r - p = NShards * (dr - dp)
  BY <1>1, PoolAssumption DEF shard
<1>3. dr - dp >= 1
  BY <1>1, <1>2, PoolAssumption
<1>4. NShards * (dr - dp) >= NShards
  BY <1>1, <1>3, PoolAssumption
<1> QED
  BY <1>2, <1>4, PoolAssumption

(* shard() yields a shard. *)
LEMMA ShardType ==
    ASSUME NEW p \in Nat
    PROVE  shard(p) \in Shards
BY PoolAssumption DEF shard, Shards

(* The next page of a shard is NShards further, as the constructor links   *)
(* them.                                                                   *)
LEMMA ShardShift ==
    ASSUME NEW p \in Nat
    PROVE  shard(p + NShards) = shard(p)
<1> DEFINE r == p + NShards
           k == (r \div NShards) - (p \div NShards) - 1
           d == (p % NShards) - (r % NShards)
<1>1. /\ r \in Nat /\ k \in Int /\ d \in Int
      /\ p = NShards * (p \div NShards) + (p % NShards)
      /\ r = NShards * (r \div NShards) + (r % NShards)
      /\ -NShards < d /\ d < NShards
  BY PoolAssumption
<1>2. NShards * k = d
  BY <1>1, PoolAssumption
<1>3. k = 0
  <2> HIDE DEF k, d
  <2>1. k >= 1 => NShards * k >= NShards
    BY <1>1, PoolAssumption
  <2>2. k <= -1 => NShards * k <= -NShards
    BY <1>1, PoolAssumption
  <2> QED
    BY <1>1, <1>2, <2>1, <2>2, PoolAssumption
<1>4. d = 0
  BY <1>2, <1>3, PoolAssumption
<1> QED
  BY <1>1, <1>4, PoolAssumption DEF shard

-----------------------------------------------------------------------------
(* What is on the stacks *)

(* Free is itself closed, and so the least closed set. *)
LEMMA FreeClosed ==
    ASSUME TypeOK
    PROVE  Closed(Free) /\ Free \subseteq Pages
<1>1. \A h \in Shards : heads[h] \in Free \cup {Nil}
  BY DEF TypeOK, Free, Closed
<1>2. \A p \in Free : next[p] \in Free \cup {Nil}
  BY DEF TypeOK, Free, Closed
<1> QED
  BY <1>1, <1>2 DEF Closed, Free

(* A push of a page that is on no stack, linked to the top, adds it. *)
LEMMA PushAdds ==
    ASSUME TypeOK, TypeOK', NEW p \in Pages, NEW h \in Shards,
           next[p] = heads[h], next' = next,
           heads' = [heads EXCEPT ![h] = p]
    PROVE  Free' = Free \cup {p}
<1>f. PICK F \in SUBSET Pages : F = Free
  BY DEF Free
<1>1. heads'[h] = p /\ \A g \in Shards : g # h => heads'[g] = heads[g]
  BY DEF TypeOK
<1>2. Free' \subseteq Free \cup {p}
  <2>1. Closed(F \cup {p})'
    BY <1>1, <1>f, FreeClosed DEF Closed
  <2> QED
    BY <2>1, <1>f DEF Free
<1>3. ASSUME NEW S \in SUBSET Pages, Closed(S)'
      PROVE  Free \cup {p} \subseteq S
  <2>1. p \in S
    BY <1>1, <1>3 DEF Closed, Pages, Nil
  <2>2. Closed(S)
    BY <1>1, <1>3, <2>1 DEF Closed
  <2> QED
    BY <2>1, <2>2 DEF Free
<1> QED
  BY <1>2, <1>3, FreeClosed DEF Free

(* A pop that installs the true successor of the top removes the top,      *)
(* because no other link leads to it.                                      *)
LEMMA PopRemoves ==
    ASSUME TypeOK, TypeOK', StacksApart, NEW p \in Pages, NEW h \in Shards,
           heads[h] = p, next' = next,
           heads' = [heads EXCEPT ![h] = next[p]]
    PROVE  Free' = Free \ {p}
<1>f. PICK F \in SUBSET Pages : F = Free
  BY DEF Free
<1>1. heads'[h] = next[p] /\ \A g \in Shards : g # h => heads'[g] = heads[g]
  BY DEF TypeOK
<1>0. p # Nil
  BY DEF Pages, Nil
<1>2. p \in Free
  BY FreeClosed, <1>0 DEF Closed
<1>3. Free' \subseteq Free \ {p}
  <2>1. Closed(F \ {p})'
    <3>1. \A q \in Free : next[q] \in (Free \ {p}) \cup {Nil}
      BY <1>0, FreeClosed DEF Closed, StacksApart
    <3>2. \A g \in Shards : g # h => heads[g] \in (Free \ {p}) \cup {Nil}
      BY <1>0, FreeClosed DEF Closed, StacksApart
    <3> QED
      BY <1>1, <1>2, <1>f, <3>1, <3>2 DEF Closed
  <2> QED
    BY <2>1, <1>f DEF Free
<1>4. ASSUME NEW S \in SUBSET Pages, Closed(S)'
      PROVE  Free \ {p} \subseteq S
  <2>1. Closed(S \cup {p})
    BY <1>1, <1>4 DEF Closed
  <2> QED
    BY <2>1 DEF Free
<1> QED
  BY <1>3, <1>4, FreeClosed DEF Free

(* Writing the link of a page that is on no stack moves nothing. *)
LEMMA LinkKeeps ==
    ASSUME TypeOK, TypeOK', NEW p \in Pages, p \notin Free,
           NEW q, next' = [next EXCEPT ![p] = q], heads' = heads
    PROVE  Free' = Free
<1>f. PICK F \in SUBSET Pages : F = Free
  BY DEF Free
<1>1. \A r \in Pages : r # p => next'[r] = next[r]
  BY DEF TypeOK
<1>2. Free' \subseteq Free
  <2>1. Closed(F)'
    BY <1>1, <1>f, FreeClosed DEF Closed
  <2> QED
    BY <2>1, <1>f DEF Free
<1>3. ASSUME NEW S \in SUBSET Pages, Closed(S)'
      PROVE  Free \subseteq S
  <2>1. Closed(S \cap Free)
    BY <1>1, <1>3, FreeClosed DEF Closed
  <2> QED
    BY <2>1 DEF Free
<1> QED
  BY <1>2, <1>3, FreeClosed DEF Free

(* A nonempty set of pages has a greatest. *)
LEMMA GreatestPage ==
    ASSUME NEW Q \in SUBSET Pages, Q # {}
    PROVE  \E q \in Q : \A r \in Q : r <= q
<1> DEFINE T == {k \in Nat : NPages - 1 - k \in Q}
<1>1. ASSUME NEW q \in Q PROVE NPages - 1 - q \in T
  BY PoolAssumption DEF Pages
<1>2. PICK k \in T : \A j \in T : ~(<<j, k>> \in OpToRel(<, Nat))
  <2> HIDE DEF T
  <2>1. T \subseteq Nat /\ T # {}
    BY <1>1 DEF T
  <2> QED
    BY <2>1, NatLessThanWellFounded, WFMin
<1>3. \A j \in T : ~(j < k)
  BY <1>2 DEF OpToRel
<1>4. ASSUME NEW r \in Q PROVE r <= NPages - 1 - k
  <2>1. ~(NPages - 1 - r < k)
    BY <1>1, <1>3
  <2> QED
    BY <2>1, PoolAssumption DEF Pages
<1> QED
  BY <1>4

(* Initially every page is on the stack of its shard: the greatest page    *)
(* left out would be its shard's top or the successor of one that is not.  *)
LEMMA InitFree ==
    ASSUME Init
    PROVE  Free = Pages
<1> SUFFICES ASSUME NEW S \in SUBSET Pages, Closed(S), NEW z \in Pages, z \notin S
             PROVE  FALSE
  BY DEF Free
<1>4. PICK p \in Pages \ S : \A r \in Pages \ S : r <= p
  BY GreatestPage
<1>5. p \in Nat /\ Pages \subseteq Nat /\ Nil \notin Pages
  BY <1>4, PoolAssumption DEF Pages, Nil
<1>6. CASE p + NShards \in Pages
  <2>1. next[p + NShards] = p
    BY <1>5, <1>6, PoolAssumption DEF Init
  <2> QED
    BY <2>1, <1>4, <1>5, <1>6, PoolAssumption DEF Closed
<1>7. CASE p + NShards \notin Pages
  <2> DEFINE mine == {r \in Pages : shard(r) = shard(p)}
  <2>1. p \in mine /\ \A r \in mine : r <= p
    BY <1>4, <1>5, <1>7, ShardStep, PoolAssumption DEF Pages
  <2>2. heads[shard(p)] = CHOOSE q \in mine : \A r \in mine : r <= q
    BY <1>5, <2>1, ShardType DEF Init
  <2>3. heads[shard(p)] = p
    <3>1. PICK q \in mine : q = heads[shard(p)] /\ \A r \in mine : r <= q
      BY <2>1, <2>2
    <3> QED
      BY <3>1, <2>1, <1>5
  <2> QED
    BY <2>3, <1>4, <1>5, ShardType DEF Closed
<1> QED
  BY <1>6, <1>7

(* The pool as initialized. *)
LEMMA InitPoolInv ==
    ASSUME Init
    PROVE  PoolInv /\ StampInv
<1>0. Pages \subseteq Nat /\ Nil \notin Pages
  BY PoolAssumption DEF Pages, Nil
<1>1. ASSUME NEW h \in Shards, heads[h] # Nil
      PROVE  /\ heads[h] \in Pages /\ shard(heads[h]) = h
             /\ \A r \in Pages : shard(r) = h => r <= heads[h]
  <2> DEFINE mine == {r \in Pages : shard(r) = h}
  <2>1. mine # {} /\ heads[h] = CHOOSE q \in mine : \A r \in mine : r <= q
    BY <1>1 DEF Init
  <2>2. mine \subseteq Nat
    BY <1>0
  <2>3. \E q \in mine : \A r \in mine : r <= q
    BY <2>1, GreatestPage
  <2> QED
    BY <2>1, <2>3
<1>2. TypeOK
  BY <1>0, <1>1, PoolAssumption DEF Init, TypeOK, Locs, Shards, Pages
<1>3. StacksApart
  <2>1. \A p \in Pages : next[p] = IF p < NShards THEN Nil ELSE p - NShards
    BY DEF Init
  <2>2. ASSUME NEW p \in Pages, NEW h \in Shards, next[p] = heads[h], heads[h] # Nil
        PROVE  FALSE
    <3>1. p >= NShards /\ heads[h] \in Nat /\ p = heads[h] + NShards
      BY <1>0, <1>1, <2>1, <2>2, PoolAssumption
    <3>2. shard(p) = h
      BY <3>1, <1>1, <2>2, ShardShift
    <3> QED
      BY <1>0, <1>1, <2>2, <3>1, <3>2, PoolAssumption
  <2>3. \A p, q \in Pages : next[p] = next[q] /\ next[p] # Nil => p = q
    BY <1>0, <2>1, PoolAssumption
  <2>4. \A h, g \in Shards : heads[h] = heads[g] /\ heads[h] # Nil => h = g
    BY <1>1
  <2> QED
    BY <2>2, <2>3, <2>4, InitFree DEF StacksApart
<1>4. PagesConserved
  BY <1>2, InitFree DEF Init, PagesConserved, InHand
<1>5. \A t \in Threads : ThreadOK(t)
  BY DEF Init, ThreadOK
<1>6. StampInv
  BY InitFree, PoolAssumption DEF Init, StampInv, StampsTellTruth, StampsInHand, InTime
<1> QED
  BY <1>3, <1>4, <1>5, <1>6 DEF PoolInv

-----------------------------------------------------------------------------
(* The steps *)

(* Indices stay in range. *)
LEMMA TypeStep ==
    ASSUME PoolInv, [Next]_vars
    PROVE  TypeOK'
<1> USE DEF mem, app, alloc, scan, Goto, FreeBegin, Locs, PagesConserved, PoolInv
<1>0. /\ TypeOK /\ NPages \in Nat /\ NShards \in Nat /\ NShards > 0
      /\ \A p \in Pages : shard(p) \in Shards
      /\ Allocators \subseteq Threads /\ Scanners \subseteq Threads
  BY PoolAssumption, ShardType DEF Pages
<1>1. ASSUME NEW t \in Threads, NEW P \in SUBSET held, FreeCall(t, P) PROVE TypeOK'
  BY <1>0, <1>1 DEF FreeCall, TypeOK
<1>2. ASSUME NEW t \in Threads, NEW p \in todo[t], FreeClear(t, p) PROVE TypeOK'
  BY <1>0, <1>2 DEF FreeClear, TypeOK
<1>3. ASSUME NEW t \in Threads, FreeLoad(t) PROVE TypeOK'
  BY <1>0, <1>3 DEF FreeLoad, TypeOK
<1>4. ASSUME NEW t \in Threads, FreeLink(t) PROVE TypeOK'
  BY <1>0, <1>4 DEF FreeLink, TypeOK
<1>5. ASSUME NEW t \in Threads, FreePush(t) PROVE TypeOK'
  BY <1>0, <1>5 DEF FreePush, TypeOK
<1>6. ASSUME NEW t \in Threads, FreeRetry(t) PROVE TypeOK'
  BY <1>0, <1>6 DEF FreeRetry, TypeOK
<1>7. ASSUME NEW t \in Allocators, NEW n \in Sizes, NEW hash \in Shards,
             AllocCall(t, n, hash)
      PROVE  TypeOK'
  <2>1. n \in Nat /\ hash % NShards \in Shards /\ NShards - 1 \in 0..(NShards - 1)
    BY <1>0, PoolAssumption DEF Shards
  <2> QED
    BY <1>0, <1>7, <2>1 DEF AllocCall, TypeOK
<1>8. ASSUME NEW t \in Allocators, AllocLoad(t) PROVE TypeOK'
  BY <1>0, <1>8 DEF AllocLoad, TypeOK
<1>9. ASSUME NEW t \in Allocators, AllocNextShard(t) PROVE TypeOK'
  <2>1. (s[t] + 1) % NShards \in Shards /\ tries[t] - 1 \in 0..(NShards - 1)
    BY <1>0, <1>9 DEF AllocNextShard, TypeOK, Shards
  <2> QED
    BY <1>0, <1>9, <2>1 DEF AllocNextShard, TypeOK
<1>10. ASSUME NEW t \in Allocators, AllocFail(t) PROVE TypeOK'
  BY <1>0, <1>10 DEF AllocFail, TypeOK
<1>11. ASSUME NEW t \in Allocators, AllocNext(t) PROVE TypeOK'
  BY <1>0, <1>11 DEF AllocNext, TypeOK
<1>12. ASSUME NEW t \in Allocators, AllocPop(t) PROVE TypeOK'
  BY <1>0, <1>12 DEF AllocPop, TypeOK
<1>13. ASSUME NEW t \in Allocators, AllocRetry(t) PROVE TypeOK'
  BY <1>0, <1>13 DEF AllocRetry, TypeOK
<1>14. ASSUME NEW t \in Allocators, AllocStamp(t) PROVE TypeOK'
  BY <1>0, <1>14 DEF AllocStamp, TypeOK
<1>15. ASSUME NEW t \in Scanners, leak_scan(t) PROVE TypeOK'
  <2>1. CASE ScanCall(t)
    BY <1>0, <2>1 DEF ScanCall, TypeOK
  <2>2. CASE ScanLoad(t)
    <3>1. pos[t] \in Pages /\ pos[t] + 1 \in 0..NPages
      BY <1>0, <1>15, <2>2 DEF ScanLoad, TypeOK, Pages
    <3> QED
      BY <1>0, <2>2, <3>1 DEF ScanLoad, TypeOK
  <2>3. CASE ScanFree(t)
    BY <1>0, <2>3 DEF ScanFree, TypeOK
  <2> QED
    BY <1>15, <2>1, <2>2, <2>3 DEF leak_scan
<1>18. ASSUME NEW t \in Allocators, NEW P \in SUBSET held, TouchCall(t, P) PROVE TypeOK'
  BY <1>0, <1>18 DEF TouchCall, TypeOK
<1>19. ASSUME NEW t \in Allocators, NEW p \in todo[t], TouchStore(t, p) PROVE TypeOK'
  BY <1>0, <1>19 DEF TouchStore, TypeOK
<1>20. ASSUME Tick PROVE TypeOK'
  BY <1>0, <1>20 DEF Tick, TypeOK
<1>16. ASSUME NEW p \in held, Lose(p) PROVE TypeOK'
  BY <1>0, <1>16 DEF Lose, TypeOK
<1>17. CASE UNCHANGED vars
  BY <1>0, <1>17 DEF vars, TypeOK
<1> QED
  BY <1>1, <1>2, <1>3, <1>4, <1>5, <1>6, <1>7, <1>8, <1>9, <1>10, <1>11, <1>12,
     <1>13, <1>14, <1>15, <1>16, <1>17, <1>18, <1>19, <1>20
  DEF Next, free_pages, AllocSteps, touch

(* A step that leaves heads_ and next_ alone moves no page on the stacks,  *)
(* and keeps them apart.                                                   *)
LEMMA SameStacks ==
    ASSUME PoolInv, UNCHANGED <<heads, next>>
    PROVE  Free' = Free /\ StacksApart'
<1>1. Free' = Free
  BY DEF Free, Closed
<1> QED
  BY <1>1 DEF PoolInv, StacksApart

(* free_pages: pages go from the application, or a failed alloc, to the    *)
(* thread's hand and from there, one by one, to the stacks.                *)
LEMMA FreeSteps ==
    ASSUME PoolInv, NEW t \in Threads, free_pages(t), TypeOK'
    PROVE  PoolInv'
<1> USE DEF mem, app, alloc, scan, Goto, FreeBegin
<1>0. /\ TypeOK /\ PagesConserved /\ StacksApart /\ \A u \in Threads : ThreadOK(u)
      /\ \A p \in Pages : shard(p) \in Shards
      /\ Nil \notin Pages
  BY PoolAssumption, ShardType DEF Pages, PoolInv, PagesConserved, Nil
<1>1. ASSUME NEW P \in SUBSET held, FreeCall(t, P) PROVE PoolInv'
  <2>1. Free' = Free /\ StacksApart'
    BY <1>1, SameStacks DEF FreeCall
  <2>2. \A u \in Threads : InHand(u)' = IF u = t THEN P ELSE InHand(u)
    BY <1>0, <1>1 DEF FreeCall, InHand, ThreadOK, TypeOK
  <2>3. InHand(t) = {}
    BY <1>0, <1>1 DEF FreeCall, InHand, ThreadOK
  <2>4. PagesConserved'
    BY <1>0, <1>1, <2>1, <2>2, <2>3 DEF PagesConserved, FreeCall
  <2>5. \A u \in Threads : ThreadOK(u)'
    BY <1>0, <1>1, <2>1 DEF ThreadOK, FreeCall, TypeOK
  <2> QED
    BY <2>1, <2>4, <2>5 DEF PoolInv
<1>2. ASSUME NEW p \in todo[t], FreeClear(t, p) PROVE PoolInv'
  <2>1. Free' = Free /\ StacksApart'
    BY <1>2, SameStacks DEF FreeClear
  <2>2. \A u \in Threads : InHand(u)' = InHand(u)
    BY <1>0, <1>2 DEF FreeClear, InHand, TypeOK
  <2>4. PagesConserved'
    BY <1>0, <1>2, <2>1, <2>2 DEF PagesConserved, FreeClear
  <2>5. \A u \in Threads : ThreadOK(u)'
    BY <1>0, <1>2, <2>1 DEF ThreadOK, FreeClear, TypeOK
  <2> QED
    BY <2>1, <2>4, <2>5 DEF PoolInv
<1>3. CASE FreeLoad(t) \/ FreeRetry(t)
  <2>1. Free' = Free /\ StacksApart'
    BY <1>3, SameStacks DEF FreeLoad, FreeRetry
  <2>2. \A u \in Threads : InHand(u)' = InHand(u)
    BY <1>0, <1>3 DEF FreeLoad, FreeRetry, InHand, TypeOK
  <2>4. PagesConserved'
    BY <1>0, <1>3, <2>1, <2>2 DEF PagesConserved, FreeLoad, FreeRetry
  <2>5. \A u \in Threads : ThreadOK(u)'
    BY <1>0, <1>3, <2>1 DEF ThreadOK, FreeLoad, FreeRetry, TypeOK
  <2> QED
    BY <2>1, <2>4, <2>5 DEF PoolInv
<1>4. CASE FreeLink(t)
  <2>0. /\ id[t] \in InHand(t) /\ id[t] \in Pages /\ id[t] \notin Free
        /\ \A u \in Threads : pc[u] = "push" => id[u] \in InHand(u)
    BY <1>0, <1>4 DEF FreeLink, TypeOK, PagesConserved, InHand
  <2>1. Free' = Free
    BY <1>0, <1>4, <2>0, LinkKeeps DEF FreeLink
  <2>a. \A p \in Pages : next'[p] = IF p = id[t] THEN top[t] ELSE next[p]
    BY <1>0, <1>4 DEF FreeLink, TypeOK
  <2>b. Free \subseteq Pages
    BY DEF Free
  <2>2. \A u \in Threads : InHand(u)' = InHand(u)
    BY <1>0, <1>4 DEF FreeLink, InHand, TypeOK
  <2>3. StacksApart'
    BY <1>0, <1>4, <2>0, <2>1, <2>a, <2>b DEF FreeLink, StacksApart
  <2>4. PagesConserved'
    BY <1>0, <1>4, <2>1, <2>2 DEF PagesConserved, FreeLink
  <2>5. ASSUME NEW u \in Threads PROVE ThreadOK(u)'
    <3>1. pc[u] = "push" => id[u] # id[t] /\ id[u] \in Pages
      BY <1>0, <1>4, <2>0 DEF PagesConserved, FreeLink, TypeOK
    <3> QED
      BY <1>0, <1>4, <2>0, <2>1, <2>a, <2>b, <3>1 DEF ThreadOK, FreeLink, TypeOK
  <2> QED
    BY <2>3, <2>4, <2>5 DEF PoolInv
<1>5. CASE FreePush(t)
  <2> DEFINE p == id[t]
             h == shard(p)
  <2>0. /\ p \in InHand(t) /\ p \in todo[t] /\ p \in Pages /\ p \notin Free /\ h \in Shards
        /\ next[p] = heads[h]
    BY <1>0, <1>5 DEF FreePush, TypeOK, PagesConserved, InHand, ThreadOK
  <2>1. Free' = Free \cup {p}
    BY <1>0, <1>5, <2>0, PushAdds DEF FreePush
  <2>a. \A g \in Shards : heads'[g] = IF g = h THEN p ELSE heads[g]
    BY <1>0, <1>5 DEF FreePush, TypeOK
  <2>b. Closed(Free)
    BY <1>0, FreeClosed
  <2>2. \A u \in Threads : InHand(u)' = IF u = t THEN InHand(t) \ {p} ELSE InHand(u)
    BY <1>0, <1>5 DEF FreePush, InHand, TypeOK, ThreadOK
  <2>3. StacksApart'
    <3> HIDE DEF p, h
    <3>1. \A q \in Free : next[q] # p /\ (next[q] = next[p] => next[p] = Nil)
      BY <1>0, <2>0, <2>b DEF Closed, StacksApart
    <3>2. \A g \in Shards : heads[g] # p /\ next[p] # p
      BY <1>0, <2>0, <2>b DEF Closed
    <3> QED
      BY <1>0, <1>5, <2>0, <2>1, <2>a, <3>1, <3>2 DEF FreePush, StacksApart
  <2>4. PagesConserved'
    BY <1>0, <1>5, <2>0, <2>1, <2>2 DEF PagesConserved, FreePush
  <2>5. ASSUME NEW u \in Threads PROVE ThreadOK(u)'
    BY <1>0, <1>5, <2>0, <2>1 DEF ThreadOK, FreePush, TypeOK
  <2> QED
    BY <2>3, <2>4, <2>5 DEF PoolInv
<1> QED
  BY <1>1, <1>2, <1>3, <1>4, <1>5 DEF free_pages

(* alloc: pages go from the stacks to the thread's hand and, once there    *)
(* are enough, to the application.  This is where the allocator must be    *)
(* alone: nobody else relies on the top it pops.                           *)
LEMMA AllocKeeps ==
    ASSUME SingleAllocator, PoolInv, NEW t \in Allocators, AllocSteps(t), TypeOK'
    PROVE  PoolInv'
<1> USE DEF mem, app, alloc, scan, Goto, FreeBegin
<1>0. /\ TypeOK /\ PagesConserved /\ StacksApart /\ \A u \in Threads : ThreadOK(u)
      /\ t \in Threads /\ Nil \notin Pages
  BY PoolAssumption DEF Pages, PoolInv, PagesConserved, Nil
<1>q. ASSUME UNCHANGED <<heads, next, held, lost>>,
             \A u \in Threads : InHand(u)' = InHand(u),
             \A u \in Threads : ThreadOK(u)'
      PROVE  PoolInv'
  <2>1. Free' = Free /\ StacksApart'
    BY <1>q, SameStacks
  <2> QED
    BY <1>0, <1>q, <2>1 DEF PoolInv, PagesConserved
<1>s. UNCHANGED <<heads, next>> => Free' = Free
  BY SameStacks
<1>1. ASSUME NEW n \in Sizes, NEW hash \in Shards, AllocCall(t, n, hash) PROVE PoolInv'
  <2>1. \A u \in Threads : InHand(u)' = InHand(u)
    BY <1>0, <1>1 DEF AllocCall, InHand, TypeOK
  <2>2. \A u \in Threads : ThreadOK(u)'
    BY <1>0, <1>s, <1>1 DEF ThreadOK, AllocCall, TypeOK
  <2> QED
    BY <1>1, <1>q, <2>1, <2>2 DEF AllocCall
<1>2. CASE AllocLoad(t) \/ AllocRetry(t)
  <2>1. \A u \in Threads : InHand(u)' = InHand(u)
    BY <1>0, <1>2 DEF AllocLoad, AllocRetry, InHand, TypeOK
  <2>2. heads[s[t]] = Nil \/ heads[s[t]] \in Free
    BY <1>0, FreeClosed DEF Closed, TypeOK
  <2>3. \A u \in Threads : ThreadOK(u)'
    BY <1>0, <1>s, <1>2, <2>2 DEF ThreadOK, AllocLoad, AllocRetry, TypeOK
  <2> QED
    BY <1>2, <1>q, <2>1, <2>3 DEF AllocLoad, AllocRetry
<1>3. CASE AllocNextShard(t)
  <2>1. \A u \in Threads : InHand(u)' = InHand(u)
    BY <1>0, <1>3 DEF AllocNextShard, InHand, TypeOK
  <2>2. \A u \in Threads : ThreadOK(u)'
    BY <1>0, <1>s, <1>3 DEF ThreadOK, AllocNextShard, TypeOK
  <2> QED
    BY <1>3, <1>q, <2>1, <2>2 DEF AllocNextShard
<1>4. CASE AllocFail(t)
  <2>1. \A u \in Threads : InHand(u)' = InHand(u)
    BY <1>0, <1>4 DEF AllocFail, InHand, TypeOK, ThreadOK
  <2>2. \A u \in Threads : ThreadOK(u)'
    BY <1>0, <1>s, <1>4 DEF ThreadOK, AllocFail, TypeOK
  <2> QED
    BY <1>4, <1>q, <2>1, <2>2 DEF AllocFail
<1>5. CASE AllocNext(t)
  <2>1. \A u \in Threads : InHand(u)' = InHand(u)
    BY <1>0, <1>5 DEF AllocNext, InHand, TypeOK
  <2>2. \A u \in Threads : ThreadOK(u)'
    BY <1>0, <1>s, <1>5 DEF ThreadOK, AllocNext, TypeOK
  <2> QED
    BY <1>5, <1>q, <2>1, <2>2 DEF AllocNext
<1>6. CASE AllocPop(t)
  <2> DEFINE p == top[t]
             h == s[t]
  <2>0. /\ p \in Free /\ p \in Pages /\ h \in Shards /\ heads[h] = p /\ nxt[t] = next[p]
        /\ p # Nil
    BY <1>0, <1>6 DEF AllocPop, TypeOK, ThreadOK
  <2>1. Free' = Free \ {p}
    BY <1>0, <1>6, <2>0, PopRemoves DEF AllocPop
  <2>a. \A g \in Shards : heads'[g] = IF g = h THEN next[p] ELSE heads[g]
    BY <1>0, <1>6, <2>0 DEF AllocPop, TypeOK
  <2>2. \A u \in Threads : InHand(u)' = IF u = t THEN InHand(t) \cup {p} ELSE InHand(u)
    BY <1>0, <1>6 DEF AllocPop, InHand, TypeOK
  <2>3. StacksApart'
    <3> HIDE DEF p, h
    <3>1. \A g \in Shards : next[p] = heads[g] => heads[g] = Nil
      BY <1>0, <2>0 DEF StacksApart
    <3>2. \A q \in Free : q # p /\ next[q] = next[p] => next[p] = Nil
      BY <1>0, <2>0 DEF StacksApart
    <3> QED
      BY <1>0, <1>6, <2>0, <2>1, <2>a, <3>1, <3>2 DEF AllocPop, StacksApart
  <2>4. PagesConserved'
    BY <1>0, <1>6, <2>0, <2>1, <2>2 DEF PagesConserved, AllocPop
  <2>5. ASSUME NEW u \in Threads PROVE ThreadOK(u)'
    <3>1. u # t => pc[u] \notin {"load", "shard", "next", "pop", "stamp"}
      BY <1>0 DEF ThreadOK, SingleAllocator
    <3> QED
      BY <1>0, <1>6, <2>0, <2>1, <3>1 DEF ThreadOK, AllocPop, TypeOK
  <2> QED
    BY <2>3, <2>4, <2>5 DEF PoolInv
<1>7. CASE AllocStamp(t)
  <2> DEFINE got == out[t] \cup {top[t]}
  <2>1. Free' = Free /\ StacksApart'
    BY <1>7, SameStacks DEF AllocStamp
  <2>2. InHand(t) = got
    BY <1>0, <1>7 DEF InHand, AllocStamp, ThreadOK
  <2>3. \/ held' = held /\ \A u \in Threads : InHand(u)' = InHand(u)
        \/ /\ held' = held \cup got
           /\ \A u \in Threads : InHand(u)' = IF u = t THEN {} ELSE InHand(u)
    BY <1>0, <1>7 DEF AllocStamp, InHand, TypeOK, ThreadOK
  <2>4. PagesConserved'
    BY <1>0, <1>7, <2>1, <2>2, <2>3 DEF PagesConserved, AllocStamp
  <2>5. \A u \in Threads : ThreadOK(u)'
    BY <1>0, <1>7, <2>1 DEF ThreadOK, AllocStamp, TypeOK
  <2> QED
    BY <2>1, <2>4, <2>5 DEF PoolInv
<1> QED
  BY <1>1, <1>2, <1>3, <1>4, <1>5, <1>6, <1>7 DEF AllocSteps

(* touch: pages go to the thread's hand and, one by one, back. *)
LEMMA TouchKeeps ==
    ASSUME PoolInv, NEW t \in Allocators, touch(t), TypeOK'
    PROVE  PoolInv'
<1> USE DEF mem, app, alloc, scan, Goto
<1>0. /\ TypeOK /\ PagesConserved /\ \A u \in Threads : ThreadOK(u)
      /\ t \in Threads
  BY PoolAssumption DEF PoolInv, PagesConserved
<1>s. Free' = Free /\ StacksApart'
  BY SameStacks DEF touch, TouchCall, TouchStore
<1>1. ASSUME NEW P \in SUBSET held, TouchCall(t, P) PROVE PoolInv'
  <2>2. \A u \in Threads : InHand(u)' = IF u = t THEN P ELSE InHand(u)
    BY <1>0, <1>1 DEF TouchCall, InHand, ThreadOK, TypeOK
  <2>3. InHand(t) = {}
    BY <1>0, <1>1 DEF TouchCall, InHand, ThreadOK
  <2>4. PagesConserved'
    BY <1>0, <1>1, <1>s, <2>2, <2>3 DEF PagesConserved, TouchCall
  <2>5. \A u \in Threads : ThreadOK(u)'
    BY <1>0, <1>1, <1>s DEF ThreadOK, TouchCall, TypeOK
  <2> QED
    BY <1>s, <2>4, <2>5 DEF PoolInv
<1>2. ASSUME NEW p \in todo[t], TouchStore(t, p) PROVE PoolInv'
  <2>2. \A u \in Threads : InHand(u)' = IF u = t THEN InHand(t) \ {p} ELSE InHand(u)
    BY <1>0, <1>2 DEF TouchStore, InHand, ThreadOK, TypeOK
  <2>3. p \in InHand(t) /\ p \in Pages
    BY <1>0 DEF InHand, TypeOK
  <2>4. PagesConserved'
    BY <1>0, <1>2, <1>s, <2>2, <2>3 DEF PagesConserved, TouchStore
  <2>5. \A u \in Threads : ThreadOK(u)'
    BY <1>0, <1>2, <1>s DEF ThreadOK, TouchStore, TypeOK
  <2> QED
    BY <1>s, <2>4, <2>5 DEF PoolInv
<1> QED
  BY <1>1, <1>2 DEF touch

(* leak_scan: what it collected is lost, and goes to the thread's hand. *)
LEMMA ScanKeeps ==
    ASSUME PoolInv, StampInv, NEW t \in Scanners, leak_scan(t), TypeOK'
    PROVE  PoolInv'
<1> USE DEF mem, app, alloc, scan, Goto, FreeBegin
<1>0. /\ TypeOK /\ PagesConserved /\ \A u \in Threads : ThreadOK(u)
      /\ t \in Threads /\ orphan[t] \subseteq lost
  BY PoolAssumption DEF PoolInv, PagesConserved, StampInv, StampsTellTruth
<1>s. Free' = Free /\ StacksApart'
  BY SameStacks DEF leak_scan, ScanCall, ScanLoad, ScanFree
<1>1. CASE ScanCall(t) \/ ScanLoad(t)
  <2>2. \A u \in Threads : InHand(u)' = InHand(u)
    BY <1>0, <1>1 DEF ScanCall, ScanLoad, InHand, TypeOK
  <2>4. PagesConserved'
    BY <1>0, <1>1, <1>s, <2>2 DEF PagesConserved, ScanCall, ScanLoad
  <2>5. \A u \in Threads : ThreadOK(u)'
    BY <1>0, <1>1, <1>s DEF ThreadOK, ScanCall, ScanLoad, TypeOK
  <2> QED
    BY <1>s, <2>4, <2>5 DEF PoolInv
<1>2. CASE ScanFree(t)
  <2>2. \A u \in Threads : InHand(u)' = IF u = t THEN orphan[t] ELSE InHand(u)
    BY <1>0, <1>2 DEF ScanFree, InHand, ThreadOK, TypeOK
  <2>3. InHand(t) = {}
    BY <1>0, <1>2 DEF ScanFree, InHand, ThreadOK
  <2>4. PagesConserved'
    BY <1>0, <1>2, <1>s, <2>2, <2>3 DEF PagesConserved, ScanFree
  <2>5. \A u \in Threads : ThreadOK(u)'
    BY <1>0, <1>2, <1>s DEF ThreadOK, ScanFree, TypeOK
  <2> QED
    BY <1>s, <2>4, <2>5 DEF PoolInv
<1> QED
  BY <1>1, <1>2 DEF leak_scan

(* The first invariant is preserved. *)
LEMMA PoolInvStep ==
    ASSUME SingleAllocator, PoolInv, StampInv, [Next]_vars
    PROVE  PoolInv'
<1> USE DEF mem, app, alloc, scan, Goto, FreeBegin
<1>0. /\ TypeOK /\ PagesConserved /\ StacksApart /\ \A u \in Threads : ThreadOK(u)
      /\ TypeOK'
  BY PoolAssumption, TypeStep DEF PoolInv, PagesConserved
<1>1. CASE Tick
  <2>1. Free' = Free /\ StacksApart'
    BY <1>1, SameStacks DEF Tick
  <2>2. \A u \in Threads : InHand(u)' = InHand(u)
    BY <1>1 DEF Tick, InHand
  <2>4. PagesConserved'
    BY <1>0, <1>1, <2>1, <2>2 DEF PagesConserved, Tick
  <2>5. \A u \in Threads : ThreadOK(u)'
    BY <1>0, <1>1, <2>1 DEF ThreadOK, Tick
  <2> QED
    BY <2>1, <2>4, <2>5 DEF PoolInv
<1>2. ASSUME NEW p \in held, Lose(p) PROVE PoolInv'
  <2>1. Free' = Free /\ StacksApart'
    BY <1>2, SameStacks DEF Lose
  <2>2. \A u \in Threads : InHand(u)' = InHand(u)
    BY <1>2 DEF Lose, InHand
  <2>4. PagesConserved'
    BY <1>0, <1>2, <2>1, <2>2 DEF PagesConserved, Lose
  <2>5. \A u \in Threads : ThreadOK(u)'
    BY <1>0, <1>2, <2>1 DEF ThreadOK, Lose
  <2> QED
    BY <2>1, <2>4, <2>5 DEF PoolInv
<1>3. CASE UNCHANGED vars
  <2>1. Free' = Free /\ StacksApart'
    BY <1>3, SameStacks DEF vars
  <2>2. \A u \in Threads : InHand(u)' = InHand(u)
    BY <1>3 DEF vars, InHand
  <2>4. PagesConserved'
    BY <1>0, <1>3, <2>1, <2>2 DEF PagesConserved, vars
  <2>5. \A u \in Threads : ThreadOK(u)'
    BY <1>0, <1>3, <2>1 DEF ThreadOK, vars
  <2> QED
    BY <2>1, <2>4, <2>5 DEF PoolInv
<1> QED
  BY <1>0, <1>1, <1>2, <1>3, FreeSteps, AllocKeeps, TouchKeeps, ScanKeeps DEF Next

-----------------------------------------------------------------------------
(* Stamps *)

(* What a scan finds expired has been lost: free pages have no stamp, and  *)
(* pages in use are within their time to live and not stamped since the    *)
(* scan read the time.                                                     *)
LEMMA ExpiredIsLost ==
    ASSUME SingleAllocator, PoolInv, StampInv, NEW t \in Scanners, pc[t] = "scan",
           NEW p \in Pages, Expired(t, p)
    PROVE  p \in lost
<1>0. /\ TypeOK /\ PagesConserved /\ \A u \in Threads : ThreadOK(u)
      /\ t \in Threads /\ Allocators \subseteq Threads /\ Scanners \subseteq Threads
  BY PoolAssumption DEF PoolInv, PagesConserved
<1>1. stamp[p] \in Nat /\ clock \in Nat /\ now[t] \in Nat /\ TtlUs \in Nat
  BY <1>0, PoolAssumption DEF TypeOK
<1>2. clock - stamp[p] > TtlUs /\ stamp[p] # 0
  BY <1>0, <1>1 DEF StampInv, InTime, Expired
<1>3. p \notin Free
  BY <1>2 DEF StampInv, StampsTellTruth
<1>4. p \notin held
  BY <1>1, <1>2 DEF StampInv, InTime
<1>5. ASSUME NEW u \in Threads PROVE p \notin InHand(u)
  <2>1. CASE u = t
    BY <1>0, <2>1 DEF ThreadOK, InHand
  <2>2. CASE u # t
    <3>1. u \notin Allocators /\ u \notin Scanners
      BY <2>2, <1>0 DEF SingleAllocator
    <3>2. out[u] = {} /\ pc[u] # "stamp"
      BY <1>0, <3>1 DEF ThreadOK, TypeOK, Locs
    <3>3. p \notin todo[u]
      BY <1>1, <1>2, <3>1 DEF StampInv, InTime
    <3> QED
      BY <3>2, <3>3 DEF InHand
  <2> QED
    BY <2>1, <2>2
<1> QED
  BY <1>0, <1>3, <1>4, <1>5 DEF PagesConserved

(* Stamps: free_pages clears one before it pushes, alloc sets one before   *)
(* it hands out, and no other thread has the page meanwhile.               *)
LEMMA StampStep ==
    ASSUME SingleAllocator, PoolInv, PoolInv', StampInv, [Next]_vars
    PROVE  StampsTellTruth' /\ StampsInHand'
<1> USE DEF mem, app, alloc, scan, Goto, FreeBegin, StampsTellTruth, StampsInHand
<1> DEFINE Truth == StampsTellTruth /\ StampsInHand
<1>0. /\ TypeOK /\ PagesConserved /\ \A u \in Threads : ThreadOK(u)
      /\ PagesConserved'
      /\ Allocators \subseteq Threads /\ Scanners \subseteq Threads
      /\ Free \subseteq Pages /\ Truth
      /\ clock # 0 /\ \A u \in Threads : pc[u] # "scan" => orphan[u] = {}
  BY PoolAssumption DEF PoolInv, PagesConserved, Free, StampInv, InTime, TypeOK
<1>s. UNCHANGED <<heads, next>> => Free' = Free
  BY SameStacks
<1>1. ASSUME NEW t \in Threads, NEW P \in SUBSET held, FreeCall(t, P) PROVE Truth'
  BY <1>0, <1>1, <1>s DEF FreeCall, TypeOK
<1>2. ASSUME NEW t \in Threads, NEW p \in todo[t], FreeClear(t, p) PROVE Truth'
  <2>1. p \in InHand(t) /\ p \in Pages
    BY <1>0 DEF InHand, TypeOK
  <2>2. p \notin held \cup lost
    BY <1>0, <2>1 DEF PagesConserved
  <2>3. \A u \in Threads : p \notin out[u]
    BY <1>0, <1>2, <2>1 DEF PagesConserved, InHand, ThreadOK, FreeClear
  <2>4. \A q \in Pages : stamp'[q] = IF q = p THEN 0 ELSE stamp[q]
    BY <1>0, <1>2 DEF FreeClear, TypeOK
  <2>5. StampsTellTruth'
    BY <1>0, <1>2, <1>s, <2>2, <2>4 DEF FreeClear, TypeOK
  <2>6. StampsInHand'
    <3> SUFFICES ASSUME NEW u \in Threads
                 PROVE  /\ \A q \in out'[u] : stamp'[q] # 0
                        /\ pc'[u] = "touch" => \A q \in todo'[u] : stamp'[q] # 0
                        /\ pc'[u] \in {"head", "link", "push"} => stamp'[id'[u]] = 0
                        /\ pc'[u] \in {"load", "shard", "next", "pop", "stamp", "touch"}
                             <=> ts'[u] # 0
      OBVIOUS
    <3>1. pc'[u] = "touch" => pc[u] = "touch" /\ p \notin todo[u]
      BY <1>0, <1>2, <2>1 DEF FreeClear, TypeOK, PagesConserved, InHand
    <3>2. /\ out'[u] = out[u] /\ out[u] \subseteq Pages
          /\ todo'[u] = todo[u] /\ todo[u] \subseteq Pages
      BY <1>0, <1>2 DEF FreeClear, TypeOK
    <3>3. pc'[u] \in {"head", "link", "push"} =>
             id'[u] \in Pages /\ (id'[u] = p \/ stamp[id'[u]] = 0)
      BY <1>0, <1>2, <2>1 DEF FreeClear, TypeOK
    <3>4. pc'[u] \in {"load", "shard", "next", "pop", "stamp", "touch"} <=> ts'[u] # 0
      BY <1>0, <1>2 DEF FreeClear, TypeOK
    <3> QED
      BY <1>0, <2>3, <2>4, <3>1, <3>2, <3>3, <3>4
  <2> QED
    BY <2>5, <2>6
<1>3. ASSUME NEW t \in Threads, FreeLoad(t) PROVE Truth'
  BY <1>0, <1>3, <1>s DEF FreeLoad, TypeOK
<1>4. ASSUME NEW t \in Threads, FreeLink(t) PROVE Truth'
  <2>1. id[t] \in Pages /\ id[t] \notin Free
    BY <1>0, <1>4 DEF FreeLink, TypeOK, PagesConserved, InHand
  <2>2. Free' = Free
    BY <1>0, <1>4, <2>1, LinkKeeps DEF FreeLink, PagesConserved
  <2> QED
    BY <1>0, <1>4, <2>2 DEF FreeLink, TypeOK
<1>5. ASSUME NEW t \in Threads, FreePush(t) PROVE Truth'
  <2>1. id[t] \in Pages /\ next[id[t]] = heads[shard(id[t])] /\ stamp[id[t]] = 0
    BY <1>0, <1>5 DEF FreePush, TypeOK, ThreadOK
  <2>2. Free' = Free \cup {id[t]}
    <3>1. shard(id[t]) \in Shards
      BY <2>1, ShardType, PoolAssumption DEF Pages
    <3> QED
      BY <1>0, <1>5, <2>1, <3>1, PushAdds DEF FreePush, PagesConserved
  <2> QED
    BY <1>0, <1>5, <2>1, <2>2 DEF FreePush, TypeOK
<1>6. ASSUME NEW t \in Threads, FreeRetry(t) PROVE Truth'
  BY <1>0, <1>6, <1>s DEF FreeRetry, TypeOK
<1>7. ASSUME NEW t \in Allocators, NEW n \in Sizes, NEW hash \in Shards,
             AllocCall(t, n, hash)
      PROVE  Truth'
  BY <1>0, <1>7, <1>s DEF AllocCall, TypeOK
<1>8. ASSUME NEW t \in Allocators, AllocLoad(t) PROVE Truth'
  BY <1>0, <1>8, <1>s DEF AllocLoad, TypeOK
<1>9. ASSUME NEW t \in Allocators, AllocNextShard(t) PROVE Truth'
  BY <1>0, <1>9, <1>s DEF AllocNextShard, TypeOK
<1>10. ASSUME NEW t \in Allocators, AllocFail(t) PROVE Truth'
  BY <1>0, <1>10, <1>s DEF AllocFail, TypeOK
<1>11. ASSUME NEW t \in Allocators, AllocNext(t) PROVE Truth'
  BY <1>0, <1>11, <1>s DEF AllocNext, TypeOK
<1>12. ASSUME NEW t \in Allocators, AllocPop(t) PROVE Truth'
  <2>1. top[t] \in Pages /\ s[t] \in Shards /\ nxt[t] = next[top[t]]
    BY <1>0, <1>12 DEF AllocPop, TypeOK, ThreadOK
  <2>2. Free' = Free \ {top[t]}
    BY <1>0, <1>12, <2>1, PopRemoves DEF AllocPop, PagesConserved, PoolInv
  <2> QED
    BY <1>0, <1>12, <2>2 DEF AllocPop, TypeOK
<1>13. ASSUME NEW t \in Allocators, AllocRetry(t) PROVE Truth'
  BY <1>0, <1>13, <1>s DEF AllocRetry, TypeOK
<1>14. ASSUME NEW t \in Allocators, AllocStamp(t) PROVE Truth'
  <2> DEFINE p == top[t]
  <2>1. p \in InHand(t) /\ p \in Pages /\ ts[t] # 0
    BY <1>0, <1>14 DEF InHand, TypeOK, AllocStamp
  <2>2. p \notin Free
    BY <1>0, <2>1 DEF PagesConserved
  <2>3. \A u \in Threads : pc[u] \in {"head", "link", "push"} => id[u] # p /\ id[u] \in Pages
    BY <1>0, <1>14, <2>1 DEF PagesConserved, InHand, TypeOK, AllocStamp
  <2>4. \A q \in Pages : stamp'[q] = IF q = p THEN ts[t] ELSE stamp[q]
    BY <1>0, <1>14 DEF AllocStamp, TypeOK
  <2>5. StampsTellTruth'
    BY <1>0, <1>14, <1>s, <2>1, <2>2, <2>4 DEF AllocStamp, TypeOK
  <2>6. StampsInHand'
    <3> SUFFICES ASSUME NEW u \in Threads
                 PROVE  /\ \A q \in out'[u] : stamp'[q] # 0
                        /\ pc'[u] = "touch" => \A q \in todo'[u] : stamp'[q] # 0
                        /\ pc'[u] \in {"head", "link", "push"} => stamp'[id'[u]] = 0
                        /\ pc'[u] \in {"load", "shard", "next", "pop", "stamp", "touch"}
                             <=> ts'[u] # 0
      OBVIOUS
    <3>1. out'[u] \subseteq out[u] \cup {p} /\ out[u] \subseteq Pages
      BY <1>0, <1>14 DEF AllocStamp, TypeOK
    <3>2. pc'[u] \in {"head", "link", "push", "touch"} => pc'[u] = pc[u] /\ id'[u] = id[u]
      BY <1>0, <1>14 DEF AllocStamp, TypeOK
    <3>3. todo'[u] = todo[u] /\ todo[u] \subseteq Pages
      BY <1>0, <1>14 DEF AllocStamp, TypeOK
    <3>4. pc'[u] \in {"load", "shard", "next", "pop", "stamp", "touch"} <=> ts'[u] # 0
      BY <1>0, <1>14, <2>1 DEF AllocStamp, TypeOK
    <3> QED
      BY <1>0, <2>1, <2>3, <2>4, <3>1, <3>2, <3>3, <3>4
  <2> QED
    BY <2>5, <2>6
<1>15. ASSUME NEW t \in Scanners, leak_scan(t) PROVE Truth'
  <2>0. t \in Threads /\ Free' = Free
    BY <1>0, <1>15, <1>s DEF leak_scan, ScanCall, ScanLoad, ScanFree
  <2>1. CASE ScanCall(t)
    BY <1>0, <2>0, <2>1 DEF ScanCall, TypeOK
  <2>2. CASE ScanLoad(t)
    <3>1. Expired(t, pos[t]) => pos[t] \in lost
      <4>1. pos[t] \in Pages
        BY <1>0, <2>0, <2>2, PoolAssumption DEF ScanLoad, TypeOK, Pages
      <4> QED
        BY <2>2, <4>1, ExpiredIsLost DEF ScanLoad
    <3> HIDE DEF Expired
    <3>2. \A u \in Threads : orphan'[u] \subseteq lost
      BY <1>0, <2>0, <2>2, <3>1 DEF ScanLoad, TypeOK
    <3> QED
      BY <1>0, <2>0, <2>2, <3>2 DEF ScanLoad, TypeOK
  <2>3. CASE ScanFree(t)
    <3>1. \A u \in Threads : u # t => orphan[u] = {}
      <4>1. \A u \in Threads : pc[u] = "scan" => u \in Scanners
        BY <1>0 DEF ThreadOK
      <4> QED
        BY <1>0, <4>1 DEF SingleAllocator
    <3>2. \A u \in Threads : orphan'[u] = {}
      BY <1>0, <2>0, <2>3, <3>1 DEF ScanFree, TypeOK
    <3> QED
      BY <1>0, <2>0, <2>3, <3>2 DEF ScanFree, TypeOK
  <2> QED
    BY <1>15, <2>1, <2>2, <2>3 DEF leak_scan
<1>16. ASSUME NEW p \in held, Lose(p) PROVE Truth'
  BY <1>0, <1>16, <1>s DEF Lose, TypeOK
<1>17. CASE UNCHANGED vars
  BY <1>0, <1>17, <1>s DEF vars
<1>18. ASSUME NEW t \in Allocators, NEW P \in SUBSET held, TouchCall(t, P) PROVE Truth'
  BY <1>0, <1>18, <1>s DEF TouchCall, TypeOK
<1>19. ASSUME NEW t \in Allocators, NEW p \in todo[t], TouchStore(t, p) PROVE Truth'
  <2>1. p \in InHand(t) /\ p \in Pages /\ ts[t] # 0 /\ t \in Threads
    BY <1>0, <1>19 DEF InHand, TypeOK, TouchStore
  <2>2. p \notin Free
    BY <1>0, <2>1 DEF PagesConserved
  <2>3. \A u \in Threads : pc[u] \in {"head", "link", "push"} => id[u] # p /\ id[u] \in Pages
    BY <1>0, <1>19, <2>1 DEF PagesConserved, InHand, TypeOK, TouchStore
  <2>4. \A q \in Pages : stamp'[q] = IF q = p THEN ts[t] ELSE stamp[q]
    BY <1>0, <1>19 DEF TouchStore, TypeOK
  <2>5. StampsTellTruth'
    BY <1>0, <1>19, <1>s, <2>1, <2>2, <2>4 DEF TouchStore, TypeOK
  <2>6. StampsInHand'
    <3> SUFFICES ASSUME NEW u \in Threads
                 PROVE  /\ \A q \in out'[u] : stamp'[q] # 0
                        /\ pc'[u] = "touch" => \A q \in todo'[u] : stamp'[q] # 0
                        /\ pc'[u] \in {"head", "link", "push"} => stamp'[id'[u]] = 0
                        /\ pc'[u] \in {"load", "shard", "next", "pop", "stamp", "touch"}
                             <=> ts'[u] # 0
      OBVIOUS
    <3>1. out'[u] = out[u] /\ out[u] \subseteq Pages
      BY <1>0, <1>19 DEF TouchStore, TypeOK
    <3>2. pc'[u] \in {"head", "link", "push", "touch"} => pc'[u] = pc[u] /\ id'[u] = id[u]
      BY <1>0, <1>19 DEF TouchStore, TypeOK
    <3>3. todo'[u] \subseteq todo[u] /\ todo[u] \subseteq Pages
      BY <1>0, <1>19 DEF TouchStore, TypeOK
    <3>4. pc'[u] \in {"load", "shard", "next", "pop", "stamp", "touch"} <=> ts'[u] # 0
      BY <1>0, <1>19, <2>1 DEF TouchStore, TypeOK
    <3> QED
      BY <1>0, <2>1, <2>3, <2>4, <3>1, <3>2, <3>3, <3>4
  <2> QED
    BY <2>5, <2>6
<1>20. ASSUME Tick PROVE Truth'
  BY <1>0, <1>20, <1>s DEF Tick, TypeOK
<1> QED
  BY <1>1, <1>2, <1>3, <1>4, <1>5, <1>6, <1>7, <1>8, <1>9, <1>10, <1>11, <1>12,
     <1>13, <1>14, <1>15, <1>16, <1>17, <1>18, <1>19, <1>20
  DEF Next, free_pages, AllocSteps, touch

(* A step that writes no stamp and reads no clock leaves everyone in time: *)
(* it takes pages at most, from the hand or from the application.          *)
LEMMA TimeQuiet ==
    ASSUME PoolInv, StampInv, TypeOK', UNCHANGED <<stamp, clock, ts, now>>,
           held' \subseteq held,
           NEW t \in Threads, pc'[t] \notin {"touch", "scan"},
           \A u \in Threads : /\ out'[u] \subseteq out[u]
                              /\ todo'[u] \subseteq todo[u] \cup (IF u = t THEN held ELSE {})
                              /\ orphan'[u] = orphan[u]
                              /\ u # t => pc'[u] = pc[u],
           pc[t] # "scan"
    PROVE  InTime'
<1>0. TypeOK /\ InTime /\ TypeOK'
  BY DEF PoolInv, PagesConserved, StampInv
<1>1. \A p \in held' : clock - stamp[p] <= TtlUs
  BY <1>0 DEF InTime
<1>2. ASSUME NEW u \in Threads, u \notin Scanners \/ pc'[u] = "touch",
             NEW p \in todo'[u], stamp[p] # 0
      PROVE  clock - stamp[p] <= TtlUs
  BY <1>0, <1>2 DEF InTime
<1> QED
  BY <1>0, <1>1, <1>2 DEF InTime

(* Nor does a step that stamps one page with a recent time, or with 0 if   *)
(* the page is not in use, and passes stamped pages on.                    *)
LEMMA TimeStamped ==
    ASSUME PoolInv, StampInv, TypeOK', UNCHANGED <<clock, now, orphan>>,
           NEW p \in Pages, NEW v \in Nat, v <= clock,
           clock - v <= TtlUs \/ v = 0,
           \A q \in Pages : stamp'[q] = IF q = p THEN v ELSE stamp[q],
           \A q \in held' : (q = p /\ v # 0) \/ (q # p /\ clock - stamp[q] <= TtlUs),
           \A u \in Threads :
             /\ ts'[u] \in {0, ts[u]}
             /\ \A q \in out'[u] : (q = p /\ v # 0) \/ (q # p /\ q \in out[u])
             /\ todo'[u] \subseteq todo[u]
             /\ pc'[u] = "touch" => pc[u] = "touch"
             /\ pc'[u] = "scan" <=> pc[u] = "scan"
             /\ pc[u] = "scan" => v = 0
    PROVE  InTime'
<1>0. InTime /\ TtlUs \in Nat /\ clock \in Nat
  BY PoolAssumption DEF PoolInv, PagesConserved, StampInv, TypeOK
<1>1. /\ \A q \in Pages : stamp[q] \in Nat
      /\ \A u \in Threads : ts[u] \in Nat /\ now[u] \in Nat
      /\ held' \subseteq Pages
      /\ \A u \in Threads : out[u] \subseteq Pages /\ todo[u] \subseteq Pages
      /\ \A u \in Threads : out'[u] \subseteq Pages /\ todo'[u] \subseteq Pages
  BY DEF PoolInv, PagesConserved, TypeOK
<1>2. \A q \in Pages : stamp'[q] <= clock'
  BY <1>0, <1>1 DEF InTime
<1>3. \A q \in held' : clock' - stamp'[q] <= TtlUs
  BY <1>0, <1>1
<1>4. ASSUME NEW u \in Threads
      PROVE  /\ ts'[u] <= clock' /\ now'[u] <= clock'
             /\ ts'[u] # 0 => clock' - ts'[u] <= TtlUs
  BY <1>0, <1>1 DEF InTime
<1>5. ASSUME NEW u \in Threads, NEW q \in out'[u]
      PROVE  clock' - stamp'[q] <= TtlUs
  BY <1>0, <1>1 DEF InTime
<1>6. ASSUME NEW u \in Threads, u \notin Scanners \/ pc'[u] = "touch",
             NEW q \in todo'[u], stamp'[q] # 0
      PROVE  clock' - stamp'[q] <= TtlUs
  BY <1>0, <1>1, <1>6 DEF InTime
<1>7. ASSUME NEW u \in Threads, pc'[u] = "scan", NEW q \in Pages
      PROVE  stamp'[q] <= now'[u]
  BY <1>0, <1>1, <1>7 DEF InTime
<1>8. \A u \in Threads : pc'[u] # "scan" => orphan'[u] = {}
  BY <1>0 DEF InTime
<1> QED
  BY <1>2, <1>3, <1>4, <1>5, <1>6, <1>7, <1>8 DEF InTime

(* No page in use is ever beyond its time to live. *)
LEMMA InTimeStep ==
    ASSUME SingleAllocator, PoolInv, PoolInv', StampInv, [Next]_vars
    PROVE  InTime'
<1> USE DEF mem, app, alloc, scan, Goto, FreeBegin
<1>0. /\ TypeOK /\ PagesConserved /\ \A u \in Threads : ThreadOK(u)
      /\ TypeOK' /\ InTime /\ StampsTellTruth /\ StampsInHand
      /\ Allocators \subseteq Threads /\ Scanners \subseteq Threads
      /\ TtlUs \in Nat
  BY PoolAssumption DEF PoolInv, PagesConserved, StampInv
<1>1. ASSUME NEW t \in Threads, free_pages(t) PROVE InTime'
  <2>1. CASE \E p \in todo[t] : FreeClear(t, p)
    <3>1. PICK p \in todo[t] : FreeClear(t, p)
      BY <2>1
    <3>2. p \in Pages /\ p \in InHand(t) /\ p \notin held
      BY <1>0 DEF TypeOK, InHand, PagesConserved
    <3>3. \A u \in Threads : p \notin out[u]
      BY <1>0, <3>1, <3>2 DEF PagesConserved, InHand, ThreadOK, FreeClear
    <3>4. \A q \in Pages : stamp'[q] = IF q = p THEN 0 ELSE stamp[q]
      BY <1>0, <3>1 DEF FreeClear, TypeOK
    <3>5. \A u \in Threads : pc'[u] \in {"touch", "scan"} => pc'[u] = pc[u]
      BY <1>0, <3>1 DEF FreeClear, TypeOK
    <3>6. \A u \in Threads : pc'[u] # "scan" => pc[u] # "scan"
      BY <1>0, <3>1 DEF FreeClear, TypeOK
    <3>7. /\ UNCHANGED <<held, clock, ts, now, out, todo, orphan>>
          /\ held \subseteq Pages
          /\ \A u \in Threads : out[u] \subseteq Pages /\ todo[u] \subseteq Pages
      BY <1>0, <3>1 DEF FreeClear, TypeOK
    <3> QED
      <4>1. \A q \in held' : q # p /\ clock - stamp[q] <= TtlUs
        BY <1>0, <3>2, <3>7 DEF InTime
      <4>2. 0 <= clock
        BY <1>0 DEF TypeOK
      <4> QED
        BY <1>0, <3>2, <3>3, <3>4, <3>5, <3>6, <3>7, <4>1, <4>2, TimeStamped
  <2>2. ASSUME NEW P \in SUBSET held, FreeCall(t, P) PROVE InTime'
    BY <1>0, <2>2, TimeQuiet DEF FreeCall, TypeOK
  <2>3. CASE FreeLoad(t) \/ FreeLink(t) \/ FreePush(t) \/ FreeRetry(t)
    BY <1>0, <2>3, TimeQuiet DEF FreeLoad, FreeLink, FreePush, FreeRetry, TypeOK
  <2> QED
    BY <1>1, <2>1, <2>2, <2>3 DEF free_pages
<1>2. ASSUME NEW t \in Allocators, AllocSteps(t) PROVE InTime'
  <2>0. t \in Threads
    BY <1>0
  <2>1. ASSUME NEW n \in Sizes, NEW hash \in Shards, AllocCall(t, n, hash) PROVE InTime'
    BY <1>0, <2>0, <2>1 DEF AllocCall, InTime, TypeOK
  <2>2. CASE AllocFail(t)
    <3>1. \A p \in out[t] : clock - stamp[p] <= TtlUs
      BY <1>0, <2>0 DEF InTime
    <3> QED
      BY <1>0, <2>0, <2>2, <3>1 DEF AllocFail, InTime, TypeOK
  <2>3. CASE AllocStamp(t)
    <3> DEFINE p == top[t]
    <3>1. p \in Pages /\ ts[t] # 0 /\ ts[t] \in Nat /\ ts[t] <= clock /\ clock - ts[t] <= TtlUs
      BY <1>0, <2>0, <2>3 DEF AllocStamp, TypeOK, StampsInHand, InTime
    <3>2. \A q \in Pages : stamp'[q] = IF q = p THEN ts[t] ELSE stamp[q]
      BY <1>0, <2>3 DEF AllocStamp, TypeOK
    <3>3. \A u \in Threads : pc[u] # "scan" /\ pc'[u] # "scan"
      BY <1>0, <2>0, <2>3 DEF AllocStamp, ThreadOK, SingleAllocator, TypeOK
    <3>4. /\ held' \subseteq held \cup out[t] \cup {p}
          /\ \A u \in Threads : /\ out'[u] \subseteq out[u] \cup {p} /\ todo'[u] = todo[u]
                                /\ out[u] \subseteq Pages /\ todo[u] \subseteq Pages
                                /\ pc'[u] = "touch" => pc[u] = "touch"
                                /\ ts'[u] \in {0, ts[u]}
          /\ held \subseteq Pages /\ UNCHANGED <<clock, now, orphan>>
      BY <1>0, <2>0, <2>3 DEF AllocStamp, TypeOK
    <3> HIDE DEF p
    <3> QED
      <4>1. \A q \in held' : (q = p /\ ts[t] # 0) \/ (q # p /\ clock - stamp[q] <= TtlUs)
        BY <1>0, <2>0, <3>1, <3>4 DEF InTime
      <4> QED
        BY <1>0, <3>1, <3>2, <3>3, <3>4, <4>1, TimeStamped
  <2>4. CASE \/ AllocLoad(t) \/ AllocNextShard(t) \/ AllocNext(t) \/ AllocPop(t)
             \/ AllocRetry(t)
    BY <1>0, <2>0, <2>4, TimeQuiet
    DEF AllocLoad, AllocNextShard, AllocNext, AllocPop, AllocRetry, TypeOK
  <2> QED
    BY <1>2, <2>1, <2>2, <2>3, <2>4 DEF AllocSteps
<1>3. ASSUME NEW t \in Allocators, NEW P \in SUBSET held, TouchCall(t, P) PROVE InTime'
  BY <1>0, <1>3 DEF TouchCall, InTime, TypeOK
<1>4. ASSUME NEW t \in Allocators, NEW p \in todo[t], TouchStore(t, p) PROVE InTime'
  <2>1. t \in Threads /\ p \in Pages /\ ts[t] # 0 /\ ts[t] \in Nat /\ ts[t] <= clock
        /\ clock - ts[t] <= TtlUs
    BY <1>0, <1>4 DEF TouchStore, TypeOK, StampsInHand, InTime
  <2>2. \A q \in Pages : stamp'[q] = IF q = p THEN ts[t] ELSE stamp[q]
    BY <1>0, <1>4 DEF TouchStore, TypeOK
  <2>3. \A u \in Threads : pc[u] # "scan" /\ pc'[u] # "scan"
    BY <1>0, <1>4 DEF TouchStore, ThreadOK, SingleAllocator, TypeOK
  <2>4. /\ held' = held \cup {p}
        /\ \A u \in Threads : /\ out'[u] = out[u] /\ todo'[u] \subseteq todo[u]
                              /\ out[u] \subseteq Pages /\ todo[u] \subseteq Pages
                              /\ pc'[u] = "touch" => pc[u] = "touch"
                              /\ ts'[u] \in {0, ts[u]}
        /\ held \subseteq Pages /\ UNCHANGED <<clock, now, orphan>>
    BY <1>0, <2>1, <1>4 DEF TouchStore, TypeOK
  <2> QED
    <3>1. \A q \in held' : (q = p /\ ts[t] # 0) \/ (q # p /\ clock - stamp[q] <= TtlUs)
      BY <1>0, <2>1, <2>4 DEF InTime
    <3> QED
      BY <1>0, <2>1, <2>2, <2>3, <2>4, <3>1, TimeStamped
<1>5. ASSUME NEW t \in Scanners, leak_scan(t) PROVE InTime'
  BY <1>0, <1>5 DEF leak_scan, ScanCall, ScanLoad, ScanFree, InTime, TypeOK
<1>6. ASSUME NEW p \in held, Lose(p) PROVE InTime'
  BY <1>0, <1>6 DEF Lose, InTime
<1>7. CASE Tick
  <2>1. \A p \in held : stamp[p] # 0 /\ clock - stamp[p] # TtlUs
    BY <1>0, <1>7 DEF Tick, StampsTellTruth
  <2>2. \A u \in Threads : \A p \in out[u] : stamp[p] # 0 /\ clock - stamp[p] # TtlUs
    BY <1>0, <1>7 DEF Tick, InHand, StampsInHand
  <2>3. \A u \in Threads : \A p \in todo[u] : stamp[p] # 0 => clock - stamp[p] # TtlUs
    BY <1>0, <1>7 DEF Tick, InHand
  <2>4. \A u \in Threads : ts[u] # 0 => clock - ts[u] # TtlUs
    BY <1>7 DEF Tick
  <2>5. /\ clock' = clock + 1 /\ clock \in Nat
        /\ UNCHANGED <<stamp, held, out, todo, ts, now, orphan, pc>>
        /\ held \subseteq Pages /\ \A p \in Pages : stamp[p] \in Nat
        /\ \A u \in Threads : /\ out[u] \subseteq Pages /\ todo[u] \subseteq Pages
                              /\ ts[u] \in Nat /\ now[u] \in Nat
    BY <1>0, <1>7 DEF Tick, TypeOK
  <2> QED
    BY <1>0, <2>1, <2>2, <2>3, <2>4, <2>5 DEF InTime
<1>8. CASE UNCHANGED vars
  BY <1>0, <1>8 DEF vars, InTime
<1> QED
  BY <1>1, <1>2, <1>3, <1>4, <1>5, <1>6, <1>7, <1>8 DEF Next, touch

-----------------------------------------------------------------------------
(* The theorems *)

(* Both invariants hold when one thread allocates and scans. *)
LEMMA PoolInvariant ==
    ASSUME SingleAllocator
    PROVE  Spec => [](PoolInv /\ StampInv)
<1>1. Init => PoolInv /\ StampInv
  BY InitPoolInv
<1>2. PoolInv /\ StampInv /\ [Next]_vars => (PoolInv /\ StampInv)'
  BY PoolInvStep, StampStep, InTimeStep DEF StampInv
<1> QED
  BY <1>1, <1>2, PTL DEF Spec

(* However free_pages of any number of threads and one thread's alloc,     *)
(* touch and leak_scan interleave, atomic access by atomic access, no page *)
(* is handed out twice or lost from the pool: the compare-and-swap loops   *)
(* need no lock and no version tag as long as one thread allocates and     *)
(* scans and callers are timely.                                           *)
THEOREM PagesAlwaysConserved ==
    ASSUME SingleAllocator
    PROVE  Spec => []PagesConserved
<1>1. PoolInv => PagesConserved
  BY DEF PoolInv
<1> QED
  BY <1>1, PoolInvariant, PTL

(* leak_scan can go by touch_us alone: a page on a free stack is never     *)
(* stamped, one the application holds or has lost always is, and what the  *)
(* scan has collected stays lost until it frees it.                        *)
THEOREM StampsAlwaysTellTruth ==
    ASSUME SingleAllocator
    PROVE  Spec => []StampsTellTruth
<1>1. StampInv => StampsTellTruth
  BY DEF StampInv
<1> QED
  BY <1>1, PoolInvariant, PTL

=============================================================================
