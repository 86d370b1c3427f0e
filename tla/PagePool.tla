------------------------------ MODULE PagePool ------------------------------
(***************************************************************************)
(* The page pool of src/pool.cpp.  Every operation holds mtx_ from its     *)
(* first to its last access and is one action.                             *)
(*                                                                         *)
(* Callers go on using the ids they were given: nothing tells them that    *)
(* leak_scan took a page, and they may free it after that, or pass an id   *)
(* twice.  A time stamp is the age of a page, up to Ttl + 1.  alloc_cnt_   *)
(* minus free_cnt_ is one number.  Left out: device memory, refcount (1    *)
(* exactly while the page is not freed) and alloc_ts, which nobody reads.  *)
(***************************************************************************)
EXTENDS Integers, Sequences, FiniteSets, Functions

CONSTANTS
    PoolSize,   \* n_pages
    Traces,     \* trace ids, each a caller
    Ttl,        \* ttl_ms
    Batch       \* bound: pages asked for, or ids freed, in one call

ASSUME MutexPoolAssumption == {PoolSize, Ttl, Batch} \subseteq Nat

VARIABLES
    free_list,   \* free_list_
    pages,       \* pages_: freed, owner and the age of touch_ts
    balance,     \* alloc_cnt_ - free_cnt_
    mine         \* mine[o]: the ids that caller o has

mutexVars == <<free_list, pages, balance, mine>>

Ids == 0 .. PoolSize - 1

FreePage == [freed |-> TRUE, owner |-> "", age |-> 0]

PoolInit ==
    /\ free_list = [i \in 1 .. PoolSize |-> i - 1]
    /\ pages = [p \in Ids |-> FreePage]
    /\ balance = 0
    /\ mine = [o \in Traces |-> {}]

(* n pages from the back of the list; a call that finds fewer returns      *)
(* nothing and changes nothing.                                            *)
pool_alloc(o, n) ==
    LET got == {free_list[i] : i \in Len(free_list) - n + 1 .. Len(free_list)}
    IN  /\ Len(free_list) >= n
        /\ free_list' = SubSeq(free_list, 1, Len(free_list) - n)
        /\ pages' = [p \in Ids |-> IF p \in got THEN [freed |-> FALSE, owner |-> o, age |-> 0]
                                                ELSE pages[p]]
        /\ balance' = balance + n
        /\ mine' = [mine EXCEPT ![o] = @ \cup got]

Push(state, p) ==
    [list  |-> Append(state.list, p),
     pages |-> [state.pages EXCEPT ![p] = [@ EXCEPT !.freed = TRUE, !.owner = ""]],
     bal   |-> state.bal - 1]

(* Mutant: without the test of freed. *)
FreeAny(state, p) == Push(state, p)

(* One turn of free_pages' loop. *)
FreeOne(state, p) == IF state.pages[p].freed THEN state ELSE Push(state, p)

(* After each turn. *)
FreeTurns(ids) ==
    LET turn[i \in 0 .. Len(ids)] ==
            IF i = 0 THEN [list |-> free_list, pages |-> pages, bal |-> balance]
                     ELSE FreeOne(turn[i - 1], ids[i])
    IN  turn

pool_free_pages(o, ids) ==
    LET done == FreeTurns(ids)[Len(ids)]
    IN  /\ free_list' = done.list /\ pages' = done.pages /\ balance' = done.bal
        /\ mine' = [mine EXCEPT ![o] = @ \ Range(ids)]

(* The page of the id, whoever has it now. *)
pool_touch(p) ==
    /\ pages' = [pages EXCEPT ![p].age = 0]
    /\ UNCHANGED <<free_list, balance, mine>>

(* What leak_scan collects, and its second loop: in the order of ids. *)
Orphans == {p \in Ids : ~pages[p].freed /\ pages[p].age > Ttl}

ScanTurns ==
    LET turn[i \in 0 .. PoolSize] ==
            IF i = 0 THEN [list |-> free_list, pages |-> pages, bal |-> balance]
            ELSE IF i - 1 \in Orphans THEN Push(turn[i - 1], i - 1) ELSE turn[i - 1]
    IN  turn

pool_leak_scan ==
    LET done == ScanTurns[PoolSize]
    IN  /\ Orphans # {}
        /\ free_list' = done.list /\ pages' = done.pages /\ balance' = done.bal
        /\ UNCHANGED mine

(* Time passes for all pages. *)
PoolTick ==
    /\ pages' = [p \in Ids |-> [pages[p] EXCEPT !.age = IF @ > Ttl THEN @ ELSE @ + 1]]
    /\ UNCHANGED <<free_list, balance, mine>>

PoolNext ==
    \/ \E o \in Traces, n \in 1 .. Batch : pool_alloc(o, n)
    \/ \E o \in Traces : \E ids \in UNION {[1 .. n -> mine[o]] : n \in 1 .. Batch} :
           pool_free_pages(o, ids)
    \/ \E o \in Traces : \E p \in mine[o] : pool_touch(p)
    \/ pool_leak_scan \/ PoolTick

PoolSpec == PoolInit /\ [][PoolNext]_mutexVars

-----------------------------------------------------------------------------
(* Properties *)

(* The list has every free page once and no other, the counters differ by  *)
(* the pages in use, and a page in use is among its owner's ids.  It holds *)
(* although callers free pages that leak_scan has taken from them, that    *)
(* others own by now, or twice: free_pages skips what is free.             *)
FreeListSound ==
    /\ Range(free_list) = {p \in Ids : pages[p].freed}
    /\ Len(free_list) = Cardinality(Range(free_list))
    /\ balance = PoolSize - Len(free_list)
    /\ \A p \in Ids : ~pages[p].freed => p \in mine[pages[p].owner]

=============================================================================
