--------------------------- MODULE CacheStoreFast ---------------------------
(***************************************************************************)
(* The two-tier cache of include/cache_fast.hpp and src/cache_fast.cpp: a  *)
(* table L1 with a byte limit and clock eviction in front of a CacheStore. *)
(* L1 is read under a shared and written under a unique lock of smtx_,     *)
(* which no thread keeps across a disk operation: every critical section   *)
(* is one action, between them come the disk's.                            *)
(*                                                                         *)
(* L1 is one record: data and recently_used per key, clock_order_ and      *)
(* l1_bytes_.  Left out: clock_pos_, which nothing reads, and statistics.  *)
(***************************************************************************)
EXTENDS CacheStore, Sequences, FiniteSets, SequencesExt

CONSTANTS
    Size(_),     \* bin.size() of a value
    MaxL1,       \* max_l1_bytes_, 0 for no limit
    MaxCrashes   \* bound: how often the process dies

ASSUME FastAssumption ==
    /\ \A v \in Vals : Size(v) \in Nat
    /\ MaxL1 \in Nat /\ MaxCrashes \in Nat

VARIABLES
    l1,       \* L1
    crashes   \* how often the process has died

vars == <<tmp, bin, file, pc, arg, puts, faults, owner, clash, l1, crashes>>

-----------------------------------------------------------------------------
(* The clock *)

EmptyL1 == [data |-> [k \in Keys |-> None], used |-> [k \in Keys |-> FALSE],
            order |-> <<>>, bytes |-> 0]

Fits(c, needed) == MaxL1 = 0 \/ c.bytes + needed <= MaxL1

Evict(c, k) == [c EXCEPT !.data[k] = None, !.used[k] = FALSE,
                         !.bytes = @ - Size(c.data[k])]

(* The clock reaches k: as long as there is no room, an entry whose bit is *)
(* set loses it, one whose bit is clear is evicted.  (A key of             *)
(* clock_order_ is always cached, see L1Accounts: the code's branch for    *)
(* one that is not never runs.)                                            *)
Visit(c, k, needed) ==
    IF Fits(c, needed) THEN [c EXCEPT !.order = Append(@, k)]
    ELSE IF c.used[k] THEN [c EXCEPT !.order = Append(@, k), !.used[k] = FALSE]
    ELSE Evict(c, k)

(* L1 after each turn of one pass over clock_order_. *)
Turns(c, needed) ==
    LET turn[i \in 0 .. Len(c.order)] ==
            IF i = 0 THEN [c EXCEPT !.order = <<>>]
                     ELSE Visit(turn[i - 1], c.order[i], needed)
    IN  turn

ClockPass(c, needed) == Turns(c, needed)[Len(c.order)]

(* Mutant: all bits are cleared before the scan. *)
EvictCleared(c, needed) ==
    ClockPass(IF Fits(c, needed) THEN c ELSE [c EXCEPT !.used = EmptyL1.used], needed)

(* Mutant: a single pass. *)
EvictOnePass(c, needed) == ClockPass(c, needed)

evict_to_fit(c, needed) == ClockPass(ClockPass(c, needed), needed)

l1_put_locked(c, k, v) ==
    LET d == evict_to_fit(c, Size(v))
    IN  [data |-> [d.data EXCEPT ![k] = v], used |-> [d.used EXCEPT ![k] = TRUE],
         order |-> Append(d.order, k), bytes |-> d.bytes + Size(v)]

(* Mutant: the old entry's bytes are not taken off. *)
UpdateAddsOnly(c, k, v) ==
    [c EXCEPT !.data[k] = v, !.used[k] = TRUE, !.bytes = @ + Size(v)]

(* The entry is there already: no eviction. *)
l1_update(c, k, v) ==
    [c EXCEPT !.data[k] = v, !.used[k] = TRUE,
              !.bytes = @ - Size(c.data[k]) + Size(v)]

-----------------------------------------------------------------------------

GetHit(t, k) ==
    /\ pc[t] = "idle"
    /\ l1.data[k] # None
    /\ l1' = [l1 EXCEPT !.used[k] = TRUE]
    /\ UNCHANGED <<dvars, crashes>>

GetMiss(t, k) ==
    /\ l1.data[k] = None
    /\ GetCall(t, k)
    /\ UNCHANGED <<l1, crashes>>

GetPromote(t) ==
    LET k == arg[t].key
    IN  /\ pc[t] = "found"
        /\ \/ l1.data[k] # None /\ UNCHANGED l1
           \/ l1.data[k] = None /\ l1' = l1_put_locked(l1, k, arg[t].val)
        /\ Return(t)
        /\ UNCHANGED <<disk, puts, faults, hists, crashes>>

(* Mutant: L1 keeps what it has. *)
InsertOnly(t) ==
    LET k == arg[t].key
    IN  /\ pc[t] = "stored"
        /\ \/ l1.data[k] # None /\ UNCHANGED l1
           \/ l1.data[k] = None /\ l1' = l1_put_locked(l1, k, arg[t].val)
        /\ Return(t)
        /\ UNCHANGED <<disk, puts, faults, hists, crashes>>

PutL1(t) ==
    LET k == arg[t].key
    IN  /\ pc[t] = "stored"
        /\ \/ l1.data[k] # None /\ l1' = l1_update(l1, k, arg[t].val)
           \/ l1.data[k] = None /\ l1' = l1_put_locked(l1, k, arg[t].val)
        /\ Return(t)
        /\ UNCHANGED <<disk, puts, faults, hists, crashes>>

(* The exception leaves put before L1 is touched; the caller handles it. *)
PutThrows(t) ==
    /\ pc[t] = "threw"
    /\ Return(t)
    /\ UNCHANGED <<disk, puts, faults, hists, l1, crashes>>

Crash ==
    /\ crashes < MaxCrashes
    /\ crashes' = crashes + 1
    /\ l1' = EmptyL1
    /\ DiskCrash

Init == DiskInit /\ l1 = EmptyL1 /\ crashes = 0

Next ==
    \/ \E t \in Threads, k \in Keys : GetHit(t, k)
    \/ \E t \in Threads, k \in Keys : GetMiss(t, k)
    \/ \E t \in Threads, k \in Keys : PutCall(t, k) /\ UNCHANGED <<l1, crashes>>
    \/ \E t \in Threads : DiskSteps(t) /\ UNCHANGED <<l1, crashes>>
    \/ \E t \in Threads : GetPromote(t) \/ PutL1(t) \/ PutThrows(t)
    \/ Crash

Spec == Init /\ [][Next]_vars

-----------------------------------------------------------------------------
(* Properties *)

Cached == {k \in Keys : l1.data[k] # None}

(* Every variable has its type; l1_bytes_, a size_t, is never taken below  *)
(* zero.                                                                   *)
TypeOK ==
    /\ DiskTypeOK
    /\ l1.data \in [Keys -> Vals \cup {None}]
    /\ l1.used \in [Keys -> BOOLEAN]
    /\ l1.order \in Seq(Keys)
    /\ l1.bytes \in Nat
    /\ crashes \in 0..MaxCrashes

(* The bytes of the first i entries of the clock, for each i. *)
SumTo(c) ==
    LET sum[i \in 0 .. Len(c.order)] ==
            IF i = 0 THEN 0 ELSE sum[i - 1] + Size(c.data[c.order[i]])
    IN  sum

(* The clock knows each cached key once and no other, and l1_bytes_ is the *)
(* sum of the entries, through updates, evictions and promotions.          *)
L1Accounts ==
    /\ TypeOK
    /\ Range(l1.order) = Cached /\ Len(l1.order) = Cardinality(Cached)
    /\ l1.bytes = SumTo(l1)[Len(l1.order)]

(* A key that is inserted and fits by itself leaves L1 within its limit:   *)
(* two passes of the clock always make room.  (An update of a cached key,  *)
(* or a value larger than the limit, may exceed it.)                       *)
InsertFits ==
    [][\A k \in Keys :
          /\ l1.data[k] = None /\ l1'.data[k] # None
          /\ MaxL1 # 0 /\ Size(l1'.data[k]) <= MaxL1
          => l1'.bytes <= MaxL1]_vars

(* Second chance: no entry that was used since the clock last passed it is *)
(* evicted as long as one that was not is kept.                            *)
SecondChance ==
    [][crashes' = crashes =>
          \A k, j \in Cached :
              (l1.used[k] /\ l1'.data[k] = None) =>
                  (l1.used[j] \/ l1'.data[j] = None)]_vars

(* Both tiers agree on a key that nobody is using, if no put of it has     *)
(* overlapped another call or failed: L1 has nothing, or what get would    *)
(* read from disk.                                                         *)
TiersAgree ==
    \A k \in Keys :
        /\ clash[k] = {}
        /\ \A t \in Threads : arg[t].key # k
        /\ l1.data[k] # None
        => Whole(k) /\ l1.data[k] = file[bin[k]].hdr

=============================================================================
