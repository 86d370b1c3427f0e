---------------------------- MODULE PagePoolFast ----------------------------
(***************************************************************************)
(* The lock-free page pool of include/pool_fast.hpp and src/pool_fast.cpp, *)
(* one atomic access at a time: a Treiber stack per shard, head indices in *)
(* heads_ and links in next_.  Threads call alloc, free_pages, touch and   *)
(* leak_scan without a lock.                                               *)
(*                                                                         *)
(* Which threads allocate and which scan is a parameter: the scheduler     *)
(* does both under its mtx_, so that they are one thread, while any number *)
(* may free.  Time is a clock that leak_scan, alloc and touch read once    *)
(* and compare or store later.  Callers are timely: no page in use grows   *)
(* older than the time to live (the scheduler module looks at callers that *)
(* are not), so that only pages the application has lost do.               *)
(*                                                                         *)
(* The order of ids in a vector does not matter and vectors are sets;      *)
(* memory is sequentially consistent, as the acquire/release pairs on head *)
(* make the relaxed accesses to next_ of a single allocator.  Left out:    *)
(* alloc_cnt_, free_cnt_ and the device memory itself.                     *)
(***************************************************************************)
EXTENDS Integers, FiniteSets

CONSTANTS
    Threads,      \* threads that use the pool
    Allocators,   \* those that call alloc and touch
    Scanners,     \* those that call leak_scan
    NPages,       \* number of pages
    NShards,      \* n_shards_
    Sizes,        \* values of n passed to alloc
    TtlUs,        \* ttl_us
    MaxTime       \* bound: of the clock

ASSUME PoolAssumption ==
    /\ Allocators \subseteq Threads /\ Scanners \subseteq Threads
    /\ {NPages, TtlUs, MaxTime} \subseteq Nat /\ NShards \in Nat \ {0}
    /\ Sizes \subseteq Nat \ {0}

Pages  == 0..(NPages - 1)
Shards == 0..(NShards - 1)
Nil    == -1

(* meta_[p].shard *)
shard(p) == p % NShards

VARIABLES
    heads,   \* heads_
    next,    \* next_
    stamp,   \* meta_[p].touch_us; 0 = freed
    clock,   \* now_us()
    held,    \* pages returned to the application, which will free them
    lost,    \* pages the application has lost
    pc,      \* where each thread is
    want,    \* alloc: n
    s,       \* alloc: s
    tries,   \* alloc: tries
    top,     \* alloc, free_pages: top
    nxt,     \* alloc: nxt
    out,     \* alloc: out
    ts,      \* alloc, touch: ts; 0 outside them
    todo,    \* free_pages: ids not pushed yet; touch: ids not stamped yet
    id,      \* free_pages: id
    now,     \* leak_scan: now
    pos,     \* leak_scan: i
    orphan   \* leak_scan: orphan

mem   == <<heads, next, stamp>>
app   == <<held, lost>>
alloc == <<want, s, tries, nxt, out>>
scan  == <<now, pos, orphan>>
vars  == <<heads, next, stamp, clock, held, lost, pc, want, s, tries, top, nxt,
           out, ts, todo, id, now, pos, orphan>>

Goto(t, l) == pc' = [pc EXCEPT ![t] = l]

-----------------------------------------------------------------------------
(* free_pages *)

(* The call; alloc makes it too, for what it could not complete. *)
FreeBegin(t, P) ==
    /\ todo' = [todo EXCEPT ![t] = P]
    /\ Goto(t, IF P = {} THEN "idle" ELSE "clear")

FreeCall(t, P) ==
    /\ pc[t] = "idle"
    /\ P # {}
    /\ P \subseteq held
    /\ held' = held \ P
    /\ FreeBegin(t, P)
    /\ UNCHANGED <<mem, lost, alloc, top, id, clock, ts, scan>>

(* Mutant: touch_us is not zeroed. *)
FreeKeepsStamp(t, p) ==
    /\ pc[t] = "clear"
    /\ p \in todo[t]
    /\ id' = [id EXCEPT ![t] = p]
    /\ Goto(t, "head")
    /\ UNCHANGED <<mem, app, alloc, top, todo, clock, ts, scan>>

FreeClear(t, p) ==
    /\ pc[t] = "clear"
    /\ p \in todo[t]
    /\ id' = [id EXCEPT ![t] = p]
    /\ stamp' = [stamp EXCEPT ![p] = 0]
    /\ Goto(t, "head")
    /\ UNCHANGED <<heads, next, app, alloc, top, todo, clock, ts, scan>>

FreeLoad(t) ==
    /\ pc[t] = "head"
    /\ top' = [top EXCEPT ![t] = heads[shard(id[t])]]
    /\ Goto(t, "link")
    /\ UNCHANGED <<mem, app, alloc, todo, id, clock, ts, scan>>

FreeLink(t) ==
    /\ pc[t] = "link"
    /\ next' = [next EXCEPT ![id[t]] = top[t]]
    /\ Goto(t, "push")
    /\ UNCHANGED <<heads, stamp, app, alloc, top, todo, id, clock, ts, scan>>

(* Mutant: a store instead of a compare-and-swap. *)
PushStore(t) ==
    /\ pc[t] = "push"
    /\ heads' = [heads EXCEPT ![shard(id[t])] = id[t]]
    /\ todo' = [todo EXCEPT ![t] = @ \ {id[t]}]
    /\ id' = [id EXCEPT ![t] = Nil]
    /\ top' = [top EXCEPT ![t] = Nil]
    /\ Goto(t, IF todo[t] = {id[t]} THEN "idle" ELSE "clear")
    /\ UNCHANGED <<next, stamp, app, alloc, clock, ts, scan>>

FreePush(t) ==
    /\ pc[t] = "push"
    /\ heads[shard(id[t])] = top[t]
    /\ heads' = [heads EXCEPT ![shard(id[t])] = id[t]]
    /\ todo' = [todo EXCEPT ![t] = @ \ {id[t]}]
    /\ id' = [id EXCEPT ![t] = Nil]
    /\ top' = [top EXCEPT ![t] = Nil]
    /\ Goto(t, IF todo[t] = {id[t]} THEN "idle" ELSE "clear")
    /\ UNCHANGED <<next, stamp, app, alloc, clock, ts, scan>>

(* The weak compare-and-swap fails, perhaps spuriously, and reloads top. *)
FreeRetry(t) ==
    /\ pc[t] = "push"
    /\ top' = [top EXCEPT ![t] = heads[shard(id[t])]]
    /\ Goto(t, "link")
    /\ UNCHANGED <<mem, app, alloc, todo, id, clock, ts, scan>>

-----------------------------------------------------------------------------
(* alloc *)

AllocCall(t, n, hash) ==
    /\ pc[t] = "idle"
    /\ want' = [want EXCEPT ![t] = n]
    /\ s' = [s EXCEPT ![t] = hash % NShards]
    /\ tries' = [tries EXCEPT ![t] = NShards - 1]
    /\ ts' = [ts EXCEPT ![t] = clock]
    /\ Goto(t, "load")
    /\ UNCHANGED <<mem, app, top, nxt, out, todo, id, clock, scan>>

AllocLoad(t) ==
    /\ pc[t] = "load"
    /\ top' = [top EXCEPT ![t] = heads[s[t]]]
    /\ Goto(t, IF heads[s[t]] = Nil THEN "shard" ELSE "next")
    /\ UNCHANGED <<mem, app, alloc, todo, id, clock, ts, scan>>

(* This shard is empty: on to the next one ... *)
AllocNextShard(t) ==
    /\ pc[t] = "shard"
    /\ tries[t] > 0
    /\ tries' = [tries EXCEPT ![t] = @ - 1]
    /\ s' = [s EXCEPT ![t] = (@ + 1) % NShards]
    /\ Goto(t, "load")
    /\ UNCHANGED <<mem, app, want, top, nxt, out, todo, id, clock, ts, scan>>

(* ... or, after the last, give back what was taken and return nothing. *)
AllocFail(t) ==
    /\ pc[t] = "shard"
    /\ tries[t] = 0
    /\ FreeBegin(t, out[t])
    /\ out' = [out EXCEPT ![t] = {}]
    /\ want' = [want EXCEPT ![t] = 0]
    /\ ts' = [ts EXCEPT ![t] = 0]
    /\ UNCHANGED <<mem, app, s, tries, top, nxt, id, clock, scan>>

AllocNext(t) ==
    /\ pc[t] = "next"
    /\ nxt' = [nxt EXCEPT ![t] = next[top[t]]]
    /\ Goto(t, "pop")
    /\ UNCHANGED <<mem, app, want, s, tries, top, out, todo, id, clock, ts, scan>>

AllocPop(t) ==
    /\ pc[t] = "pop"
    /\ heads[s[t]] = top[t]
    /\ heads' = [heads EXCEPT ![s[t]] = nxt[t]]
    /\ nxt' = [nxt EXCEPT ![t] = Nil]
    /\ Goto(t, "stamp")
    /\ UNCHANGED <<next, stamp, app, want, s, tries, top, out, todo, id, clock, ts, scan>>

AllocRetry(t) ==
    /\ pc[t] = "pop"
    /\ top' = [top EXCEPT ![t] = heads[s[t]]]
    /\ nxt' = [nxt EXCEPT ![t] = Nil]
    /\ Goto(t, IF heads[s[t]] = Nil THEN "shard" ELSE "next")
    /\ UNCHANGED <<mem, app, want, s, tries, out, todo, id, clock, ts, scan>>

(* The popped page is stamped and kept; with n of them alloc returns. *)
AllocStamp(t) ==
    LET got == out[t] \cup {top[t]}
    IN  /\ pc[t] = "stamp"
        /\ stamp' = [stamp EXCEPT ![top[t]] = ts[t]]
        /\ top' = [top EXCEPT ![t] = Nil]
        /\ \/ /\ Cardinality(got) < want[t]
              /\ out' = [out EXCEPT ![t] = got]
              /\ Goto(t, "load")
              /\ UNCHANGED <<held, want, ts>>
           \/ /\ Cardinality(got) >= want[t]
              /\ out' = [out EXCEPT ![t] = {}]
              /\ want' = [want EXCEPT ![t] = 0]
              /\ ts' = [ts EXCEPT ![t] = 0]
              /\ held' = held \cup got
              /\ Goto(t, "idle")
        /\ UNCHANGED <<heads, next, lost, s, tries, nxt, todo, id, clock, scan>>

-----------------------------------------------------------------------------
(* touch: the time is read once and stored page by page.  Nobody frees     *)
(* the pages meanwhile: they are the caller's.                             *)

TouchCall(t, P) ==
    /\ pc[t] = "idle"
    /\ P # {}
    /\ P \subseteq held
    /\ held' = held \ P
    /\ ts' = [ts EXCEPT ![t] = clock]
    /\ todo' = [todo EXCEPT ![t] = P]
    /\ Goto(t, "touch")
    /\ UNCHANGED <<mem, lost, alloc, top, id, clock, scan>>

TouchStore(t, p) ==
    /\ pc[t] = "touch"
    /\ p \in todo[t]
    /\ stamp' = [stamp EXCEPT ![p] = ts[t]]
    /\ held' = held \cup {p}
    /\ todo' = [todo EXCEPT ![t] = @ \ {p}]
    /\ ts' = [ts EXCEPT ![t] = IF todo[t] = {p} THEN 0 ELSE @]
    /\ Goto(t, IF todo[t] = {p} THEN "idle" ELSE "touch")
    /\ UNCHANGED <<heads, next, lost, alloc, top, id, clock, scan>>

-----------------------------------------------------------------------------
(* leak_scan *)

ScanCall(t) ==
    /\ pc[t] = "idle"
    /\ now' = [now EXCEPT ![t] = clock]
    /\ pos' = [pos EXCEPT ![t] = 0]
    /\ Goto(t, "scan")
    /\ UNCHANGED <<mem, app, alloc, top, ts, todo, id, clock, orphan>>

(* now - t > ttl_us, of unsigned integers: a stamp later than now makes    *)
(* the difference wrap around to a huge one.                               *)
Expired(t, p) ==
    /\ stamp[p] # 0
    /\ now[t] < stamp[p] \/ now[t] - stamp[p] > TtlUs

(* One turn of the loop over meta_: a page is judged by its stamp alone. *)
ScanLoad(t) ==
    /\ pc[t] = "scan"
    /\ pos[t] < NPages
    /\ pos' = [pos EXCEPT ![t] = @ + 1]
    /\ orphan' = [orphan EXCEPT ![t] = IF Expired(t, pos[t]) THEN @ \cup {pos[t]} ELSE @]
    /\ UNCHANGED <<mem, app, pc, alloc, top, ts, todo, id, clock, now>>

(* After it, everything collected is freed, whoever has it by now. *)
ScanFree(t) ==
    /\ pc[t] = "scan"
    /\ pos[t] = NPages
    /\ lost' = lost \ orphan[t]
    /\ FreeBegin(t, orphan[t])
    /\ now' = [now EXCEPT ![t] = 0]
    /\ pos' = [pos EXCEPT ![t] = 0]
    /\ orphan' = [orphan EXCEPT ![t] = {}]
    /\ UNCHANGED <<mem, held, alloc, top, ts, id, clock>>

-----------------------------------------------------------------------------
(* The application and time *)

(* The application loses track of a page: it is never touched again. *)
Lose(p) ==
    /\ p \in held
    /\ held' = held \ {p}
    /\ lost' = lost \cup {p}
    /\ UNCHANGED <<mem, pc, alloc, top, ts, todo, id, clock, scan>>

(* What a thread has in hand in the middle of a call. *)
InHand(t) == out[t] \cup todo[t] \cup (IF pc[t] = "stamp" THEN {top[t]} ELSE {})

(* Time passes, but callers are timely: it does not leave behind a page in *)
(* use, nor a call of alloc or touch that is about to stamp one.           *)
Tick ==
    /\ clock < MaxTime
    /\ \A p \in held \cup UNION {InHand(t) : t \in Threads} :
          stamp[p] # 0 => clock - stamp[p] # TtlUs
    /\ \A t \in Threads : ts[t] # 0 => clock - ts[t] # TtlUs
    /\ clock' = clock + 1
    /\ UNCHANGED <<mem, app, pc, alloc, top, ts, todo, id, scan>>

(* Pages are pushed in order, so a shard's head is its greatest page. *)
Init ==
    /\ heads = [h \in Shards |->
                  LET mine == {p \in Pages : shard(p) = h}
                  IN  IF mine = {} THEN Nil ELSE CHOOSE p \in mine : \A r \in mine : r <= p]
    /\ next = [p \in Pages |-> IF p < NShards THEN Nil ELSE p - NShards]
    /\ stamp = [p \in Pages |-> 0] /\ clock = 1
    /\ held = {} /\ lost = {}
    /\ pc = [t \in Threads |-> "idle"]
    /\ want = [t \in Threads |-> 0] /\ s = [t \in Threads |-> 0]
    /\ tries = [t \in Threads |-> 0]
    /\ top = [t \in Threads |-> Nil] /\ nxt = [t \in Threads |-> Nil]
    /\ out = [t \in Threads |-> {}] /\ todo = [t \in Threads |-> {}]
    /\ id = [t \in Threads |-> Nil] /\ ts = [t \in Threads |-> 0]
    /\ now = [t \in Threads |-> 0] /\ pos = [t \in Threads |-> 0]
    /\ orphan = [t \in Threads |-> {}]

free_pages(t) ==
    \/ \E P \in SUBSET held : FreeCall(t, P)
    \/ \E p \in todo[t] : FreeClear(t, p)
    \/ FreeLoad(t) \/ FreeLink(t) \/ FreePush(t) \/ FreeRetry(t)

AllocSteps(t) ==
    \/ \E n \in Sizes, hash \in Shards : AllocCall(t, n, hash)
    \/ AllocLoad(t) \/ AllocNextShard(t) \/ AllocFail(t)
    \/ AllocNext(t) \/ AllocPop(t) \/ AllocRetry(t) \/ AllocStamp(t)

touch(t) ==
    \/ \E P \in SUBSET held : TouchCall(t, P)
    \/ \E p \in todo[t] : TouchStore(t, p)

leak_scan(t) == ScanCall(t) \/ ScanLoad(t) \/ ScanFree(t)

Next ==
    \/ \E t \in Threads : free_pages(t)
    \/ \E t \in Allocators : AllocSteps(t) \/ touch(t)
    \/ \E t \in Scanners : leak_scan(t)
    \/ \E p \in held : Lose(p)
    \/ Tick

Spec == Init /\ [][Next]_vars

-----------------------------------------------------------------------------
(* Properties *)

(* S holds every stack's top, and with a page the one next_ links it to. *)
Closed(S) ==
    /\ \A h \in Shards : heads[h] \in S \cup {Nil}
    /\ \A p \in S : next[p] \in S \cup {Nil}

(* The pages on the free stacks: those reached from heads_ along next_. *)
Free == {p \in Pages : \A S \in SUBSET Pages : Closed(S) => p \in S}

Locs == {"idle", "clear", "head", "link", "push",
         "load", "shard", "next", "pop", "stamp", "touch", "scan"}

(* Every variable ranges over what its C++ counterpart can hold: indices   *)
(* into next_ and meta_ are pages, indices into heads_ are shards.         *)
TypeOK ==
    /\ heads \in [Shards -> Pages \cup {Nil}]
    /\ next \in [Pages -> Pages \cup {Nil}]
    /\ stamp \in [Pages -> Nat] /\ clock \in Nat \ {0}
    /\ held \subseteq Pages /\ lost \subseteq Pages
    /\ pc \in [Threads -> Locs]
    /\ want \in [Threads -> Nat]
    /\ s \in [Threads -> Shards]
    /\ tries \in [Threads -> 0..(NShards - 1)]
    /\ top \in [Threads -> Pages \cup {Nil}]
    /\ nxt \in [Threads -> Pages \cup {Nil}]
    /\ out \in [Threads -> SUBSET Pages] /\ todo \in [Threads -> SUBSET Pages]
    /\ id \in [Threads -> Pages \cup {Nil}]
    /\ ts \in [Threads -> Nat] /\ now \in [Threads -> Nat]
    /\ pos \in [Threads -> 0..NPages] /\ orphan \in [Threads -> SUBSET Pages]
    /\ \A t \in Threads :
          /\ pc[t] \in {"next", "pop", "stamp"} => top[t] \in Pages
          /\ pc[t] \in {"head", "link", "push"} => id[t] \in todo[t]

(* Indices stay in range, and every page is in exactly one place: on one   *)
(* free stack, in the hand of one thread, held by the application or lost  *)
(* by it.  So no page is ever handed out twice, and none drops out of the  *)
(* pool.                                                                   *)
PagesConserved ==
    /\ TypeOK
    /\ \A p \in Pages : \/ p \in Free \/ p \in held \/ p \in lost
                        \/ \E t \in Threads : p \in InHand(t)
    /\ Free \cap held = {} /\ Free \cap lost = {} /\ held \cap lost = {}
    /\ \A t \in Threads : InHand(t) \cap (Free \cup held \cup lost) = {}
    /\ \A t, u \in Threads : t # u => InHand(t) \cap InHand(u) = {}

(* touch_us tells what leak_scan needs to know: a page on a free stack is  *)
(* not stamped (it would be pushed a second time), one that is held or     *)
(* lost is (it could never be reclaimed), and whatever a scan has          *)
(* collected so far is still lost, although other threads free pages       *)
(* between its loads and its own free_pages.                               *)
StampsTellTruth ==
    /\ \A p \in Free : stamp[p] = 0
    /\ \A p \in held \cup lost : stamp[p] # 0
    /\ \A t \in Threads : orphan[t] \subseteq lost

=============================================================================
