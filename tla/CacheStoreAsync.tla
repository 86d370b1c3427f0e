-------------------------- MODULE CacheStoreAsync --------------------------
(***************************************************************************)
(* The write-behind cache of include/cache_async.hpp and                   *)
(* src/cache_async.cpp: an in-memory table L1 that put updates at once, a  *)
(* queue of disk writes, and a writer thread that empties it.              *)
(*                                                                         *)
(* One condition variable, cv_, serves both the writer (waiting for work)  *)
(* and the callers of flush (waiting for the queue to drain), so a         *)
(* notify_one may reach either.  A cv_.wait(lock, pred) is three steps:    *)
(* take qm_ and evaluate pred ("wait"); if it is false block, which        *)
(* releases qm_ ("checked": qm_ still held); wake up to "wait" again when  *)
(* notified, or spuriously.                                                *)
(*                                                                         *)
(* The disk store is CacheStore; its put becomes visible with one rename   *)
(* and its get reads the file it opened, so both are single steps here.    *)
(* Contents are abstract: the i-th put writes the value i.  A get that     *)
(* hits L1 changes nothing but a statistics counter and has no action.     *)
(***************************************************************************)
EXTENDS Integers, Sequences, FiniteSets

CONSTANTS
    Clients,      \* threads that call get, put, flush and the destructor
    Writer,       \* the thread writer_
    Keys,
    None,         \* no entry for the key
    Disk0,        \* what an earlier process left on disk
    MaxPuts,      \* bound: calls of put
    MaxSpurious   \* bound: spurious wake-ups of cv_

Vals == 0..MaxPuts

ASSUME AsyncAssumption ==
    /\ Writer \notin Clients
    /\ None \notin Vals /\ None \notin Keys
    /\ MaxPuts \in Nat
    /\ MaxSpurious \in Nat
    /\ Disk0 \in [Keys -> {0, None}]

Threads == Clients \cup {Writer}

NoArg == [key |-> None, val |-> None]

VARIABLES
    l1,         \* l1_
    disk,       \* the files under disk_'s root
    q,          \* q_
    busy,       \* busy_
    stop,       \* stop_
    queued,     \* stats_.writes_queued
    persisted,  \* stats_.writes_persisted
    pc,         \* where each thread is
    arg,        \* key and value a get or put, or the writer, works on
    puts,       \* calls of put so far
    spurious,   \* spurious wake-ups so far
    hist        \* history: every job in the order it was pushed

shared == <<l1, disk, q, busy, stop, queued, persisted, hist>>
bounds == <<puts, spurious>>
vars   == <<l1, disk, q, busy, stop, queued, persisted, hist, pc, arg,
            puts, spurious>>

-----------------------------------------------------------------------------
(* The lock and the condition variable *)

QmFree == \A t \in Threads : pc[t] # "checked"

Asleep == {t \in Threads : pc[t] = "asleep"}

Goto(t, l) == pc' = [pc EXCEPT ![t] = l]

(* t's locals, and their end. *)
Hold(t, k, v) == arg' = [arg EXCEPT ![t] = [key |-> k, val |-> v]]
Drop(t)       == arg' = [arg EXCEPT ![t] = NoArg]

(* pc once the threads of W have been notified and t has moved on to l. *)
WakeAndGoto(W, t, l) ==
    pc' = [u \in Threads |-> IF u = t THEN l ELSE IF u \in W THEN "wait" ELSE pc[u]]

(* The predicates passed to cv_.wait. *)
Ready(t) == IF t = Writer THEN q # <<>> \/ stop ELSE q = <<>> /\ ~busy

WaitFalse(t) ==
    /\ pc[t] = "wait"
    /\ QmFree
    /\ ~Ready(t)
    /\ Goto(t, "checked")
    /\ UNCHANGED <<shared, arg, bounds>>

Block(t) ==
    /\ pc[t] = "checked"
    /\ Goto(t, "asleep")
    /\ UNCHANGED <<shared, arg, bounds>>

SpuriousWake(t) ==
    /\ pc[t] = "asleep"
    /\ spurious < MaxSpurious
    /\ spurious' = spurious + 1
    /\ Goto(t, "wait")
    /\ UNCHANGED <<shared, arg, puts>>

-----------------------------------------------------------------------------
(* get *)

GetMiss(c, k) ==
    /\ pc[c] = "idle" /\ ~stop
    /\ l1[k] = None
    /\ Hold(c, k, None)
    /\ Goto(c, "disk")
    /\ UNCHANGED <<shared, bounds>>

GetDisk(c) ==
    LET k == arg[c].key
    IN  /\ pc[c] = "disk"
        /\ \/ disk[k] = None /\ Drop(c) /\ Goto(c, "idle")
           \/ disk[k] # None /\ Hold(c, k, disk[k]) /\ Goto(c, "promote")
        /\ UNCHANGED <<shared, bounds>>

(* Overwrites whatever a put has stored in the meantime. *)
GetPromote(c) ==
    /\ pc[c] = "promote"
    /\ l1' = [l1 EXCEPT ![arg[c].key] = arg[c].val]
    /\ Drop(c)
    /\ Goto(c, "idle")
    /\ UNCHANGED <<disk, q, busy, stop, queued, persisted, hist, bounds>>

-----------------------------------------------------------------------------
(* put *)

(* Mutant: an entry already in L1 is left as it is. *)
PutEmplace(c, k) ==
    /\ pc[c] = "idle" /\ ~stop
    /\ puts < MaxPuts
    /\ puts' = puts + 1
    /\ l1' = [l1 EXCEPT ![k] = IF @ = None THEN puts + 1 ELSE @]
    /\ Hold(c, k, puts + 1)
    /\ Goto(c, "push")
    /\ UNCHANGED <<disk, q, busy, stop, queued, persisted, hist, spurious>>

PutL1(c, k) ==
    /\ pc[c] = "idle" /\ ~stop
    /\ puts < MaxPuts
    /\ puts' = puts + 1
    /\ l1' = [l1 EXCEPT ![k] = puts + 1]
    /\ Hold(c, k, puts + 1)
    /\ Goto(c, "push")
    /\ UNCHANGED <<disk, q, busy, stop, queued, persisted, hist, spurious>>

(* Mutant: an older write of the key that is still queued is dropped. *)
PushCoalesced(c) ==
    /\ pc[c] = "push"
    /\ QmFree
    /\ q' = Append(SelectSeq(q, LAMBDA j : j.key # arg[c].key), arg[c])
    /\ hist' = Append(hist, arg[c])
    /\ Drop(c)
    /\ Goto(c, "count")
    /\ UNCHANGED <<l1, disk, busy, stop, queued, persisted, bounds>>

PutPush(c) ==
    /\ pc[c] = "push"
    /\ QmFree
    /\ q' = Append(q, arg[c])
    /\ hist' = Append(hist, arg[c])
    /\ Drop(c)
    /\ Goto(c, "count")
    /\ UNCHANGED <<l1, disk, busy, stop, queued, persisted, bounds>>

PutCount(c) ==
    /\ pc[c] = "count"
    /\ queued' = queued + 1
    /\ Goto(c, "notify")
    /\ UNCHANGED <<l1, disk, q, busy, stop, persisted, hist, arg, bounds>>

(* Mutant: nobody is notified. *)
PutSilent(c) ==
    /\ pc[c] = "notify"
    /\ Goto(c, "idle")
    /\ UNCHANGED <<shared, arg, bounds>>

(* notify_one: some thread asleep on cv_, if there is one. *)
PutNotify(c) ==
    /\ pc[c] = "notify"
    /\ \/ Asleep = {} /\ Goto(c, "idle")
       \/ \E t \in Asleep : WakeAndGoto({t}, c, "idle")
    /\ UNCHANGED <<shared, arg, bounds>>

-----------------------------------------------------------------------------
(* flush and the destructor *)

FlushCall(c) ==
    /\ pc[c] = "idle" /\ ~stop
    /\ Goto(c, "wait")
    /\ UNCHANGED <<shared, arg, bounds>>

FlushReturn(c) ==
    /\ pc[c] = "wait"
    /\ QmFree
    /\ Ready(c)
    /\ Goto(c, "idle")
    /\ UNCHANGED <<shared, arg, bounds>>

(* The owner destroys the store when no call is in progress; stop_ is set  *)
(* without qm_.                                                            *)
DtorStop(c) ==
    /\ \A d \in Clients : pc[d] = "idle"
    /\ ~stop
    /\ stop' = TRUE
    /\ Goto(c, "dtor")
    /\ UNCHANGED <<l1, disk, q, busy, queued, persisted, hist, arg, bounds>>

DtorNotify(c) ==
    /\ pc[c] = "dtor"
    /\ WakeAndGoto(Asleep, c, "join")
    /\ UNCHANGED <<shared, arg, bounds>>

DtorJoin(c) ==
    /\ pc[c] = "join"
    /\ pc[Writer] = "exit"
    /\ Goto(c, "gone")
    /\ UNCHANGED <<shared, arg, bounds>>

-----------------------------------------------------------------------------
(* writer_loop *)

(* Mutant: a stopped writer does not drain the queue. *)
ExitAtOnce ==
    /\ pc[Writer] = "wait"
    /\ QmFree
    /\ stop
    /\ Goto(Writer, "exit")
    /\ UNCHANGED <<shared, arg, bounds>>

WriterExit ==
    /\ pc[Writer] = "wait"
    /\ QmFree
    /\ q = <<>> /\ stop
    /\ Goto(Writer, "exit")
    /\ UNCHANGED <<shared, arg, bounds>>

(* Mutant: busy_ is not set. *)
TakeNotBusy ==
    /\ pc[Writer] = "wait"
    /\ QmFree
    /\ q # <<>>
    /\ arg' = [arg EXCEPT ![Writer] = Head(q)]
    /\ q' = Tail(q)
    /\ Goto(Writer, "write")
    /\ UNCHANGED <<l1, disk, busy, stop, queued, persisted, hist, bounds>>

(* Mutant: the last job pushed is taken first. *)
TakeLast ==
    /\ pc[Writer] = "wait"
    /\ QmFree
    /\ q # <<>>
    /\ arg' = [arg EXCEPT ![Writer] = q[Len(q)]]
    /\ q' = SubSeq(q, 1, Len(q) - 1)
    /\ busy' = TRUE
    /\ Goto(Writer, "write")
    /\ UNCHANGED <<l1, disk, stop, queued, persisted, hist, bounds>>

WriterTake ==
    /\ pc[Writer] = "wait"
    /\ QmFree
    /\ q # <<>>
    /\ arg' = [arg EXCEPT ![Writer] = Head(q)]
    /\ q' = Tail(q)
    /\ busy' = TRUE
    /\ Goto(Writer, "write")
    /\ UNCHANGED <<l1, disk, stop, queued, persisted, hist, bounds>>

(* Mutant: writes_persisted is not counted. *)
PutUncounted ==
    /\ pc[Writer] = "write"
    /\ disk' = [disk EXCEPT ![arg[Writer].key] = arg[Writer].val]
    /\ Drop(Writer)
    /\ Goto(Writer, "finish")
    /\ UNCHANGED <<l1, q, busy, stop, queued, persisted, hist, bounds>>

WriterPut ==
    /\ pc[Writer] = "write"
    /\ disk' = [disk EXCEPT ![arg[Writer].key] = arg[Writer].val]
    /\ Drop(Writer)
    /\ Goto(Writer, "persisted")
    /\ UNCHANGED <<l1, q, busy, stop, queued, persisted, hist, bounds>>

WriterCount ==
    /\ pc[Writer] = "persisted"
    /\ persisted' = persisted + 1
    /\ Goto(Writer, "finish")
    /\ UNCHANGED <<l1, disk, q, busy, stop, queued, hist, arg, bounds>>

(* Mutant: flush is not notified. *)
FinishSilent ==
    /\ pc[Writer] = "finish"
    /\ QmFree
    /\ busy' = FALSE
    /\ Goto(Writer, "wait")
    /\ UNCHANGED <<l1, disk, q, stop, queued, persisted, hist, arg, bounds>>

WriterFinish ==
    /\ pc[Writer] = "finish"
    /\ QmFree
    /\ busy' = FALSE
    /\ WakeAndGoto(IF q = <<>> THEN Asleep ELSE {}, Writer, "wait")
    /\ UNCHANGED <<l1, disk, q, stop, queued, persisted, hist, arg, bounds>>

-----------------------------------------------------------------------------

Init ==
    /\ l1 = [k \in Keys |-> None]
    /\ disk = Disk0
    /\ q = <<>> /\ hist = <<>>
    /\ busy = FALSE /\ stop = FALSE
    /\ queued = 0 /\ persisted = 0
    /\ pc = [t \in Threads |-> IF t = Writer THEN "wait" ELSE "idle"]
    /\ arg = [t \in Threads |-> NoArg]
    /\ puts = 0 /\ spurious = 0

(* A call that was made goes on; the writer goes on. *)
Continue(c) ==
    \/ GetDisk(c) \/ GetPromote(c)
    \/ PutPush(c) \/ PutCount(c) \/ PutNotify(c)
    \/ FlushReturn(c)
    \/ DtorNotify(c) \/ DtorJoin(c)
    \/ WaitFalse(c) \/ Block(c)

writer_loop ==
    \/ WriterTake \/ WriterPut \/ WriterCount \/ WriterFinish \/ WriterExit
    \/ WaitFalse(Writer) \/ Block(Writer)

Next ==
    \/ \E c \in Clients, k \in Keys : GetMiss(c, k)
    \/ \E c \in Clients, k \in Keys : PutL1(c, k)
    \/ \E c \in Clients : FlushCall(c)
    \/ \E c \in Clients : DtorStop(c)
    \/ \E c \in Clients : Continue(c)
    \/ writer_loop
    \/ \E t \in Threads : SpuriousWake(t)

Spec == Init /\ [][Next]_vars

FairSpec ==
    /\ Spec
    /\ \A c \in Clients : WF_vars(Continue(c))
    /\ WF_vars(writer_loop)

-----------------------------------------------------------------------------
(* Properties *)

Job == [key : Keys, val : Vals]

(* The writer has taken the job and not yet put it on disk. *)
InFlight == pc[Writer] = "write"

(* What has been queued and is not on disk. *)
Pending == (IF InFlight THEN <<arg[Writer]>> ELSE <<>>) \o q

Landed == Len(hist) - Len(Pending)

(* v is what k holds once the first n jobs have been written in order. *)
IsLatest(k, n, v) ==
    \/ v = Disk0[k] /\ \A i \in 1..n : hist[i].key # k
    \/ \E i \in 1..n : /\ hist[i].key = k /\ hist[i].val = v
                       /\ \A j \in (i + 1)..n : hist[j].key # k

ClientLocs == {"idle", "disk", "promote", "push", "count", "notify",
               "wait", "checked", "asleep", "dtor", "join", "gone"}

WriterLocs == {"wait", "checked", "asleep", "write", "persisted", "finish", "exit"}

StoreTypeOK ==
    /\ l1 \in [Keys -> Vals \cup {None}]
    /\ disk \in [Keys -> Vals \cup {None}]
    /\ q \in Seq(Job) /\ hist \in Seq(Job)
    /\ busy \in BOOLEAN /\ stop \in BOOLEAN
    /\ queued \in Nat /\ persisted \in Nat
    /\ puts \in 0..MaxPuts /\ spurious \in 0..MaxSpurious

ThreadTypeOK ==
    /\ pc \in [Threads -> ClientLocs \cup WriterLocs]
    /\ pc[Writer] \in WriterLocs
    /\ \A c \in Clients : pc[c] \in ClientLocs
    /\ arg \in [Threads -> [key : Keys \cup {None}, val : Vals \cup {None}]]

(* A thread has the locals its program point needs, and no others. *)
ArgsOK ==
    \A t \in Threads :
        /\ pc[t] = "disk" => arg[t].key \in Keys
        /\ pc[t] \in {"promote", "push", "write"} => arg[t] \in Job
        /\ pc[t] \notin {"disk", "promote", "push", "write"} => arg[t] = NoArg

OneHolder == \A t, u \in Threads : pc[t] = "checked" /\ pc[u] = "checked" => t = u

(* Every variable keeps its type, each thread has the locals its program   *)
(* point needs, and at most one thread holds qm_.                          *)
TypeOK == StoreTypeOK /\ ThreadTypeOK /\ ArgsOK /\ OneHolder

(* Writes reach the disk once each, in the order in which put pushed them: *)
(* the disk is the outcome of a prefix of the jobs ever pushed, and what   *)
(* the queue and the writer hold is exactly the rest.                      *)
DiskIsPrefix ==
    /\ Landed \in 0..Len(hist)
    /\ \A i \in 1..Len(Pending) : Pending[i] = hist[Landed + i]
    /\ \A k \in Keys : IsLatest(k, Landed, disk[k])

(* flush() returns only when everything pushed so far, by whichever        *)
(* thread, is on disk, the write in flight included.                       *)
FlushDurable ==
    [][\A c \in Clients :
          pc[c] = "wait" /\ pc'[c] = "idle" =>
              \A k \in Keys : IsLatest(k, Len(hist), disk[k])]_vars

(* When flush() returns and no other thread is inside put, as many writes  *)
(* have been persisted as queued: what verify_cache_async.cpp compares.    *)
CountersAgree ==
    [][\A c \in Clients :
          /\ pc[c] = "wait" /\ pc'[c] = "idle"
          /\ \A d \in Clients : pc[d] # "count"
          => queued = persisted]_vars

(* The writer does not exit before it has written everything. *)
DrainedOnExit ==
    pc[Writer] = "exit" => /\ \A k \in Keys : IsLatest(k, Len(hist), disk[k])
                           /\ queued = persisted

(* The store behaves as an ordered write-behind queue (module WriteBehind) *)
(* whatever threads do: taking a job off q_ and the counters are internal, *)
(* pushing accepts a write, and disk_.put by the writer is what persists.  *)
Abstract == INSTANCE WriteBehind WITH Values <- Vals, pending <- Pending
ImplementsWriteBehind == Abstract!Spec

-----------------------------------------------------------------------------
(* No put of a key overlaps another call on it. *)
KeyAlone ==
    \A c, d \in Clients :
        /\ c # d /\ arg[c].key = arg[d].key
        /\ pc[c] = "push"
        => pc[d] \notin {"disk", "promote", "push"}

(* Both tiers agree once all is quiet: L1 has no value for a key, or the   *)
(* one that is on disk, provided that no put overlapped another call on    *)
(* its key.  (Without the proviso a get can promote a value a put has      *)
(* replaced, and two puts can reach L1 and the queue in opposite orders.)  *)
L1DiskAgree ==
    []KeyAlone =>
        [](Pending = <<>> /\ (\A c \in Clients : arg[c] = NoArg) =>
              \A k \in Keys : l1[k] \in {None, disk[k]})

Flushing(c) == pc[c] \in {"wait", "checked", "asleep"}

(* No flush overlaps a put, as in a program with one client thread. *)
FlushAlone ==
    \A c, d \in Clients : Flushing(c) => pc[d] \notin {"push", "count", "notify"}

(* Every job pushed reaches the disk, if no flush overlaps a put. *)
WritesPersist ==
    []FlushAlone => \A n \in 1..MaxPuts : (Len(hist) >= n ~> Landed >= n)

(* flush() returns, if it overlaps no put. *)
LoneFlushReturns ==
    []FlushAlone => \A c \in Clients : (Flushing(c) ~> pc[c] = "idle")

(* flush() blocks until the write queue has been written, and no longer.   *)
FlushReturns == \A c \in Clients : Flushing(c) ~> pc[c] = "idle"

(* The destructor returns: writer_ sees stop_ and is joined. *)
DestructorReturns == \A c \in Clients : pc[c] = "join" ~> pc[c] = "gone"

=============================================================================
