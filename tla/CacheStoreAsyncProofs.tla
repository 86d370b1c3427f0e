----------------------- MODULE CacheStoreAsyncProofs -----------------------
(***************************************************************************)
(* What CacheStoreAsync guarantees for any number of threads, keys and     *)
(* puts: type correctness, writes in order, durable flush, and that it     *)
(* implements WriteBehind.                                                 *)
(***************************************************************************)
EXTENDS CacheStoreAsync, SequenceTheorems, FiniteSetTheorems, TLAPS

(* Every program point the model has. *)
Locs == ClientLocs \cup WriterLocs

-----------------------------------------------------------------------------
(* Type correctness *)

(* Moving thread t on to l keeps the program points in range, if t may be  *)
(* there and the lock allows it; whoever is notified only starts again.    *)
LEMMA WakeKeepsLocs ==
    ASSUME ThreadTypeOK, OneHolder,
           NEW W \in SUBSET Asleep, NEW t \in Threads, NEW l,
           IF t = Writer THEN l \in WriterLocs ELSE l \in ClientLocs,
           l = "checked" => QmFree,
           WakeAndGoto(W, t, l)
    PROVE  /\ pc' \in [Threads -> Locs]
           /\ pc'[Writer] \in WriterLocs
           /\ \A c \in Clients : pc'[c] \in ClientLocs
           /\ OneHolder'
           /\ \A u \in Threads \ {t} : pc'[u] = pc[u] \/ (u \in W /\ pc'[u] = "wait")
           /\ pc'[t] = l
<1>1. \A u \in Threads :
         pc'[u] = IF u = t THEN l ELSE IF u \in W THEN "wait" ELSE pc[u]
  BY DEF WakeAndGoto
<1>2. pc' \in [Threads -> Locs]
  BY DEF WakeAndGoto, ThreadTypeOK, Locs, ClientLocs, WriterLocs
<1>3. /\ pc'[Writer] \in WriterLocs
      /\ \A c \in Clients : pc'[c] \in ClientLocs
  BY <1>1, AsyncAssumption DEF ThreadTypeOK, Threads, ClientLocs, WriterLocs
<1>4. OneHolder'
  BY <1>1 DEF OneHolder, QmFree
<1> QED
  BY <1>1, <1>2, <1>3, <1>4

(* Goto is the case in which nobody is notified. *)
LEMMA GotoIsWake ==
    ASSUME ThreadTypeOK, NEW t \in Threads, NEW l, Goto(t, l)
    PROVE  WakeAndGoto({}, t, l)
BY DEF ThreadTypeOK, Goto, WakeAndGoto

(* What a client works on. *)
Arg == [key : Keys \cup {None}, val : Vals \cup {None}]

(* At l, thread t may have the locals a. *)
Fits(t, l, a) ==
    /\ IF t = Writer THEN l \in WriterLocs ELSE l \in ClientLocs
    /\ a \in Arg
    /\ l = "disk" => a.key \in Keys
    /\ l \in {"promote", "push", "write"} => a \in Job
    /\ l \notin {"disk", "promote", "push", "write"} => a = NoArg

(* A step that moves t to l with locals that fit, and notifies W. *)
LEMMA StepKeepsThreads ==
    ASSUME ThreadTypeOK, ArgsOK, OneHolder,
           NEW W \in SUBSET Asleep, NEW t \in Threads, NEW l, NEW a,
           Fits(t, l, a), l = "checked" => QmFree,
           WakeAndGoto(W, t, l), arg' = [arg EXCEPT ![t] = a]
    PROVE  ThreadTypeOK' /\ ArgsOK' /\ OneHolder'
<1>1. \A u \in Threads : arg'[u] = IF u = t THEN a ELSE arg[u]
  BY DEF ThreadTypeOK
<1>2. arg' \in [Threads -> Arg]
  BY DEF ThreadTypeOK, Fits, Arg
<1>3. /\ pc' \in [Threads -> Locs]
      /\ pc'[Writer] \in WriterLocs
      /\ \A c \in Clients : pc'[c] \in ClientLocs
      /\ OneHolder'
      /\ \A u \in Threads \ {t} : pc'[u] = pc[u] \/ (u \in W /\ pc'[u] = "wait")
      /\ pc'[t] = l
  BY WakeKeepsLocs DEF Fits
<1>4. ASSUME NEW u \in Threads
      PROVE  /\ pc'[u] = "disk" => arg'[u].key \in Keys
             /\ pc'[u] \in {"promote", "push", "write"} => arg'[u] \in Job
             /\ pc'[u] \notin {"disk", "promote", "push", "write"} => arg'[u] = NoArg
  BY <1>1, <1>3 DEF ArgsOK, Asleep, Fits
<1> QED
  BY <1>2, <1>3, <1>4 DEF ArgsOK, ThreadTypeOK, Locs, Arg

(* The same for a step that leaves the locals alone. *)
LEMMA ControlStep ==
    ASSUME ThreadTypeOK, ArgsOK, OneHolder,
           NEW W \in SUBSET Asleep, NEW t \in Threads, NEW l,
           IF t = Writer THEN l \in WriterLocs ELSE l \in ClientLocs,
           pc[t] \notin {"disk", "promote", "push", "write"},
           l \notin {"disk", "promote", "push", "write"},
           l = "checked" => QmFree,
           WakeAndGoto(W, t, l), UNCHANGED arg
    PROVE  ThreadTypeOK' /\ ArgsOK' /\ OneHolder'
<1>1. arg' = [arg EXCEPT ![t] = arg[t]]
  BY DEF ThreadTypeOK
<1>2. Fits(t, l, arg[t])
  BY DEF ThreadTypeOK, ArgsOK, Fits, Arg
<1> QED
  BY <1>1, <1>2, StepKeepsThreads

(* Every step keeps the types. *)
LEMMA TypeOKInductive ==
    ASSUME TypeOK, [Next]_vars
    PROVE  TypeOK'
<1> USE DEF TypeOK
<1>0. /\ Writer \in Threads
      /\ \A c \in Clients : c \in Threads /\ c # Writer
      /\ {} \in SUBSET Asleep /\ Asleep \in SUBSET Asleep
  BY AsyncAssumption DEF Threads
<1>g. \A t \in Threads : \A l : Goto(t, l) => WakeAndGoto({}, t, l)
  BY GotoIsWake
<1>1. ASSUME NEW c \in Clients, NEW k \in Keys, GetMiss(c, k)
      PROVE  TypeOK'
  <2> DEFINE a == [key |-> k, val |-> None]
  <2>1. Goto(c, "disk") /\ arg' = [arg EXCEPT ![c] = a] /\ UNCHANGED <<shared, bounds>>
    BY <1>1 DEF GetMiss, Hold
  <2>2. Fits(c, "disk", a)
    BY <1>0 DEF Fits, Arg, ClientLocs
  <2>3. ArgsOK' /\ ThreadTypeOK' /\ OneHolder'
    BY <1>0, <1>g, <2>1, <2>2, StepKeepsThreads
  <2> QED
    BY <2>1, <2>3 DEF StoreTypeOK, shared, bounds
<1>2. ASSUME NEW c \in Clients, NEW k \in Keys, PutL1(c, k)
      PROVE  TypeOK'
  <2> DEFINE a == [key |-> k, val |-> puts + 1]
  <2>1. /\ Goto(c, "push") /\ arg' = [arg EXCEPT ![c] = a]
        /\ puts < MaxPuts /\ puts' = puts + 1
        /\ l1' = [l1 EXCEPT ![k] = puts + 1]
        /\ UNCHANGED <<disk, q, busy, stop, queued, persisted, hist, spurious>>
    BY <1>2 DEF PutL1, Hold
  <2>2. puts + 1 \in 0..MaxPuts /\ puts + 1 \in Vals
    BY <2>1, AsyncAssumption DEF StoreTypeOK, Vals
  <2>3. Fits(c, "push", a)
    BY <1>0, <2>2 DEF Fits, Arg, ClientLocs, Job
  <2>4. ArgsOK' /\ ThreadTypeOK' /\ OneHolder'
    BY <1>0, <1>g, <2>1, <2>3, StepKeepsThreads
  <2> QED
    BY <2>1, <2>2, <2>4 DEF StoreTypeOK
<1>3. ASSUME NEW c \in Clients, FlushCall(c) \/ FlushReturn(c) \/ DtorJoin(c)
      PROVE  TypeOK'
  <2>1. /\ pc[c] \in {"idle", "wait", "join"}
        /\ \E l \in {"wait", "idle", "gone"} : Goto(c, l)
        /\ UNCHANGED <<shared, arg, bounds>>
    BY <1>3 DEF FlushCall, FlushReturn, DtorJoin
  <2>2. ArgsOK' /\ ThreadTypeOK' /\ OneHolder'
    BY <1>0, <1>g, <2>1, ControlStep DEF ClientLocs
  <2> QED
    BY <2>1, <2>2 DEF StoreTypeOK, shared, bounds
<1>4. ASSUME NEW c \in Clients, DtorStop(c)
      PROVE  TypeOK'
  <2>1. /\ pc[c] = "idle" /\ Goto(c, "dtor") /\ stop' = TRUE
        /\ UNCHANGED <<l1, disk, q, busy, queued, persisted, hist, arg, bounds>>
    BY <1>4 DEF DtorStop
  <2>2. ArgsOK' /\ ThreadTypeOK' /\ OneHolder'
    BY <1>0, <1>g, <2>1, ControlStep DEF ClientLocs
  <2> QED
    BY <2>1, <2>2 DEF StoreTypeOK, bounds
<1>5. ASSUME NEW c \in Clients, GetDisk(c)
      PROVE  TypeOK'
  <2> DEFINE k == arg[c].key
             a == [key |-> k, val |-> disk[k]]
  <2>1. /\ pc[c] = "disk" /\ UNCHANGED <<shared, bounds>>
        /\ \/ arg' = [arg EXCEPT ![c] = NoArg] /\ Goto(c, "idle")
           \/ disk[k] # None /\ arg' = [arg EXCEPT ![c] = a] /\ Goto(c, "promote")
    BY <1>5 DEF GetDisk, Hold, Drop
  <2>2. k \in Keys
    BY <1>0, <2>1 DEF ArgsOK
  <2>3. /\ disk[k] # None => Fits(c, "promote", a)
        /\ Fits(c, "idle", NoArg)
    BY <1>0, <2>2 DEF Fits, Arg, ClientLocs, Job, NoArg, StoreTypeOK
  <2>4. ArgsOK' /\ ThreadTypeOK' /\ OneHolder'
    <3> HIDE DEF a, k
    <3> QED
      BY <1>0, <1>g, <2>1, <2>3, StepKeepsThreads
  <2> QED
    BY <2>1, <2>4 DEF StoreTypeOK, shared, bounds
<1>6. ASSUME NEW c \in Clients, GetPromote(c)
      PROVE  TypeOK'
  <2>1. /\ pc[c] = "promote" /\ arg' = [arg EXCEPT ![c] = NoArg] /\ Goto(c, "idle")
        /\ l1' = [l1 EXCEPT ![arg[c].key] = arg[c].val]
        /\ UNCHANGED <<disk, q, busy, stop, queued, persisted, hist, bounds>>
    BY <1>6 DEF GetPromote, Drop
  <2>2. arg[c].key \in Keys /\ arg[c].val \in Vals
    BY <1>0, <2>1 DEF ArgsOK, Job
  <2>3. Fits(c, "idle", NoArg)
    BY <1>0 DEF Fits, Arg, ClientLocs, NoArg
  <2>4. ArgsOK' /\ ThreadTypeOK' /\ OneHolder'
    BY <1>0, <1>g, <2>1, <2>3, StepKeepsThreads
  <2> QED
    BY <2>1, <2>2, <2>4 DEF StoreTypeOK, bounds
<1>7. ASSUME NEW c \in Clients, PutPush(c)
      PROVE  TypeOK'
  <2>1. /\ pc[c] = "push" /\ arg' = [arg EXCEPT ![c] = NoArg] /\ Goto(c, "count")
        /\ q' = Append(q, arg[c]) /\ hist' = Append(hist, arg[c])
        /\ UNCHANGED <<l1, disk, busy, stop, queued, persisted, bounds>>
    BY <1>7 DEF PutPush, Drop
  <2>2. arg[c] \in Job
    BY <1>0, <2>1 DEF ArgsOK
  <2>3. q' \in Seq(Job) /\ hist' \in Seq(Job)
    BY <2>1, <2>2, AppendProperties DEF StoreTypeOK
  <2>4. Fits(c, "count", NoArg)
    BY <1>0 DEF Fits, Arg, ClientLocs, NoArg
  <2>5. ArgsOK' /\ ThreadTypeOK' /\ OneHolder'
    BY <1>0, <1>g, <2>1, <2>4, StepKeepsThreads
  <2> QED
    BY <2>1, <2>3, <2>5 DEF StoreTypeOK, bounds
<1>8. ASSUME NEW c \in Clients, PutCount(c)
      PROVE  TypeOK'
  <2>1. /\ pc[c] = "count" /\ Goto(c, "notify") /\ queued' = queued + 1
        /\ UNCHANGED <<l1, disk, q, busy, stop, persisted, hist, arg, bounds>>
    BY <1>8 DEF PutCount
  <2>2. ArgsOK' /\ ThreadTypeOK' /\ OneHolder'
    BY <1>0, <1>g, <2>1, ControlStep DEF ClientLocs
  <2> QED
    BY <2>1, <2>2 DEF StoreTypeOK, bounds
<1>9. ASSUME NEW c \in Clients, PutNotify(c) \/ DtorNotify(c)
      PROVE  TypeOK'
  <2>1. /\ pc[c] \in {"notify", "dtor"} /\ UNCHANGED <<shared, arg, bounds>>
        /\ \/ Goto(c, "idle")
           \/ \E t \in Asleep : WakeAndGoto({t}, c, "idle")
           \/ WakeAndGoto(Asleep, c, "join")
    BY <1>9 DEF PutNotify, DtorNotify
  <2>2. \E W \in SUBSET Asleep, l \in {"idle", "join"} : WakeAndGoto(W, c, l)
    BY <1>0, <1>g, <2>1
  <2>3. ArgsOK' /\ ThreadTypeOK' /\ OneHolder'
    BY <1>0, <2>1, <2>2, ControlStep DEF ClientLocs
  <2> QED
    BY <2>1, <2>3 DEF StoreTypeOK, shared, bounds
<1>10. ASSUME NEW t \in Threads, WaitFalse(t) \/ Block(t)
       PROVE  TypeOK'
  <2>1. /\ pc[t] \in {"wait", "checked"} /\ UNCHANGED <<shared, arg, bounds>>
        /\ \E l \in {"checked", "asleep"} : Goto(t, l) /\ (l = "checked" => QmFree)
    BY <1>10 DEF WaitFalse, Block
  <2>2. ArgsOK' /\ ThreadTypeOK' /\ OneHolder'
    BY <1>0, <1>g, <2>1, ControlStep DEF ClientLocs, WriterLocs
  <2> QED
    BY <2>1, <2>2 DEF StoreTypeOK, shared, bounds
<1>11. ASSUME NEW t \in Threads, SpuriousWake(t)
       PROVE  TypeOK'
  <2>1. /\ pc[t] = "asleep" /\ Goto(t, "wait")
        /\ spurious < MaxSpurious /\ spurious' = spurious + 1
        /\ UNCHANGED <<l1, disk, q, busy, stop, queued, persisted, hist, arg, puts>>
    BY <1>11 DEF SpuriousWake, shared
  <2>2. ArgsOK' /\ ThreadTypeOK' /\ OneHolder'
    BY <1>0, <1>g, <2>1, ControlStep DEF ClientLocs, WriterLocs
  <2>3. spurious' \in 0..MaxSpurious
    BY <2>1, AsyncAssumption DEF StoreTypeOK
  <2> QED
    BY <2>1, <2>2, <2>3 DEF StoreTypeOK
<1>12. CASE WriterTake
  <2>1. /\ pc[Writer] = "wait" /\ q # <<>> /\ Goto(Writer, "write")
        /\ arg' = [arg EXCEPT ![Writer] = Head(q)] /\ q' = Tail(q) /\ busy' = TRUE
        /\ UNCHANGED <<l1, disk, stop, queued, persisted, hist, bounds>>
    BY <1>12 DEF WriterTake
  <2>2. Head(q) \in Job /\ q' \in Seq(Job)
    BY <2>1, HeadTailProperties DEF StoreTypeOK
  <2>3. Fits(Writer, "write", Head(q))
    BY <2>2 DEF Fits, Arg, WriterLocs, Job
  <2>4. ArgsOK' /\ ThreadTypeOK' /\ OneHolder'
    BY <1>0, <1>g, <2>1, <2>3, StepKeepsThreads
  <2> QED
    BY <2>1, <2>2, <2>4 DEF StoreTypeOK, bounds
<1>13. CASE WriterPut
  <2>1. /\ pc[Writer] = "write" /\ Goto(Writer, "persisted")
        /\ arg' = [arg EXCEPT ![Writer] = NoArg]
        /\ disk' = [disk EXCEPT ![arg[Writer].key] = arg[Writer].val]
        /\ UNCHANGED <<l1, q, busy, stop, queued, persisted, hist, bounds>>
    BY <1>13 DEF WriterPut, Drop
  <2>2. arg[Writer].key \in Keys /\ arg[Writer].val \in Vals
    BY <1>0, <2>1 DEF ArgsOK, Job
  <2>3. Fits(Writer, "persisted", NoArg)
    BY DEF Fits, Arg, WriterLocs, NoArg
  <2>4. ArgsOK' /\ ThreadTypeOK' /\ OneHolder'
    BY <1>0, <1>g, <2>1, <2>3, StepKeepsThreads
  <2> QED
    BY <2>1, <2>2, <2>4 DEF StoreTypeOK, bounds
<1>14. CASE WriterCount
  <2>1. /\ pc[Writer] = "persisted" /\ Goto(Writer, "finish")
        /\ persisted' = persisted + 1
        /\ UNCHANGED <<l1, disk, q, busy, stop, queued, hist, arg, bounds>>
    BY <1>14 DEF WriterCount
  <2>2. ArgsOK' /\ ThreadTypeOK' /\ OneHolder'
    BY <1>0, <1>g, <2>1, ControlStep DEF WriterLocs
  <2> QED
    BY <2>1, <2>2 DEF StoreTypeOK, bounds
<1>15. CASE WriterFinish
  <2>1. /\ pc[Writer] = "finish" /\ busy' = FALSE
        /\ \E W \in {{}, Asleep} : WakeAndGoto(W, Writer, "wait")
        /\ UNCHANGED <<l1, disk, q, stop, queued, persisted, hist, arg, bounds>>
    BY <1>15 DEF WriterFinish
  <2>2. ArgsOK' /\ ThreadTypeOK' /\ OneHolder'
    BY <1>0, <2>1, ControlStep DEF WriterLocs
  <2> QED
    BY <2>1, <2>2 DEF StoreTypeOK, bounds
<1>16. CASE WriterExit
  <2>1. /\ pc[Writer] = "wait" /\ Goto(Writer, "exit")
        /\ UNCHANGED <<shared, arg, bounds>>
    BY <1>16 DEF WriterExit
  <2>2. ArgsOK' /\ ThreadTypeOK' /\ OneHolder'
    BY <1>0, <1>g, <2>1, ControlStep DEF WriterLocs
  <2> QED
    BY <2>1, <2>2 DEF StoreTypeOK, shared, bounds
<1>17. CASE UNCHANGED vars
  BY <1>17 DEF vars, StoreTypeOK, ThreadTypeOK, ArgsOK, OneHolder
<1> QED
  BY <1>0, <1>1, <1>2, <1>3, <1>4, <1>5, <1>6, <1>7, <1>8, <1>9, <1>10, <1>11,
     <1>12, <1>13, <1>14, <1>15, <1>16, <1>17
     DEF Next, Continue, writer_loop

(* The constructor's state is well typed: the writer is about to wait. *)
LEMMA InitTypeOK == Init => TypeOK
<1> SUFFICES ASSUME Init PROVE TypeOK
  OBVIOUS
<1>1. StoreTypeOK
  <2>1. 0 \in Vals /\ 0 \in 0..MaxSpurious
    BY AsyncAssumption DEF Vals
  <2>2. disk \in [Keys -> Vals \cup {None}]
    BY <2>1, AsyncAssumption DEF Init
  <2>3. q \in Seq(Job) /\ hist \in Seq(Job)
    BY EmptySeq DEF Init
  <2> QED
    BY <2>1, <2>2, <2>3 DEF Init, StoreTypeOK, Vals
<1>2. ThreadTypeOK /\ ArgsOK /\ OneHolder
  BY AsyncAssumption DEF Init, ThreadTypeOK, ArgsOK, OneHolder, Threads,
                         ClientLocs, WriterLocs, NoArg
<1> QED
  BY <1>1, <1>2 DEF TypeOK

(* The cache's variables keep their types and qm_ has one holder at most.  *)
THEOREM AsyncTypeCorrect == Spec => []TypeOK
<1> QED
  BY InitTypeOK, TypeOKInductive, PTL DEF Spec

-----------------------------------------------------------------------------
(* What a step does to the queue, seen as one sequence of pending writes *)

(* One of: nothing; a write is accepted; the oldest pending one persists. *)
Kept == UNCHANGED <<Pending, disk, hist>>

(* A step that adds write w to the queue. *)
Accepted(w) ==
    /\ Pending' = Append(Pending, w)
    /\ hist' = Append(hist, w)
    /\ UNCHANGED disk

(* A step that moves the oldest write to the disk. *)
Persisted ==
    /\ Pending # <<>>
    /\ disk' = [disk EXCEPT ![Head(Pending).key] = Head(Pending).val]
    /\ Pending' = Tail(Pending)
    /\ UNCHANGED hist

(* A job in front of a queue of jobs. *)
LEMMA ConsProperties ==
    ASSUME NEW w \in Job, NEW s \in Seq(Job)
    PROVE  /\ <<w>> \o s \in Seq(Job)
           /\ <<w>> \o s # <<>>
           /\ Head(<<w>> \o s) = w
           /\ Tail(<<w>> \o s) = s
<1>1. <<w>> \in Seq(Job) /\ Len(<<w>>) = 1 /\ <<w>>[1] = w
  OBVIOUS
<1>2. /\ <<w>> \o s \in Seq(Job)
      /\ Len(<<w>> \o s) = 1 + Len(s)
      /\ \A i \in 1..(1 + Len(s)) :
            (<<w>> \o s)[i] = IF i <= 1 THEN <<w>>[i] ELSE s[i - 1]
  BY <1>1, ConcatProperties
<1>3. Len(s) \in Nat
  BY LenProperties
<1>4. <<w>> \o s # <<>> /\ Head(<<w>> \o s) = w
  BY <1>1, <1>2, <1>3
<1>5. /\ Tail(<<w>> \o s) \in Seq(Job)
      /\ Len(Tail(<<w>> \o s)) = Len(s)
      /\ \A i \in 1..Len(s) : Tail(<<w>> \o s)[i] = (<<w>> \o s)[i + 1]
  BY <1>2, <1>3, <1>4, HeadTailProperties
<1>6. \A i \in 1..Len(s) : Tail(<<w>> \o s)[i] = s[i]
  BY <1>2, <1>3, <1>5
<1> QED
  BY <1>2, <1>4, <1>5, <1>6, SeqEqual

(* Taking the front off a queue and putting it back in front. *)
LEMMA HeadConsTail ==
    ASSUME NEW s \in Seq(Job), s # <<>>
    PROVE  <<Head(s)>> \o Tail(s) = s
<1>1. /\ Head(s) \in Job /\ Tail(s) \in Seq(Job) /\ Len(Tail(s)) = Len(s) - 1
      /\ \A i \in 1..Len(Tail(s)) : Tail(s)[i] = s[i + 1]
  BY HeadTailProperties
<1>2. /\ <<Head(s)>> \in Seq(Job) /\ Len(<<Head(s)>>) = 1
      /\ <<Head(s)>>[1] = s[1]
  BY <1>1
<1>3. Len(s) \in Nat \ {0}
  BY EmptySeq
<1>4. /\ <<Head(s)>> \o Tail(s) \in Seq(Job)
      /\ Len(<<Head(s)>> \o Tail(s)) = 1 + Len(Tail(s))
      /\ \A i \in 1..(1 + Len(Tail(s))) : (<<Head(s)>> \o Tail(s))[i] =
            IF i <= 1 THEN <<Head(s)>>[i] ELSE Tail(s)[i - 1]
  BY <1>1, <1>2, ConcatProperties
<1>5. \A i \in 1..Len(s) : (<<Head(s)>> \o Tail(s))[i] = s[i]
  BY <1>1, <1>2, <1>3, <1>4
<1> QED
  BY <1>1, <1>3, <1>4, <1>5, SeqEqual

(* Pending is a sequence of jobs, with the job in flight in front. *)
LEMMA PendingIs ==
    ASSUME TypeOK
    PROVE  /\ Pending \in Seq(Job)
           /\ ~InFlight => Pending = q
           /\ InFlight => arg[Writer] \in Job /\ Pending = <<arg[Writer]>> \o q
<1>1. q \in Seq(Job) /\ (InFlight => arg[Writer] \in Job)
  BY DEF TypeOK, StoreTypeOK, ArgsOK, InFlight, Threads
<1>2. CASE InFlight
  BY <1>1, <1>2, ConsProperties DEF Pending
<1>3. CASE ~InFlight
  BY <1>1, <1>3, ConcatEmptySeq DEF Pending
<1> QED
  BY <1>2, <1>3

(* Moving a client, or the writer between points where it holds no job,    *)
(* leaves the pending writes alone.                                        *)
LEMMA QuietKeepsPending ==
    ASSUME TypeOK, NEW W \in SUBSET Asleep, NEW t \in Threads, NEW l,
           WakeAndGoto(W, t, l),
           t = Writer => pc[t] # "write" /\ l # "write",
           arg'[Writer] = arg[Writer], UNCHANGED <<q, disk, hist>>
    PROVE  Kept
<1>1. pc'[Writer] = "write" <=> pc[Writer] = "write"
  BY DEF WakeAndGoto, Threads, Asleep
<1> QED
  BY <1>1 DEF Kept, Pending, InFlight

(* Every step does one of the three things to the pending writes. *)
LEMMA PendingSteps ==
    ASSUME TypeOK, [Next]_vars
    PROVE  Kept \/ (\E w \in Job : Accepted(w)) \/ Persisted
<1>0. /\ Writer \in Threads
      /\ \A c \in Clients : c \in Threads /\ c # Writer
      /\ {} \in SUBSET Asleep /\ Asleep \in SUBSET Asleep
  BY AsyncAssumption DEF Threads
<1>g. \A t \in Threads : \A l : Goto(t, l) => WakeAndGoto({}, t, l)
  BY GotoIsWake DEF TypeOK
<1>a. \A c \in Clients : \A a : arg' = [arg EXCEPT ![c] = a] => arg'[Writer] = arg[Writer]
  BY <1>0 DEF TypeOK, ThreadTypeOK
<1>1. ASSUME NEW c \in Clients,
             \/ \E k \in Keys : GetMiss(c, k) \/ PutL1(c, k)
             \/ FlushCall(c) \/ DtorStop(c) \/ GetDisk(c) \/ GetPromote(c)
             \/ PutCount(c) \/ PutNotify(c) \/ FlushReturn(c)
             \/ DtorNotify(c) \/ DtorJoin(c)
      PROVE  Kept
  <2>1. UNCHANGED <<q, disk, hist>>
    BY <1>1 DEF GetMiss, PutL1, FlushCall, DtorStop, GetDisk, GetPromote, PutCount,
                PutNotify, FlushReturn, DtorNotify, DtorJoin, shared
  <2>2. arg'[Writer] = arg[Writer]
    BY <1>1, <1>a DEF GetMiss, PutL1, FlushCall, DtorStop, GetDisk, GetPromote,
                PutCount, PutNotify, FlushReturn, DtorNotify, DtorJoin, Hold, Drop
  <2>3. \/ \E l : Goto(c, l)
        \/ \E t \in Asleep : WakeAndGoto({t}, c, "idle")
        \/ WakeAndGoto(Asleep, c, "join")
    BY <1>1 DEF GetMiss, PutL1, FlushCall, DtorStop, GetDisk, GetPromote, PutCount,
                PutNotify, FlushReturn, DtorNotify, DtorJoin
  <2>4. \E W \in SUBSET Asleep : \E l : WakeAndGoto(W, c, l)
    BY <1>0, <1>g, <2>3
  <2> QED
    BY <1>0, <2>1, <2>2, <2>4, QuietKeepsPending
<1>2. ASSUME NEW c \in Clients, PutPush(c)
      PROVE  \E w \in Job : Accepted(w)
  <2>1. /\ pc[c] = "push" /\ Goto(c, "count") /\ arg'[Writer] = arg[Writer]
        /\ q' = Append(q, arg[c]) /\ hist' = Append(hist, arg[c])
        /\ UNCHANGED disk
    BY <1>2, <1>a DEF PutPush, Drop
  <2>2. arg[c] \in Job /\ q \in Seq(Job)
    BY <1>0, <2>1 DEF TypeOK, ArgsOK, StoreTypeOK
  <2>3. InFlight' <=> InFlight
    BY <1>0, <2>1 DEF InFlight, Goto, TypeOK, ThreadTypeOK
  <2>4. Pending' = Append(Pending, arg[c])
    <3>1. CASE InFlight
      <4>1. /\ <<arg[Writer]>> \in Seq(Job) /\ <<arg[c]>> \in Seq(Job)
            /\ Pending = <<arg[Writer]>> \o q /\ Pending \in Seq(Job)
        BY <2>2, <3>1, PendingIs
      <4>2. Append(Pending, arg[c]) = (<<arg[Writer]>> \o q) \o <<arg[c]>>
        BY <2>2, <4>1, AppendIsConcat
      <4>3. @ = <<arg[Writer]>> \o (q \o <<arg[c]>>)
        BY <2>2, <4>1, ConcatAssociative
      <4>4. @ = <<arg[Writer]>> \o q'
        BY <2>1, <2>2, AppendIsConcat
      <4> QED
        BY <2>1, <2>3, <3>1, <4>2, <4>3, <4>4 DEF Pending
    <3>2. CASE ~InFlight
      <4>1. q' \in Seq(Job)
        BY <2>1, <2>2, AppendProperties
      <4>2. Pending' = q'
        BY <2>3, <3>2, <4>1, ConcatEmptySeq DEF Pending
      <4> QED
        BY <2>1, <3>2, <4>2, PendingIs
    <3> QED
      BY <3>1, <3>2
  <2> QED
    BY <2>1, <2>2, <2>4 DEF Accepted
<1>3. ASSUME NEW t \in Threads, WaitFalse(t) \/ Block(t) \/ SpuriousWake(t)
      PROVE  Kept
  <2>1. /\ pc[t] # "write" /\ \E l \in {"checked", "asleep", "wait"} : Goto(t, l)
        /\ UNCHANGED <<q, disk, hist, arg>>
    BY <1>3 DEF WaitFalse, Block, SpuriousWake, shared
  <2> QED
    BY <1>0, <1>g, <2>1, QuietKeepsPending
<1>4. CASE WriterTake
  <2>1. /\ pc[Writer] = "wait" /\ pc'[Writer] = "write" /\ q # <<>>
        /\ arg'[Writer] = Head(q) /\ q' = Tail(q) /\ UNCHANGED <<disk, hist>>
    BY <1>0, <1>4 DEF WriterTake, Goto, TypeOK, ThreadTypeOK
  <2>2. Pending = q
    BY <2>1, PendingIs DEF InFlight
  <2>3. Pending' = <<Head(q)>> \o Tail(q)
    BY <2>1 DEF Pending, InFlight
  <2> QED
    BY <2>1, <2>2, <2>3, HeadConsTail DEF TypeOK, StoreTypeOK, Kept
<1>5. CASE WriterPut
  <2>1. /\ pc[Writer] = "write" /\ pc'[Writer] = "persisted"
        /\ disk' = [disk EXCEPT ![arg[Writer].key] = arg[Writer].val]
        /\ UNCHANGED <<q, hist>>
    BY <1>0, <1>5 DEF WriterPut, Goto, TypeOK, ThreadTypeOK
  <2>2. arg[Writer] \in Job /\ Pending = <<arg[Writer]>> \o q /\ q \in Seq(Job)
    BY <2>1, PendingIs DEF InFlight, TypeOK, StoreTypeOK
  <2>3. Pending' = q
    BY <2>1, <2>2, ConcatEmptySeq DEF Pending, InFlight
  <2>4. Pending # <<>> /\ Head(Pending) = arg[Writer] /\ Tail(Pending) = q
    BY <2>2, ConsProperties
  <2> QED
    BY <2>1, <2>3, <2>4 DEF Persisted
<1>6. CASE WriterCount \/ WriterFinish \/ WriterExit
  <2>1. /\ pc[Writer] # "write" /\ UNCHANGED <<q, disk, hist, arg>>
        /\ \/ \E l \in {"finish", "exit"} : Goto(Writer, l)
           \/ \E W \in {{}, Asleep} : WakeAndGoto(W, Writer, "wait")
    BY <1>6 DEF WriterCount, WriterFinish, WriterExit, shared
  <2>2. \E W \in SUBSET Asleep, l \in {"finish", "exit", "wait"} : WakeAndGoto(W, Writer, l)
    BY <1>0, <1>g, <2>1
  <2> QED
    BY <1>0, <2>1, <2>2, QuietKeepsPending
<1>7. CASE UNCHANGED vars
  BY <1>7 DEF vars, Kept, Pending, InFlight
<1> QED
  BY <1>0, <1>1, <1>2, <1>3, <1>4, <1>5, <1>6, <1>7 DEF Next, Continue, writer_loop

(* CacheStoreAsync implements WriteBehind: whatever the threads do, writes *)
(* are accepted by put's push and persisted one by one in that order by    *)
(* the writer's disk_.put; every other step is invisible.                  *)
THEOREM AsyncImplementsWriteBehind == Spec => ImplementsWriteBehind
<1>1. Init => Abstract!Init
  <2> SUFFICES ASSUME Init PROVE disk = Disk0 /\ Pending = <<>>
    BY DEF Abstract!Init
  <2>1. ~InFlight /\ q = <<>>
    BY DEF Init, InFlight, Threads
  <2> QED
    BY <2>1, InitTypeOK, PendingIs DEF Init
<1>2. TypeOK /\ [Next]_vars => [Abstract!Next]_<<disk, Pending>>
  <2> SUFFICES ASSUME TypeOK, [Next]_vars
               PROVE  Abstract!Next \/ UNCHANGED <<disk, Pending>>
    OBVIOUS
  <2>1. CASE Kept
    BY <2>1 DEF Kept
  <2>2. ASSUME NEW w \in Job, Accepted(w)
        PROVE  Abstract!Next
    <3>1. w = [key |-> w.key, val |-> w.val] /\ w.key \in Keys /\ w.val \in Vals
      BY DEF Job
    <3>2. Abstract!Accept(w.key, w.val)
      BY <2>2, <3>1 DEF Accepted, Abstract!Accept
    <3> QED
      BY <3>1, <3>2 DEF Abstract!Next
  <2>3. CASE Persisted
    BY <2>3 DEF Persisted, Abstract!Next, Abstract!Persist
  <2> QED
    BY <2>1, <2>2, <2>3, PendingSteps
<1> QED
  BY <1>1, <1>2, AsyncTypeCorrect, PTL DEF Spec, ImplementsWriteBehind, Abstract!Spec

-----------------------------------------------------------------------------
(* The disk holds a prefix of the history *)

(* Every step keeps DiskIsPrefix. *)
LEMMA PrefixInductive ==
    ASSUME TypeOK, DiskIsPrefix, [Next]_vars
    PROVE  DiskIsPrefix'
<1>1. /\ hist \in Seq(Job) /\ Pending \in Seq(Job)
      /\ disk \in [Keys -> Vals \cup {None}]
      /\ Len(hist) \in Nat /\ Len(Pending) \in Nat
  BY PendingIs, LenProperties DEF TypeOK, StoreTypeOK
<1>2. /\ Landed \in 0..Len(hist) /\ Landed = Len(hist) - Len(Pending)
      /\ \A i \in 1..Len(Pending) : Pending[i] = hist[Landed + i]
      /\ \A k \in Keys : IsLatest(k, Landed, disk[k])
  BY DEF DiskIsPrefix, Landed
<1>3. CASE Kept
  BY <1>3 DEF Kept, DiskIsPrefix, Landed, IsLatest
<1>4. ASSUME NEW w \in Job, Accepted(w)
      PROVE  DiskIsPrefix'
  <2>1. /\ Pending' = Append(Pending, w) /\ hist' = Append(hist, w) /\ disk' = disk
        /\ Len(Pending') = Len(Pending) + 1 /\ Len(hist') = Len(hist) + 1
        /\ \A i \in 1..Len(Pending) : Pending'[i] = Pending[i]
        /\ \A i \in 1..Len(hist) : hist'[i] = hist[i]
        /\ Pending'[Len(Pending) + 1] = w /\ hist'[Len(hist) + 1] = w
    BY <1>1, <1>4, AppendProperties DEF Accepted
  <2>2. Landed' = Landed
    BY <1>1, <1>2, <2>1 DEF Landed
  <2>3. ASSUME NEW i \in 1..Len(Pending')
        PROVE  Pending'[i] = hist'[Landed + i]
    <3>1. CASE i \in 1..Len(Pending)
      <4>1. Landed + i \in 1..Len(hist)
        BY <1>1, <1>2, <3>1
      <4> QED
        BY <1>2, <2>1, <3>1, <4>1
    <3>2. CASE i = Len(Pending) + 1
      <4>1. Landed + i = Len(hist) + 1
        BY <1>1, <1>2, <3>2
      <4> QED
        BY <2>1, <3>2, <4>1
    <3>3. i \in 1..(Len(Pending) + 1)
      BY <2>1
    <3>4. i \in 1..Len(Pending) \/ i = Len(Pending) + 1
      BY <1>1, <3>3
    <3> QED
      BY <3>1, <3>2, <3>4
  <2>4. ASSUME NEW k \in Keys
        PROVE  IsLatest(k, Landed, disk[k])'
    <3>1. IsLatest(k, Landed, disk[k])
      BY <1>2
    <3>2. \A i \in 1..Landed : hist'[i] = hist[i]
      BY <1>1, <1>2, <2>1
    <3>3. \A i \in 1..Landed : \A j \in (i + 1)..Landed : j \in 1..Landed
      BY <1>2
    <3>4. \/ disk[k] = Disk0[k] /\ \A i \in 1..Landed : hist'[i].key # k
          \/ \E i \in 1..Landed : /\ hist'[i].key = k /\ hist'[i].val = disk[k]
                                 /\ \A j \in (i + 1)..Landed : hist'[j].key # k
      BY <3>1, <3>2, <3>3 DEF IsLatest
    <3> QED
      BY <2>1, <2>2, <3>4 DEF IsLatest
  <2>5. Len(hist') = Len(hist) + 1
    BY <2>1
  <2>6. Landed' \in 0..Len(hist')
    BY <1>1, <1>2, <2>2, <2>5
  <2> QED
    BY <2>2, <2>3, <2>4, <2>6 DEF DiskIsPrefix
<1>5. CASE Persisted
  <2> DEFINE w == Head(Pending)
             n == Landed
  <2>1. /\ Pending # <<>> /\ hist' = hist /\ Pending' = Tail(Pending)
        /\ disk' = [disk EXCEPT ![w.key] = w.val]
    BY <1>5 DEF Persisted
  <2>2. /\ Len(Pending) \in Nat \ {0} /\ Len(Pending') = Len(Pending) - 1
        /\ \A i \in 1..Len(Pending') : Pending'[i] = Pending[i + 1]
        /\ w \in Job /\ w = Pending[1]
    BY <1>1, <2>1, HeadTailProperties, EmptySeq
  <2>3. Landed' = n + 1 /\ n + 1 \in 1..Len(hist) /\ w = hist[n + 1]
    BY <1>1, <1>2, <2>1, <2>2 DEF Landed
  <2>4. \A i \in 1..Len(Pending') : Pending'[i] = hist[n + 1 + i]
    BY <1>1, <1>2, <2>2
  <2>5. ASSUME NEW k \in Keys
        PROVE  IsLatest(k, Landed, disk[k])'
    <3> HIDE DEF w, n
    <3>1. n \in Nat
      BY <1>2 DEF n
    <3>2. CASE k = w.key
      <4>1. disk'[k] = w.val /\ hist'[n + 1].key = k /\ hist'[n + 1].val = disk'[k]
        BY <1>1, <2>1, <2>2, <2>3, <3>2
      <4>2. n + 1 \in 1..(n + 1) /\ \A j \in (n + 1 + 1)..(n + 1) : FALSE
        BY <3>1
      <4>3. \E i \in 1..(n + 1) : /\ hist'[i].key = k /\ hist'[i].val = disk'[k]
                                  /\ \A j \in (i + 1)..(n + 1) : hist'[j].key # k
        BY <4>1, <4>2
      <4> QED
        BY <2>3, <4>3 DEF IsLatest
    <3>3. CASE k # w.key
      <4>1. disk'[k] = disk[k] /\ hist[n + 1].key # k
        BY <1>1, <2>1, <2>3, <3>3
      <4>2. IsLatest(k, n, disk[k])
        BY <1>2 DEF n
      <4>3. \A j \in 1..(n + 1) : j \in 1..n \/ j = n + 1
        BY <3>1
      <4>4. \A i \in 1..n : /\ i \in 1..(n + 1)
                            /\ \A j \in (i + 1)..(n + 1) : j \in (i + 1)..n \/ j = n + 1
        BY <3>1
      <4>5. \/ disk[k] = Disk0[k] /\ \A i \in 1..(n + 1) : hist[i].key # k
            \/ \E i \in 1..(n + 1) : /\ hist[i].key = k /\ hist[i].val = disk[k]
                                     /\ \A j \in (i + 1)..(n + 1) : hist[j].key # k
        BY <4>1, <4>2, <4>3, <4>4 DEF IsLatest
      <4> QED
        BY <2>1, <2>3, <4>1, <4>5 DEF IsLatest
    <3> QED
      BY <3>2, <3>3
  <2> QED
    BY <1>1, <1>2, <2>1, <2>3, <2>4, <2>5 DEF DiskIsPrefix
<1> QED
  BY <1>3, <1>4, <1>5, PendingSteps

(* Writes reach the disk once each and in the order of the pushes. *)
THEOREM WritesInOrder == Spec => []DiskIsPrefix
<1>1. Init => DiskIsPrefix
  <2> SUFFICES ASSUME Init PROVE DiskIsPrefix
    OBVIOUS
  <2>1. Pending = <<>> /\ hist = <<>> /\ disk = Disk0
    <3>1. ~InFlight /\ q = <<>>
      BY DEF Init, InFlight, Threads
    <3> QED
      BY <3>1, InitTypeOK, PendingIs DEF Init
  <2>2. Len(Pending) = 0 /\ Len(hist) = 0 /\ Landed = 0
    BY <2>1, EmptySeq DEF Landed
  <2> QED
    BY <2>1, <2>2 DEF DiskIsPrefix, IsLatest
<1>2. TypeOK /\ DiskIsPrefix /\ [Next]_vars => DiskIsPrefix'
  BY PrefixInductive
<1> QED
  BY <1>1, <1>2, AsyncTypeCorrect, PTL DEF Spec

-----------------------------------------------------------------------------
(* Durable flush *)

(* busy_ is set exactly while the writer is working on a job. *)
BusyInv == busy <=> pc[Writer] \in {"write", "persisted", "finish"}

(* Every step moves one thread, perhaps notifying others, and only flush   *)
(* goes from waiting to idle.                                              *)
LEMMA OneThreadMoves ==
    ASSUME TypeOK, Next
    PROVE  \E t \in Threads, W \in SUBSET Asleep : \E l :
              /\ WakeAndGoto(W, t, l)
              /\ pc[t] = "wait" /\ l = "idle" => t \in Clients /\ FlushReturn(t)
<1>0. /\ Writer \in Threads
      /\ \A c \in Clients : c \in Threads
      /\ {} \in SUBSET Asleep /\ Asleep \in SUBSET Asleep
      /\ \A t \in Asleep : {t} \in SUBSET Asleep
  BY DEF Threads
<1>g. \A t \in Threads : \A l : Goto(t, l) => WakeAndGoto({}, t, l)
  BY GotoIsWake DEF TypeOK
<1> DEFINE Moves(t, l) == \E W \in SUBSET Asleep : WakeAndGoto(W, t, l)
<1>1. ASSUME NEW c \in Clients,
             \/ \E k \in Keys : GetMiss(c, k) \/ PutL1(c, k)
             \/ FlushCall(c) \/ DtorStop(c) \/ GetDisk(c) \/ GetPromote(c)
             \/ PutPush(c) \/ PutCount(c) \/ PutNotify(c)
             \/ DtorNotify(c) \/ DtorJoin(c)
      PROVE  pc[c] # "wait" /\ \E l : Moves(c, l)
  <2>1. pc[c] # "wait"
    BY <1>1 DEF GetMiss, PutL1, FlushCall, DtorStop, GetDisk, GetPromote, PutPush,
                PutCount, PutNotify, DtorNotify, DtorJoin
  <2>2. \/ \E l : Goto(c, l)
        \/ \E t \in Asleep : WakeAndGoto({t}, c, "idle")
        \/ WakeAndGoto(Asleep, c, "join")
    BY <1>1 DEF GetMiss, PutL1, FlushCall, DtorStop, GetDisk, GetPromote, PutPush,
                PutCount, PutNotify, DtorNotify, DtorJoin
  <2> QED
    BY <1>0, <1>g, <2>1, <2>2
<1>2. ASSUME NEW c \in Clients, FlushReturn(c)
      PROVE  Moves(c, "idle")
  BY <1>0, <1>g, <1>2 DEF FlushReturn
<1>3. ASSUME NEW t \in Threads, WaitFalse(t) \/ Block(t) \/ SpuriousWake(t)
      PROVE  \E l \in {"checked", "asleep", "wait"} : Moves(t, l)
  BY <1>0, <1>g, <1>3 DEF WaitFalse, Block, SpuriousWake
<1>4. CASE WriterTake \/ WriterPut \/ WriterCount \/ WriterFinish \/ WriterExit
  <2>1. \/ \E l \in {"write", "persisted", "finish", "exit"} : Goto(Writer, l)
        \/ \E W \in {{}, Asleep} : WakeAndGoto(W, Writer, "wait")
    BY <1>4 DEF WriterTake, WriterPut, WriterCount, WriterFinish, WriterExit
  <2>2. \E l \in {"write", "persisted", "finish", "exit", "wait"} : Moves(Writer, l)
    BY <1>0, <1>g, <2>1
  <2> QED
    BY <1>0, <2>2
<1> QED
  BY <1>0, <1>1, <1>2, <1>3, <1>4 DEF Next, Continue, writer_loop

(* A client goes from waiting to idle only by returning from flush. *)
LEMMA OnlyFlushReturns ==
    ASSUME TypeOK, [Next]_vars, NEW c \in Clients,
           pc[c] = "wait", pc'[c] = "idle"
    PROVE  FlushReturn(c)
<1>1. Next
  BY DEF vars
<1>2. PICK t \in Threads, W \in SUBSET Asleep :
         \E l : /\ WakeAndGoto(W, t, l)
                /\ pc[t] = "wait" /\ l = "idle" => t \in Clients /\ FlushReturn(t)
  BY <1>1, OneThreadMoves
<1>3. t = c
  BY <1>2 DEF WakeAndGoto, Threads
<1>4. FlushReturn(t)
  BY <1>2, <1>3 DEF WakeAndGoto
<1> QED
  BY <1>3, <1>4

(* Every step keeps busy_ in line with the writer. *)
LEMMA BusyInductive ==
    ASSUME TypeOK, BusyInv, [Next]_vars
    PROVE  BusyInv'
<1>0. /\ Writer \in Threads
      /\ \A c \in Clients : c # Writer
      /\ \A W \in SUBSET Asleep : Writer \in W => pc[Writer] = "asleep"
      /\ pc \in [Threads -> Locs]
  BY AsyncAssumption DEF Threads, TypeOK, ThreadTypeOK, Asleep, Locs
<1>1. ASSUME NEW c \in Clients,
             \/ \E k \in Keys : GetMiss(c, k) \/ PutL1(c, k)
             \/ FlushCall(c) \/ DtorStop(c) \/ Continue(c)
      PROVE  BusyInv'
  <2>1. busy' = busy
    BY <1>1 DEF GetMiss, PutL1, FlushCall, DtorStop, Continue, GetDisk, GetPromote,
                PutPush, PutCount, PutNotify, FlushReturn, DtorNotify, DtorJoin,
                WaitFalse, Block, shared
  <2>2. \/ \E l : Goto(c, l)
        \/ \E t \in Asleep : WakeAndGoto({t}, c, "idle")
        \/ WakeAndGoto(Asleep, c, "join")
    BY <1>1 DEF GetMiss, PutL1, FlushCall, DtorStop, Continue, GetDisk, GetPromote,
                PutPush, PutCount, PutNotify, FlushReturn, DtorNotify, DtorJoin,
                WaitFalse, Block
  <2>3. pc'[Writer] = pc[Writer] \/ (pc[Writer] = "asleep" /\ pc'[Writer] = "wait")
    BY <1>0, <2>2 DEF Goto, WakeAndGoto, Asleep
  <2> QED
    BY <2>1, <2>3 DEF BusyInv
<1>2. ASSUME NEW t \in Threads, WaitFalse(t) \/ Block(t) \/ SpuriousWake(t)
      PROVE  BusyInv'
  <2>1. /\ busy' = busy /\ pc[t] \in {"wait", "checked", "asleep"}
        /\ \E l \in {"wait", "checked", "asleep"} : Goto(t, l)
    BY <1>2 DEF WaitFalse, Block, SpuriousWake, shared
  <2>2. \/ pc'[Writer] = pc[Writer]
        \/ /\ pc[Writer] \in {"wait", "checked", "asleep"}
           /\ pc'[Writer] \in {"wait", "checked", "asleep"}
    BY <1>0, <2>1 DEF Goto
  <2> QED
    BY <2>1, <2>2 DEF BusyInv
<1>3. CASE WriterTake \/ WriterPut \/ WriterCount \/ WriterExit
  BY <1>0, <1>3 DEF WriterTake, WriterPut, WriterCount, WriterExit, Goto, BusyInv, shared
<1>4. CASE WriterFinish
  BY <1>0, <1>4 DEF WriterFinish, WakeAndGoto, BusyInv
<1>5. CASE UNCHANGED vars
  BY <1>5 DEF vars, BusyInv
<1> QED
  BY <1>0, <1>1, <1>2, <1>3, <1>4, <1>5 DEF Next, writer_loop

(* flush() returns only when all that was ever pushed is on disk: its      *)
(* predicate, an empty queue and a writer that is not busy, rules out a    *)
(* write in flight too.                                                    *)
THEOREM FlushIsDurable == Spec => FlushDurable
<1>1. Init => BusyInv
  BY DEF Init, BusyInv, Threads
<1>2. TypeOK /\ BusyInv /\ [Next]_vars => BusyInv'
  BY BusyInductive
<1>3. ASSUME TypeOK, BusyInv, DiskIsPrefix, [Next]_vars, NEW c \in Clients,
             pc[c] = "wait", pc'[c] = "idle", NEW k \in Keys
      PROVE  IsLatest(k, Len(hist), disk[k])
  <2>1. q = <<>> /\ ~busy
    BY <1>3, OnlyFlushReturns, AsyncAssumption DEF FlushReturn, Ready
  <2>2. Pending = <<>>
    BY <1>3, <2>1, PendingIs DEF BusyInv, InFlight
  <2>3. Landed = Len(hist)
    BY <1>3, <2>2, LenProperties, EmptySeq DEF Landed, TypeOK, StoreTypeOK
  <2> QED
    BY <1>3, <2>3 DEF DiskIsPrefix
<1>4. TypeOK /\ BusyInv /\ DiskIsPrefix /\ [Next]_vars =>
         [\A c \in Clients :
            pc[c] = "wait" /\ pc'[c] = "idle" =>
               \A k \in Keys : IsLatest(k, Len(hist), disk[k])]_vars
  BY <1>3
<1> QED
  BY <1>1, <1>2, <1>4, AsyncTypeCorrect, WritesInOrder, PTL DEF Spec, FlushDurable

-----------------------------------------------------------------------------
(* Counters and shutdown *)

(* The puts that have pushed their job and not counted it. *)
Counting == {c \in Clients : pc[c] = "count"}

(* Each counter lags behind hist by the jobs between the two statements. *)
CountInv ==
    /\ IsFiniteSet(Counting)
    /\ queued + Cardinality(Counting) = Len(hist)
    /\ persisted + (IF pc[Writer] \in {"write", "persisted"} THEN 1 ELSE 0) + Len(q)
         = Len(hist)

(* Once the destructor has set stop_ no call is in progress, and the       *)
(* writer leaves only an empty queue behind.                               *)
StopInv ==
    /\ stop => \A c \in Clients : pc[c] \in {"idle", "dtor", "join", "gone"}
    /\ pc[Writer] = "exit" => stop /\ q = <<>>

(* Where the threads are after t has moved to l. *)
LEMMA WhereAfter ==
    ASSUME TypeOK, NEW t \in Threads, NEW l, NEW W \in SUBSET Asleep, WakeAndGoto(W, t, l)
    PROVE  /\ pc'[t] = l
           /\ \A u \in Threads \ {t} : \/ pc'[u] = pc[u]
                                       \/ pc[u] = "asleep" /\ pc'[u] = "wait"
BY DEF WakeAndGoto, Asleep

(* Calls of clients, apart from the push and its count, move one client    *)
(* between points that are not "count" and leave queue and counters alone. *)
LEMMA OtherClientSteps ==
    ASSUME TypeOK, NEW c \in Clients,
           \/ \E k \in Keys : GetMiss(c, k) \/ PutL1(c, k)
           \/ FlushCall(c) \/ DtorStop(c) \/ GetDisk(c) \/ GetPromote(c)
           \/ PutNotify(c) \/ FlushReturn(c) \/ DtorNotify(c) \/ DtorJoin(c)
           \/ WaitFalse(c) \/ Block(c) \/ SpuriousWake(c)
    PROVE  /\ UNCHANGED <<q, hist, queued, persisted>>
           /\ pc[c] # "count" /\ pc'[c] # "count"
           /\ \A u \in Threads \ {c} : \/ pc'[u] = pc[u]
                                       \/ pc[u] = "asleep" /\ pc'[u] = "wait"
           /\ stop => /\ stop'
                      /\ pc[c] \in {"idle", "gone"} => FALSE
                      /\ pc[c] \in {"dtor", "join"} => pc'[c] \in {"join", "gone"}
           /\ stop' /\ ~stop => /\ \A d \in Clients : pc[d] = "idle"
                                /\ pc'[c] = "dtor"
<1>0. c \in Threads
  BY DEF Threads
<1>1. UNCHANGED <<q, hist, queued, persisted>> /\ pc[c] # "count"
  BY DEF GetMiss, PutL1, FlushCall, DtorStop, GetDisk, GetPromote, PutNotify,
         FlushReturn, DtorNotify, DtorJoin, WaitFalse, Block, SpuriousWake, shared
<1> DEFINE L == {"disk", "push", "wait", "dtor", "idle", "promote", "gone", "checked", "asleep"}
<1>2. \/ \E l \in L : Goto(c, l)
      \/ \E t \in Asleep : WakeAndGoto({t}, c, "idle")
      \/ WakeAndGoto(Asleep, c, "join")
  BY DEF GetMiss, PutL1, FlushCall, DtorStop, GetDisk, GetPromote, PutNotify,
         FlushReturn, DtorNotify, DtorJoin, WaitFalse, Block, SpuriousWake
<1>3. PICK W \in SUBSET Asleep, l \in L \cup {"join"} : WakeAndGoto(W, c, l)
  BY <1>0, <1>2, GotoIsWake DEF TypeOK
<1>4. /\ pc'[c] = l
      /\ \A u \in Threads \ {c} : pc'[u] = pc[u] \/ (pc[u] = "asleep" /\ pc'[u] = "wait")
  BY <1>0, <1>3, WhereAfter
<1>5. pc'[c] # "count"
  BY <1>4
<1>6. stop => stop' /\ pc[c] \notin {"idle", "gone"}
  BY DEF GetMiss, PutL1, FlushCall, DtorStop, GetDisk, GetPromote, PutNotify,
         FlushReturn, DtorNotify, DtorJoin, WaitFalse, Block, SpuriousWake, shared
<1>7. pc[c] \in {"dtor", "join"} => DtorNotify(c) \/ DtorJoin(c)
  BY DEF GetMiss, PutL1, FlushCall, DtorStop, GetDisk, GetPromote, PutNotify,
         FlushReturn, WaitFalse, Block, SpuriousWake
<1>8. pc[c] \in {"dtor", "join"} => pc'[c] \in {"join", "gone"}
  BY <1>0, <1>7 DEF DtorNotify, DtorJoin, WakeAndGoto, Goto, TypeOK, ThreadTypeOK
<1>9. stop' /\ ~stop => DtorStop(c)
  BY DEF GetMiss, PutL1, FlushCall, GetDisk, GetPromote, PutNotify,
         FlushReturn, DtorNotify, DtorJoin, WaitFalse, Block, SpuriousWake, shared
<1>10. stop' /\ ~stop => (\A d \in Clients : pc[d] = "idle") /\ pc'[c] = "dtor"
  BY <1>0, <1>9 DEF DtorStop, Goto, TypeOK, ThreadTypeOK
<1> QED
  BY <1>1, <1>4, <1>5, <1>6, <1>8, <1>10

(* Every step keeps the counters' and the shutdown's invariant. *)
LEMMA CountInductive ==
    ASSUME TypeOK, CountInv, StopInv, [Next]_vars
    PROVE  CountInv' /\ StopInv'
<1>0. /\ Writer \in Threads
      /\ \A c \in Clients : c \in Threads /\ c # Writer
      /\ pc \in [Threads -> Locs] /\ pc[Writer] \in WriterLocs
      /\ q \in Seq(Job) /\ hist \in Seq(Job)
      /\ queued \in Nat /\ persisted \in Nat
      /\ Len(q) \in Nat /\ Len(hist) \in Nat
      /\ Cardinality(Counting) \in Nat
      /\ stop \in BOOLEAN
  BY AsyncAssumption, LenProperties, FS_CardinalityType
     DEF TypeOK, ThreadTypeOK, StoreTypeOK, Threads, Locs, CountInv
<1>1. ASSUME NEW c \in Clients,
           \/ \E k \in Keys : GetMiss(c, k) \/ PutL1(c, k)
           \/ FlushCall(c) \/ DtorStop(c) \/ GetDisk(c) \/ GetPromote(c)
           \/ PutNotify(c) \/ FlushReturn(c) \/ DtorNotify(c) \/ DtorJoin(c)
           \/ WaitFalse(c) \/ Block(c) \/ SpuriousWake(c)
      PROVE  CountInv' /\ StopInv'
  <2>1. /\ UNCHANGED <<q, hist, queued, persisted>>
        /\ pc[c] # "count" /\ pc'[c] # "count"
        /\ \A u \in Threads \ {c} : pc'[u] = pc[u] \/ (pc[u] = "asleep" /\ pc'[u] = "wait")
        /\ stop => /\ stop'
                   /\ pc[c] \in {"idle", "gone"} => FALSE
                   /\ pc[c] \in {"dtor", "join"} => pc'[c] \in {"join", "gone"}
        /\ stop' /\ ~stop => (\A d \in Clients : pc[d] = "idle") /\ pc'[c] = "dtor"
    BY <1>1, OtherClientSteps
  <2>2. Counting' = Counting
    BY <1>0, <2>1 DEF Counting
  <2>3. pc'[Writer] = pc[Writer] \/ (pc[Writer] = "asleep" /\ pc'[Writer] = "wait")
    BY <1>0, <2>1
  <2>4. CountInv'
    BY <2>1, <2>2, <2>3 DEF CountInv
  <2>5. StopInv'
    <3>1. ASSUME stop', NEW d \in Clients
          PROVE  pc'[d] \in {"idle", "dtor", "join", "gone"}
      <4>1. CASE d = c
        BY <2>1, <3>1, <4>1 DEF StopInv
      <4>2. CASE d # c
        BY <1>0, <2>1, <3>1, <4>2 DEF StopInv
      <4> QED
        BY <4>1, <4>2
    <3>2. pc'[Writer] = "exit" => stop' /\ q' = <<>>
      BY <2>1, <2>3 DEF StopInv
    <3> QED
      BY <3>1, <3>2 DEF StopInv
  <2> QED
    BY <2>4, <2>5
<1>2. ASSUME NEW c \in Clients, PutPush(c)
      PROVE  CountInv' /\ StopInv'
  <2>1. /\ pc[c] = "push" /\ pc' = [pc EXCEPT ![c] = "count"]
        /\ q' = Append(q, arg[c]) /\ hist' = Append(hist, arg[c])
        /\ UNCHANGED <<queued, persisted, stop>>
    BY <1>2 DEF PutPush, Goto
  <2>2. arg[c] \in Job
    BY <1>0, <2>1 DEF TypeOK, ArgsOK
  <2>3. Len(q') = Len(q) + 1 /\ Len(hist') = Len(hist) + 1
    BY <1>0, <2>1, <2>2, AppendProperties
  <2>4. Counting' = Counting \cup {c} /\ c \notin Counting
    BY <1>0, <2>1 DEF Counting
  <2>5. IsFiniteSet(Counting') /\ Cardinality(Counting') = Cardinality(Counting) + 1
    BY <2>4, FS_AddElement DEF CountInv
  <2>6. pc'[Writer] = pc[Writer]
    BY <1>0, <2>1
  <2>7. CountInv'
    <3>1. queued' + Cardinality(Counting') = Len(hist')
      BY <1>0, <2>1, <2>3, <2>5 DEF CountInv
    <3>2. persisted' + (IF pc'[Writer] \in {"write", "persisted"} THEN 1 ELSE 0) + Len(q')
            = Len(hist')
      <4>1. PICK x \in {0, 1} :
              /\ x = IF pc[Writer] \in {"write", "persisted"} THEN 1 ELSE 0
              /\ x = IF pc'[Writer] \in {"write", "persisted"} THEN 1 ELSE 0
        BY <2>6
      <4>2. persisted + x + Len(q) = Len(hist)
        BY <4>1 DEF CountInv
      <4>3. persisted' + x + Len(q') = Len(hist')
        BY <1>0, <2>1, <2>3, <4>1, <4>2
      <4> QED
        BY <4>1, <4>3
    <3> QED
      BY <2>5, <3>1, <3>2 DEF CountInv
  <2>8. ~stop
    BY <2>1 DEF StopInv
  <2> QED
    BY <2>1, <2>6, <2>7, <2>8 DEF StopInv
<1>3. ASSUME NEW c \in Clients, PutCount(c)
      PROVE  CountInv' /\ StopInv'
  <2>1. /\ pc[c] = "count" /\ pc' = [pc EXCEPT ![c] = "notify"] /\ queued' = queued + 1
        /\ UNCHANGED <<q, hist, persisted, stop>>
    BY <1>3 DEF PutCount, Goto
  <2>2. Counting' = Counting \ {c} /\ c \in Counting
    BY <1>0, <2>1 DEF Counting
  <2>3. IsFiniteSet(Counting') /\ Cardinality(Counting') = Cardinality(Counting) - 1
    BY <2>2, FS_RemoveElement DEF CountInv
  <2>4. pc'[Writer] = pc[Writer]
    BY <1>0, <2>1
  <2>5. CountInv'
    BY <1>0, <2>1, <2>3, <2>4 DEF CountInv
  <2>6. ~stop
    BY <2>1 DEF StopInv
  <2> QED
    BY <2>1, <2>4, <2>5, <2>6 DEF StopInv
<1>w. ASSUME \A c \in Clients : pc'[c] = pc[c] \/ (pc[c] = "asleep" /\ pc'[c] = "wait")
      PROVE  /\ Counting' = Counting
             /\ stop => \A c \in Clients : pc'[c] \in {"idle", "dtor", "join", "gone"}
  BY <1>w DEF Counting, StopInv
<1>4. CASE WriterTake
  <2>1. /\ pc[Writer] = "wait" /\ pc' = [pc EXCEPT ![Writer] = "write"]
        /\ q # <<>> /\ q' = Tail(q)
        /\ UNCHANGED <<hist, queued, persisted, stop>>
    BY <1>4 DEF WriterTake, Goto
  <2>2. Len(q') = Len(q) - 1
    BY <1>0, <2>1, HeadTailProperties
  <2>3. pc'[Writer] = "write" /\ \A c \in Clients : pc'[c] = pc[c]
    BY <1>0, <2>1
  <2> QED
    BY <1>0, <1>w, <2>1, <2>2, <2>3 DEF CountInv, StopInv
<1>5. CASE WriterPut
  <2>1. /\ pc[Writer] = "write" /\ pc' = [pc EXCEPT ![Writer] = "persisted"]
        /\ UNCHANGED <<q, hist, queued, persisted, stop>>
    BY <1>5 DEF WriterPut, Goto
  <2>2. pc'[Writer] = "persisted" /\ \A c \in Clients : pc'[c] = pc[c]
    BY <1>0, <2>1
  <2> QED
    BY <1>0, <1>w, <2>1, <2>2 DEF CountInv, StopInv
<1>6. CASE WriterCount
  <2>1. /\ pc[Writer] = "persisted" /\ pc' = [pc EXCEPT ![Writer] = "finish"]
        /\ persisted' = persisted + 1
        /\ UNCHANGED <<q, hist, queued, stop>>
    BY <1>6 DEF WriterCount, Goto
  <2>2. pc'[Writer] = "finish" /\ \A c \in Clients : pc'[c] = pc[c]
    BY <1>0, <2>1
  <2> QED
    BY <1>0, <1>w, <2>1, <2>2 DEF CountInv, StopInv
<1>7. CASE WriterFinish
  <2>1. /\ pc[Writer] = "finish"
        /\ UNCHANGED <<q, hist, queued, persisted, stop>>
        /\ \E W \in SUBSET Asleep : WakeAndGoto(W, Writer, "wait")
    BY <1>7 DEF WriterFinish
  <2>2. /\ pc'[Writer] = "wait"
        /\ \A c \in Clients : pc'[c] = pc[c] \/ (pc[c] = "asleep" /\ pc'[c] = "wait")
    BY <1>0, <2>1, WhereAfter
  <2> QED
    BY <1>0, <1>w, <2>1, <2>2 DEF CountInv, StopInv
<1>8. CASE WriterExit
  <2>1. /\ pc[Writer] = "wait" /\ pc' = [pc EXCEPT ![Writer] = "exit"]
        /\ q = <<>> /\ stop
        /\ UNCHANGED <<q, hist, queued, persisted, stop>>
    BY <1>8 DEF WriterExit, Goto, shared
  <2>2. pc'[Writer] = "exit" /\ \A c \in Clients : pc'[c] = pc[c]
    BY <1>0, <2>1
  <2> QED
    BY <1>0, <1>w, <2>1, <2>2 DEF CountInv, StopInv
<1>9. CASE WaitFalse(Writer) \/ Block(Writer) \/ SpuriousWake(Writer)
  <2>1. /\ pc[Writer] \in {"wait", "checked", "asleep"}
        /\ \E l \in {"wait", "checked", "asleep"} : pc' = [pc EXCEPT ![Writer] = l]
        /\ UNCHANGED <<q, hist, queued, persisted, stop>>
    BY <1>9 DEF WaitFalse, Block, SpuriousWake, Goto, shared
  <2>2. /\ pc'[Writer] \in {"wait", "checked", "asleep"}
        /\ \A c \in Clients : pc'[c] = pc[c]
    BY <1>0, <2>1
  <2> QED
    BY <1>0, <1>w, <2>1, <2>2 DEF CountInv, StopInv
<1>10. CASE UNCHANGED vars
  BY <1>10 DEF vars, CountInv, StopInv, Counting
<1> QED
  BY <1>1, <1>2, <1>3, <1>4, <1>5, <1>6, <1>7, <1>8, <1>9, <1>10
     DEF Next, Continue, writer_loop, Threads

(* Both invariants hold throughout. *)
LEMMA CountInvariant == Spec => [](CountInv /\ StopInv)
<1>1. Init => CountInv /\ StopInv
  <2> SUFFICES ASSUME Init PROVE CountInv /\ StopInv
    OBVIOUS
  <2>1. Counting = {} /\ pc[Writer] = "wait" /\ q = <<>> /\ hist = <<>>
    BY AsyncAssumption DEF Init, Counting, Threads
  <2>2. Len(q) = 0 /\ Len(hist) = 0
    BY <2>1
  <2> QED
    BY <2>1, <2>2, FS_EmptySet DEF Init, CountInv, StopInv
<1>2. TypeOK /\ CountInv /\ StopInv /\ [Next]_vars => (CountInv /\ StopInv)'
  BY CountInductive
<1> QED
  BY <1>1, <1>2, AsyncTypeCorrect, PTL DEF Spec

(* The destructor loses nothing: the writer leaves its loop only when      *)
(* every job any put has pushed is on disk, and has been counted.          *)
THEOREM ShutdownDrains == Spec => []DrainedOnExit
<1>1. TypeOK /\ DiskIsPrefix /\ CountInv /\ StopInv => DrainedOnExit
  <2> SUFFICES ASSUME TypeOK, DiskIsPrefix, CountInv, StopInv, pc[Writer] = "exit"
               PROVE  /\ \A k \in Keys : IsLatest(k, Len(hist), disk[k])
                      /\ queued = persisted
    BY DEF DrainedOnExit
  <2>1. q = <<>> /\ Counting = {}
    BY DEF StopInv, Counting
  <2>2. Pending = <<>>
    BY <2>1, PendingIs DEF InFlight
  <2>3. Len(q) = 0 /\ Cardinality(Counting) = 0 /\ queued \in Nat /\ persisted \in Nat
    BY <2>1, FS_EmptySet DEF TypeOK, StoreTypeOK
  <2>4. queued = persisted
    BY <2>3 DEF CountInv
  <2>5. Landed = Len(hist)
    BY <2>2, LenProperties, EmptySeq DEF Landed, TypeOK, StoreTypeOK
  <2> QED
    BY <2>4, <2>5 DEF DiskIsPrefix
<1> QED
  BY <1>1, AsyncTypeCorrect, WritesInOrder, CountInvariant, PTL

(* After a flush the two counters agree, unless some other put is between  *)
(* its push and its count.                                                 *)
THEOREM CountersAgreeAfterFlush == Spec => CountersAgree
<1>1. Init => BusyInv
  BY DEF Init, BusyInv, Threads
<1>2. TypeOK /\ BusyInv /\ [Next]_vars => BusyInv'
  BY BusyInductive
<1>3. ASSUME TypeOK, BusyInv, CountInv, [Next]_vars, NEW c \in Clients,
             pc[c] = "wait", pc'[c] = "idle", \A d \in Clients : pc[d] # "count"
      PROVE  queued = persisted
  <2>1. q = <<>> /\ ~busy
    BY <1>3, OnlyFlushReturns, AsyncAssumption DEF FlushReturn, Ready
  <2>2. pc[Writer] \notin {"write", "persisted"} /\ Counting = {}
    BY <1>3, <2>1 DEF BusyInv, Counting
  <2>3. Len(q) = 0 /\ Cardinality(Counting) = 0 /\ queued \in Nat /\ persisted \in Nat
    BY <1>3, <2>1, <2>2, FS_EmptySet DEF TypeOK, StoreTypeOK
  <2> QED
    BY <1>3, <2>2, <2>3 DEF CountInv
<1>4. TypeOK /\ BusyInv /\ CountInv /\ [Next]_vars =>
         [\A c \in Clients :
            /\ pc[c] = "wait" /\ pc'[c] = "idle"
            /\ \A d \in Clients : pc[d] # "count"
            => queued = persisted]_vars
  BY <1>3
<1> QED
  BY <1>1, <1>2, <1>4, AsyncTypeCorrect, CountInvariant, PTL DEF Spec, CountersAgree

-----------------------------------------------------------------------------
(* The two tiers agree *)

(* The points of a get that has missed and of a put that has not pushed. *)
MidCall == {"disk", "promote", "push"}

(* L1 runs ahead of the queue by the put that has not pushed its job. *)
PushedFirst ==
    \A c \in Clients : pc[c] = "push" => l1[arg[c].key] = arg[c].val

(* A put of k has changed L1 and not pushed its job. *)
Pushing(k) == \E c \in Clients : pc[c] = "push" /\ arg[c].key = k

(* But for such a put, L1 has no value for a key or the last one pushed. *)
L1Latest ==
    \A k \in Keys : ~Pushing(k) => l1[k] = None \/ IsLatest(k, Len(hist), l1[k])

(* A key that was ever pushed is in L1: a get of it does not miss. *)
L1Keeps == \A i \in 1..Len(hist) : l1[hist[i].key] # None

(* A get that missed works on a key no put has pushed since, and promotes  *)
(* what the earlier process left.                                          *)
MissFirst ==
    \A c \in Clients :
        pc[c] \in {"disk", "promote"} =>
            /\ \A i \in 1..Len(hist) : hist[i].key # arg[c].key
            /\ pc[c] = "promote" => arg[c].val = Disk0[arg[c].key]

(* The inductive invariant of the two tiers. *)
TierInv == PushedFirst /\ L1Latest /\ L1Keeps /\ MissFirst

(* The jobs of a key leave only one value behind. *)
LEMMA LatestUnique ==
    ASSUME hist \in Seq(Job), NEW k \in Keys, NEW n \in 0..Len(hist), NEW v, NEW w,
           IsLatest(k, n, v), IsLatest(k, n, w)
    PROVE  v = w
<1>0. n \in Nat
  BY LenProperties
<1>1. CASE \A i \in 1..n : hist[i].key # k
  BY <1>1 DEF IsLatest
<1>2. CASE \E i \in 1..n : hist[i].key = k
  <2>1. PICK i \in 1..n : /\ hist[i].key = k /\ hist[i].val = v
                          /\ \A j \in (i + 1)..n : hist[j].key # k
    BY <1>2 DEF IsLatest
  <2>2. PICK m \in 1..n : /\ hist[m].key = k /\ hist[m].val = w
                          /\ \A j \in (m + 1)..n : hist[j].key # k
    BY <1>2 DEF IsLatest
  <2>3. ~(i < m) /\ ~(m < i)
    BY <1>0, <2>1, <2>2
  <2>4. i = m
    BY <1>0, <2>3
  <2> QED
    BY <2>1, <2>2, <2>4
<1> QED
  BY <1>1, <1>2

(* Steps that leave L1 and the history alone, start no call in its middle  *)
(* and end no put before its push.                                         *)
LEMMA QuietKeepsTiers ==
    ASSUME TierInv, UNCHANGED <<l1, hist>>,
           \A c \in Clients :
              /\ pc'[c] \in MidCall => pc'[c] = pc[c] /\ arg'[c] = arg[c]
              /\ pc[c] = "push" => pc'[c] = "push" /\ arg'[c] = arg[c]
    PROVE  TierInv'
<1>1. PushedFirst'
  BY DEF TierInv, PushedFirst, MidCall
<1>2. ASSUME NEW k \in Keys, ~Pushing(k)'
      PROVE  ~Pushing(k)
  BY <1>2 DEF Pushing
<1>3. L1Latest'
  BY <1>2 DEF TierInv, L1Latest, IsLatest
<1>4. L1Keeps'
  BY DEF TierInv, L1Keeps
<1>5. MissFirst'
  BY DEF TierInv, MissFirst, MidCall
<1> QED
  BY <1>1, <1>3, <1>4, <1>5 DEF TierInv

(* Every step keeps TierInv, if no put of a key overlaps another call on   *)
(* it before the step or after.                                            *)
LEMMA TierInductive ==
    ASSUME TypeOK, TypeOK', DiskIsPrefix, KeyAlone, KeyAlone', TierInv, [Next]_vars
    PROVE  TierInv'
<1>0. /\ Writer \in Threads
      /\ \A c \in Clients : c \in Threads /\ c # Writer
      /\ pc \in [Threads -> Locs] /\ DOMAIN arg = Threads
      /\ l1 \in [Keys -> Vals \cup {None}] /\ None \notin Vals
      /\ hist \in Seq(Job) /\ Len(hist) \in Nat
      /\ \A c \in Clients : pc[c] \in MidCall => arg[c].key \in Keys
      /\ \A c \in Clients : pc[c] \in {"promote", "push"} => arg[c].val \in Vals
      /\ puts \in Nat /\ pc[Writer] # "push"
      /\ \A i \in 1..Len(hist) : hist[i].key \in Keys
  <2>1. /\ Writer \in Threads
        /\ \A c \in Clients : c \in Threads /\ c # Writer
        /\ pc \in [Threads -> Locs] /\ DOMAIN arg = Threads /\ pc[Writer] # "push"
        /\ l1 \in [Keys -> Vals \cup {None}] /\ None \notin Vals
        /\ hist \in Seq(Job) /\ puts \in 0..MaxPuts /\ MaxPuts \in Nat
    BY AsyncAssumption
       DEF TypeOK, ThreadTypeOK, StoreTypeOK, Threads, Locs, WriterLocs
  <2>2. ASSUME NEW c \in Clients
        PROVE  /\ pc[c] \in MidCall => arg[c].key \in Keys
               /\ pc[c] \in {"promote", "push"} => arg[c].val \in Vals
    BY <2>1 DEF TypeOK, ArgsOK, MidCall, Job
  <2>3. Len(hist) \in Nat /\ \A i \in 1..Len(hist) : hist[i] \in Job
    BY <2>1, LenProperties, ElementOfSeq
  <2> QED
    BY <2>1, <2>2, <2>3 DEF Job
<1>1. ASSUME NEW c \in Clients, NEW k \in Keys, GetMiss(c, k)
      PROVE  TierInv'
  <2>1. /\ l1[k] = None /\ pc' = [pc EXCEPT ![c] = "disk"]
        /\ arg' = [arg EXCEPT ![c] = [key |-> k, val |-> None]]
        /\ UNCHANGED <<l1, hist>> /\ pc[c] = "idle"
    BY <1>1 DEF GetMiss, Hold, Goto, shared
  <2>2. /\ pc'[c] = "disk" /\ arg'[c].key = k
        /\ \A d \in Clients \ {c} : pc'[d] = pc[d] /\ arg'[d] = arg[d]
    BY <1>0, <2>1
  <2>3. \A i \in 1..Len(hist) : hist[i].key # k
    BY <2>1 DEF TierInv, L1Keeps
  <2>4. PushedFirst' /\ L1Keeps'
    BY <2>1, <2>2 DEF TierInv, PushedFirst, L1Keeps
  <2>5. \A x \in Keys : Pushing(x) => Pushing(x)'
    BY <2>1, <2>2 DEF Pushing
  <2>6. L1Latest'
    BY <2>1, <2>5 DEF TierInv, L1Latest, IsLatest
  <2>7. MissFirst'
    BY <2>1, <2>2, <2>3 DEF TierInv, MissFirst
  <2> QED
    BY <2>4, <2>6, <2>7 DEF TierInv
<1>2. ASSUME NEW c \in Clients, GetDisk(c)
      PROVE  TierInv'
  <2> DEFINE k == arg[c].key
  <2>1. pc[c] = "disk" /\ UNCHANGED <<l1, hist>> /\ k \in Keys
    BY <1>0, <1>2 DEF GetDisk, shared, MidCall
  <2>2. CASE pc' = [pc EXCEPT ![c] = "idle"] /\ arg' = [arg EXCEPT ![c] = NoArg]
    <3>1. /\ pc'[c] = "idle"
          /\ \A d \in Clients \ {c} : pc'[d] = pc[d] /\ arg'[d] = arg[d]
      BY <1>0, <2>2
    <3> QED
      BY <2>1, <3>1, QuietKeepsTiers DEF MidCall
  <2>3. CASE /\ pc' = [pc EXCEPT ![c] = "promote"]
             /\ arg' = [arg EXCEPT ![c] = [key |-> k, val |-> disk[k]]]
    <3>1. /\ pc'[c] = "promote" /\ arg'[c].key = k /\ arg'[c].val = disk[k]
          /\ \A d \in Clients \ {c} : pc'[d] = pc[d] /\ arg'[d] = arg[d]
      BY <1>0, <2>3
    <3>2. \A i \in 1..Len(hist) : hist[i].key # k
      BY <2>1 DEF TierInv, MissFirst
    <3>3. Landed \in 0..Len(hist) /\ IsLatest(k, Landed, disk[k])
      BY <2>1 DEF DiskIsPrefix
    <3>4. \A i \in 1..Landed : i \in 1..Len(hist)
      BY <1>0, <3>3
    <3>5. disk[k] = Disk0[k]
      BY <3>2, <3>3, <3>4 DEF IsLatest
    <3>6. PushedFirst' /\ L1Keeps'
      BY <2>1, <3>1 DEF TierInv, PushedFirst, L1Keeps
    <3>7. \A x \in Keys : Pushing(x) => Pushing(x)'
      BY <2>1, <3>1 DEF Pushing
    <3>8. L1Latest'
      BY <2>1, <3>7 DEF TierInv, L1Latest, IsLatest
    <3>9. MissFirst'
      BY <2>1, <3>1, <3>2, <3>5 DEF TierInv, MissFirst
    <3> QED
      BY <3>6, <3>8, <3>9 DEF TierInv
  <2> QED
    BY <1>2, <2>2, <2>3 DEF GetDisk, Drop, Hold, Goto
<1>3. ASSUME NEW c \in Clients, GetPromote(c)
      PROVE  TierInv'
  <2> DEFINE k == arg[c].key
  <2>1. /\ pc[c] = "promote" /\ UNCHANGED hist /\ k \in Keys /\ arg[c].val \in Vals
        /\ l1' = [l1 EXCEPT ![k] = arg[c].val]
        /\ pc' = [pc EXCEPT ![c] = "idle"] /\ arg' = [arg EXCEPT ![c] = NoArg]
    BY <1>0, <1>3 DEF GetPromote, MidCall, Drop, Goto
  <2>2. /\ pc'[c] = "idle"
        /\ \A d \in Clients \ {c} : pc'[d] = pc[d] /\ arg'[d] = arg[d]
        /\ l1'[k] = arg[c].val /\ \A x \in Keys \ {k} : l1'[x] = l1[x]
    BY <1>0, <2>1
  <2>3. /\ \A i \in 1..Len(hist) : hist[i].key # k
        /\ arg[c].val = Disk0[k]
    BY <2>1 DEF TierInv, MissFirst
  <2>4. ~Pushing(k)
    BY <2>1 DEF KeyAlone, Pushing
  <2>5. PushedFirst'
    <3> SUFFICES ASSUME NEW d \in Clients, pc'[d] = "push"
                 PROVE  l1'[arg'[d].key] = arg'[d].val
      BY DEF PushedFirst
    <3>1. d # c /\ pc[d] = "push" /\ arg'[d] = arg[d]
      BY <2>2
    <3>2. arg[d].key \in Keys \ {k}
      BY <1>0, <2>4, <3>1 DEF Pushing, MidCall
    <3> QED
      BY <2>2, <3>1, <3>2 DEF TierInv, PushedFirst
  <2>6. L1Latest'
    <3> SUFFICES ASSUME NEW x \in Keys, ~Pushing(x)'
                 PROVE  l1'[x] = None \/ IsLatest(x, Len(hist), l1'[x])
      BY <2>1 DEF L1Latest, IsLatest
    <3>1. CASE x = k
      BY <2>2, <2>3, <3>1 DEF IsLatest
    <3>2. CASE x # k
      <4>1. ~Pushing(x)
        BY <2>1, <2>2 DEF Pushing
      <4> QED
        BY <2>2, <3>2, <4>1 DEF TierInv, L1Latest
    <3> QED
      BY <3>1, <3>2
  <2>7. L1Keeps'
    BY <1>0, <2>1, <2>2 DEF TierInv, L1Keeps
  <2>8. MissFirst'
    BY <2>1, <2>2 DEF TierInv, MissFirst
  <2> QED
    BY <2>5, <2>6, <2>7, <2>8 DEF TierInv
<1>4. ASSUME NEW c \in Clients, NEW k \in Keys, PutL1(c, k)
      PROVE  TierInv'
  <2>1. /\ UNCHANGED hist /\ l1' = [l1 EXCEPT ![k] = puts + 1]
        /\ pc' = [pc EXCEPT ![c] = "push"]
        /\ arg' = [arg EXCEPT ![c] = [key |-> k, val |-> puts + 1]]
        /\ pc[c] = "idle" /\ puts < MaxPuts
    BY <1>4 DEF PutL1, Hold, Goto
  <2>2. /\ pc'[c] = "push" /\ arg'[c].key = k /\ arg'[c].val = puts + 1
        /\ \A d \in Clients \ {c} : pc'[d] = pc[d] /\ arg'[d] = arg[d]
        /\ l1'[k] = puts + 1 /\ \A x \in Keys \ {k} : l1'[x] = l1[x]
    BY <1>0, <2>1
  <2>3. puts + 1 # None
    BY <1>0, <2>1, AsyncAssumption DEF Vals
  <2>4. PushedFirst'
    <3> SUFFICES ASSUME NEW d \in Clients, pc'[d] = "push"
                 PROVE  l1'[arg'[d].key] = arg'[d].val
      BY DEF PushedFirst
    <3>1. CASE d = c
      BY <2>2, <3>1
    <3>2. CASE d # c
      <4>1. pc[d] = "push" /\ arg'[d] = arg[d] /\ arg[d].key # k
        BY <2>2, <3>2 DEF KeyAlone
      <4> QED
        BY <1>0, <2>2, <4>1 DEF TierInv, PushedFirst, MidCall
    <3> QED
      BY <3>1, <3>2
  <2>5. L1Latest'
    <3> SUFFICES ASSUME NEW x \in Keys, ~Pushing(x)'
                 PROVE  l1'[x] = None \/ IsLatest(x, Len(hist), l1'[x])
      BY <2>1 DEF L1Latest, IsLatest
    <3>1. x # k /\ ~Pushing(x)
      BY <2>1, <2>2 DEF Pushing
    <3> QED
      BY <2>2, <3>1 DEF TierInv, L1Latest
  <2>6. L1Keeps'
    BY <1>0, <2>1, <2>2, <2>3 DEF TierInv, L1Keeps
  <2>7. MissFirst'
    BY <2>1, <2>2 DEF TierInv, MissFirst
  <2> QED
    BY <2>4, <2>5, <2>6, <2>7 DEF TierInv
<1>5. ASSUME NEW c \in Clients, PutPush(c)
      PROVE  TierInv'
  <2> DEFINE k == arg[c].key
  <2> DEFINE n == Len(hist)
  <2>1. /\ pc[c] = "push" /\ pc' = [pc EXCEPT ![c] = "count"]
        /\ arg' = [arg EXCEPT ![c] = NoArg] /\ UNCHANGED l1
        /\ hist' = Append(hist, arg[c]) /\ arg[c] \in Job /\ k \in Keys
    BY <1>0, <1>5 DEF PutPush, Drop, Goto, TypeOK, ArgsOK, MidCall
  <2>2. /\ pc'[c] = "count"
        /\ \A d \in Clients \ {c} : pc'[d] = pc[d] /\ arg'[d] = arg[d]
    BY <1>0, <2>1
  <2>3. /\ Len(hist') = n + 1 /\ hist'[n + 1] = arg[c]
        /\ \A i \in 1..n : hist'[i] = hist[i]
    BY <1>0, <2>1, AppendProperties
  <2>4. \A i \in 1..(n + 1) : i \in 1..n \/ i = n + 1
    BY <1>0
  <2>5. PushedFirst'
    BY <2>1, <2>2 DEF TierInv, PushedFirst
  <2>6. l1[k] = arg[c].val /\ l1[k] # None
    BY <1>0, <2>1 DEF TierInv, PushedFirst
  <2>7. L1Keeps'
    BY <2>1, <2>3, <2>4, <2>6 DEF TierInv, L1Keeps
  <2>8. L1Latest'
    <3> SUFFICES ASSUME NEW x \in Keys, ~Pushing(x)', l1[x] # None
                 PROVE  IsLatest(x, Len(hist), l1[x])'
      BY <2>1, <2>3 DEF L1Latest, IsLatest
    <3>1. CASE x = k
      <4>1. /\ n + 1 \in 1..(n + 1) /\ hist'[n + 1].key = k /\ hist'[n + 1].val = l1'[k]
            /\ \A j \in ((n + 1) + 1)..(n + 1) : hist'[j].key # k
        BY <1>0, <2>1, <2>3, <2>6
      <4> QED
        BY <2>1, <2>3, <3>1, <4>1 DEF IsLatest
    <3>2. CASE x # k
      <4>1. ~Pushing(x)
        BY <2>1, <2>2, <3>2 DEF Pushing
      <4>2. IsLatest(x, n, l1[x])
        BY <4>1 DEF TierInv, L1Latest
      <4>3. hist'[n + 1].key # x
        BY <2>3, <3>2
      <4>4. CASE l1[x] = Disk0[x] /\ \A i \in 1..n : hist[i].key # x
        <5>1. \A i \in 1..(n + 1) : hist'[i].key # x
          BY <2>3, <2>4, <4>3, <4>4
        <5> QED
          BY <2>1, <2>3, <4>4, <5>1 DEF IsLatest
      <4>5. CASE \E i \in 1..n : /\ hist[i].key = x /\ hist[i].val = l1[x]
                                 /\ \A j \in (i + 1)..n : hist[j].key # x
        <5>1. PICK i \in 1..n : /\ hist[i].key = x /\ hist[i].val = l1[x]
                                /\ \A j \in (i + 1)..n : hist[j].key # x
          BY <4>5
        <5>2. \A j \in (i + 1)..(n + 1) : (j \in (i + 1)..n /\ j \in 1..n) \/ j = n + 1
          BY <1>0
        <5>3. \A j \in (i + 1)..(n + 1) : hist'[j].key # x
          BY <2>3, <4>3, <5>1, <5>2
        <5>4. i \in 1..(n + 1) /\ hist'[i] = hist[i]
          BY <1>0, <2>3
        <5> QED
          BY <2>1, <2>3, <5>1, <5>3, <5>4 DEF IsLatest
      <4> QED
        BY <4>2, <4>4, <4>5 DEF IsLatest
    <3> QED
      BY <3>1, <3>2
  <2>9. MissFirst'
    <3> SUFFICES ASSUME NEW d \in Clients, pc'[d] \in {"disk", "promote"}
                 PROVE  /\ \A i \in 1..(n + 1) : hist'[i].key # arg'[d].key
                        /\ pc'[d] = "promote" => arg'[d].val = Disk0[arg'[d].key]
      BY <2>3 DEF MissFirst
    <3>1. d # c /\ pc'[d] = pc[d] /\ arg'[d] = arg[d]
      BY <2>2
    <3>2. arg[d].key # k
      BY <2>1, <3>1 DEF KeyAlone
    <3> QED
      BY <2>3, <2>4, <3>1, <3>2 DEF TierInv, MissFirst
  <2> QED
    BY <2>5, <2>7, <2>8, <2>9 DEF TierInv
<1>6. ASSUME NEW t \in Threads,
             \/ FlushCall(t) \/ DtorStop(t) \/ PutCount(t) \/ PutNotify(t)
             \/ FlushReturn(t) \/ DtorNotify(t) \/ DtorJoin(t)
             \/ WaitFalse(t) \/ Block(t) \/ SpuriousWake(t)
             \/ t = Writer /\ (WriterTake \/ WriterPut \/ WriterCount
                               \/ WriterFinish \/ WriterExit),
             t = Writer \/ t \in Clients
      PROVE  TierInv'
  <2>1. /\ UNCHANGED <<l1, hist>> /\ pc[t] # "push"
        /\ \A u \in Threads \ {t} : arg'[u] = arg[u]
    <3>1. UNCHANGED <<l1, hist>>
      BY <1>6 DEF FlushCall, DtorStop, PutCount, PutNotify, FlushReturn, DtorNotify,
         DtorJoin, WaitFalse, Block, SpuriousWake, WriterTake, WriterPut, WriterCount,
         WriterFinish, WriterExit, shared
    <3>2. pc[t] # "push"
      BY <1>0, <1>6 DEF FlushCall, DtorStop, PutCount, PutNotify, FlushReturn, DtorNotify,
         DtorJoin, WaitFalse, Block, SpuriousWake
    <3>3. UNCHANGED arg \/ \E a : arg' = [arg EXCEPT ![t] = a]
      BY <1>6 DEF FlushCall, DtorStop, PutCount, PutNotify, FlushReturn, DtorNotify,
         DtorJoin, WaitFalse, Block, SpuriousWake, WriterTake, WriterPut, WriterCount,
         WriterFinish, WriterExit, Drop
    <3>4. \A u \in Threads \ {t} : arg'[u] = arg[u]
      BY <1>0, <3>3
    <3> QED
      BY <3>1, <3>2, <3>4
  <2> DEFINE L == {"idle", "wait", "dtor", "notify", "join", "gone", "checked", "asleep",
                   "write", "persisted", "finish", "exit"}
  <2>2. \/ \E l \in L : Goto(t, l)
        \/ \E u \in Asleep : WakeAndGoto({u}, t, "idle")
        \/ \E W \in {{}, Asleep} : WakeAndGoto(W, t, "wait") \/ WakeAndGoto(W, t, "join")
    BY <1>6 DEF FlushCall, DtorStop, PutCount, PutNotify, FlushReturn, DtorNotify,
       DtorJoin, WaitFalse, Block, SpuriousWake, WriterTake, WriterPut, WriterCount,
       WriterFinish, WriterExit
  <2>3. PICK W \in SUBSET Asleep, l \in L : WakeAndGoto(W, t, l)
    BY <2>2, GotoIsWake DEF TypeOK
  <2>4. /\ pc'[t] = l
        /\ \A u \in Threads \ {t} : pc'[u] = pc[u] \/ (pc[u] = "asleep" /\ pc'[u] = "wait")
    BY <2>3, WhereAfter
  <2> QED
    BY <1>0, <2>1, <2>4, QuietKeepsTiers DEF MidCall
<1>7. CASE UNCHANGED vars
  BY <1>7, QuietKeepsTiers DEF vars, MidCall
<1> QED
  BY <1>0, <1>1, <1>2, <1>3, <1>4, <1>5, <1>6, <1>7
     DEF Next, Continue, writer_loop, Threads

(* Once nothing is pending and no call is in progress, L1 has no value for *)
(* a key or the one that is on disk, if no put overlapped another call on  *)
(* its key.                                                                *)
THEOREM TiersAgreeWhenQuiet == Spec => L1DiskAgree
<1> DEFINE Quiet == Pending = <<>> /\ \A c \in Clients : arg[c] = NoArg
<1>1. Init => TierInv
  <2> SUFFICES ASSUME Init PROVE TierInv
    OBVIOUS
  <2>1. \A c \in Clients : pc[c] = "idle"
    BY AsyncAssumption DEF Init, Threads
  <2>2. Len(hist) = 0 /\ \A k \in Keys : l1[k] = None
    BY DEF Init
  <2> QED
    BY <2>1, <2>2 DEF TierInv, PushedFirst, L1Latest, L1Keeps, MissFirst
<1>2. TypeOK /\ TypeOK' /\ DiskIsPrefix /\ KeyAlone /\ KeyAlone' /\ TierInv /\ [Next]_vars
        => TierInv'
  BY TierInductive
<1>3. TypeOK /\ DiskIsPrefix /\ TierInv =>
        (Quiet => \A k \in Keys : l1[k] \in {None, disk[k]})
  <2> SUFFICES ASSUME TypeOK, DiskIsPrefix, TierInv, Quiet, NEW k \in Keys, l1[k] # None
               PROVE  l1[k] = disk[k]
    OBVIOUS
  <2>1. hist \in Seq(Job) /\ Len(hist) \in Nat
    BY LenProperties DEF TypeOK, StoreTypeOK
  <2>2. ~Pushing(k)
    BY AsyncAssumption DEF Pushing, NoArg
  <2>3. IsLatest(k, Len(hist), l1[k])
    BY <2>2 DEF TierInv, L1Latest
  <2>4. Landed = Len(hist)
    BY <2>1, EmptySeq DEF Landed
  <2>5. IsLatest(k, Len(hist), disk[k])
    BY <2>4 DEF DiskIsPrefix
  <2> QED
    BY <2>1, <2>3, <2>5, LatestUnique
<1> QED
  BY <1>1, <1>2, <1>3, AsyncTypeCorrect, WritesInOrder, PTL DEF Spec, L1DiskAgree

=============================================================================
