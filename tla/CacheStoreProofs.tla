-------------------------- MODULE CacheStoreProofs --------------------------
(***************************************************************************)
(* The disk cache for any number of threads, keys, puts, failing writes    *)
(* and crashes: get returns only what was put, and a put that no other put *)
(* overlaps is atomic.  The steps are those of CacheStoreFast, seen from   *)
(* below.                                                                  *)
(***************************************************************************)
EXTENDS CacheStoreFast, TLAPS

(* Program points, and what a thread works on. *)
Locs == {"idle"} \cup PutLocs \cup GetLocs

Arg == [key : Keys \cup {None}, val : Vals \cup {None},
        fd : Inodes \cup {None}, hdr : Vals \cup {None}]

(* A call that the disk has finished ends: in L1, or with the exception. *)
EndCall(t) ==
    /\ pc[t] \in {"stored", "threw", "found"}
    /\ Return(t)
    /\ UNCHANGED <<disk, puts, faults, hists>>

(* What a step of the two-tier cache is to the disk. *)
DiskNext ==
    \/ \E t \in Threads, k \in Keys : PutCall(t, k) \/ GetCall(t, k)
    \/ \E t \in Threads : DiskSteps(t) \/ EndCall(t)
    \/ DiskCrash
    \/ UNCHANGED dvars

(* L1 gets in nobody's way: every step is one of the disk's. *)
LEMMA StepsOfDisk ==
    ASSUME [Next]_vars
    PROVE  DiskNext
<1>1. CASE UNCHANGED vars
  BY <1>1 DEF vars, DiskNext, dvars
<1>2. ASSUME NEW t \in Threads, NEW k \in Keys, GetHit(t, k)
      PROVE  DiskNext
  BY <1>2 DEF GetHit, DiskNext
<1>3. ASSUME NEW t \in Threads, NEW k \in Keys, GetMiss(t, k)
      PROVE  DiskNext
  BY <1>3 DEF GetMiss, DiskNext
<1>4. ASSUME NEW t \in Threads, GetPromote(t) \/ PutL1(t) \/ PutThrows(t)
      PROVE  EndCall(t)
  BY <1>4 DEF GetPromote, PutL1, PutThrows, EndCall
<1>5. CASE Crash
  BY <1>5 DEF Crash, DiskNext
<1> QED
  BY <1>1, <1>2, <1>3, <1>4, <1>5 DEF Next, DiskNext

-----------------------------------------------------------------------------
(* Types, and whose file is whose *)

(* Inode f is a file of key k: its old one, or one a put of k created. *)
FileOf(f, k) == f = k \/ (f \in 1..puts /\ owner[f] = k)

(* What thread t works on fits its program point. *)
ThreadOK(t) ==
    /\ pc[t] \in Locs /\ arg[t] \in Arg
    /\ pc[t] = "idle" => arg[t] = NoArg
    /\ pc[t] # "idle" => arg[t].key \in Keys
    /\ pc[t] \in PutLocs => arg[t].val \in 1..puts /\ owner[arg[t].val] = arg[t].key
    /\ pc[t] \in {"header", "payload", "rename", "readhdr", "readbody"} => arg[t].fd # None
    /\ arg[t].fd # None => FileOf(arg[t].fd, arg[t].key)
    /\ pc[t] = "readbody" => arg[t].hdr # None /\ WasPut(arg[t].key, arg[t].hdr)
    /\ pc[t] = "found" => arg[t].val # None /\ WasPut(arg[t].key, arg[t].val)

(* All threads are fine. *)
ThreadsOK ==
    /\ pc \in [Threads -> Locs] /\ arg \in [Threads -> Arg]
    /\ \A t \in Threads : ThreadOK(t)

(* The names of a key are its files'. *)
NamesOK ==
    \A k \in Keys : /\ tmp[k] # None => FileOf(tmp[k], k)
                    /\ bin[k] # None => FileOf(bin[k], k)

(* A file has nothing in it that was not put for its key. *)
ContentsOK ==
    /\ \A f \in Inodes, k \in Keys :
          FileOf(f, k) => /\ file[f].hdr # None => WasPut(k, file[f].hdr)
                          /\ file[f].body # None => WasPut(k, file[f].body)
    /\ \A f \in (puts + 1)..MaxPuts : file[f] = Empty

(* The files and counters have their types. *)
StateOK ==
    /\ tmp \in [Keys -> Inodes \cup {None}]
    /\ bin \in [Keys -> Inodes \cup {None}]
    /\ file \in [Inodes -> [hdr : Vals \cup {None}, body : Vals \cup {None}]]
    /\ puts \in 0..MaxPuts /\ faults \in 0..MaxFaults
    /\ owner \in [1..MaxPuts -> Keys \cup {None}]
    /\ clash \in [Keys -> SUBSET {"puts", "get", "fault"}]

(* The inductive invariant for what a get returns. *)
DiskInv == StateOK /\ ThreadsOK /\ NamesOK /\ ContentsOK

(* A file is of one key only. *)
LEMMA OneKey ==
    ASSUME StateOK, NEW f, NEW k \in Keys, NEW j \in Keys, FileOf(f, k), FileOf(f, j)
    PROVE  k = j
BY CacheAssumption DEF FileOf, StateOK

(* What holds of a put or a file goes on to hold. *)
LEMMA StillPut ==
    ASSUME StateOK, DiskNext
    PROVE  /\ puts' \in 0..MaxPuts /\ owner' \in [1..MaxPuts -> Keys \cup {None}]
           /\ \A v \in 1..puts : v \in 1..puts' /\ owner'[v] = owner[v]
           /\ \A k \in Keys : \A v : WasPut(k, v) => WasPut(k, v)'
           /\ \A k \in Keys : \A f : FileOf(f, k) => FileOf(f, k)'
<1>1. CASE UNCHANGED <<puts, owner>>
  BY <1>1 DEF WasPut, FileOf, StateOK
<1>2. ASSUME NEW t \in Threads, NEW j \in Keys, PutCall(t, j)
      PROVE  /\ puts' \in 0..MaxPuts /\ owner' \in [1..MaxPuts -> Keys \cup {None}]
             /\ \A v \in 1..puts : v \in 1..puts' /\ owner'[v] = owner[v]
             /\ \A k \in Keys : \A v : WasPut(k, v) => WasPut(k, v)'
             /\ \A k \in Keys : \A f : FileOf(f, k) => FileOf(f, k)'
  <2>1. /\ puts' = puts + 1 /\ puts' \in 0..MaxPuts
        /\ owner' = [owner EXCEPT ![puts + 1] = j]
        /\ \A v \in 1..puts : v \in 1..puts' /\ owner'[v] = owner[v]
    BY <1>2, CacheAssumption DEF PutCall, StateOK
  <2>2. owner' \in [1..MaxPuts -> Keys \cup {None}]
    BY <2>1 DEF StateOK
  <2> QED
    BY <2>1, <2>2 DEF WasPut, FileOf
<1> QED
  BY <1>1, <1>2 DEF DiskNext, GetCall, DiskSteps, EndCall, DiskCrash, dvars, hists,
     PutOpen, PutHeader, PutPayload, PutPayloadFails, PutRename, GetOpen, GetHeader,
     GetPayload

(* A thread that does not move is still where it may be. *)
LEMMA ThreadKept ==
    ASSUME StateOK, DiskNext, NEW u, ThreadOK(u), pc'[u] = pc[u], arg'[u] = arg[u]
    PROVE  ThreadOK(u)'
<1>1. CASE pc[u] = "idle"
  BY <1>1 DEF ThreadOK, PutLocs, NoArg
<1>2. CASE pc[u] # "idle"
  <2> DEFINE k == arg[u].key
  <2>1. k \in Keys
    BY <1>2 DEF ThreadOK
  <2>2. pc[u] \in PutLocs => arg[u].val \in 1..puts' /\ owner'[arg[u].val] = k
    BY StillPut DEF ThreadOK
  <2>3. arg[u].fd # None => FileOf(arg[u].fd, k)'
    BY <2>1, StillPut DEF ThreadOK
  <2>4. pc[u] = "readbody" => arg[u].hdr # None /\ WasPut(k, arg[u].hdr)'
    BY <2>1, StillPut DEF ThreadOK
  <2>5. pc[u] = "found" => arg[u].val # None /\ WasPut(k, arg[u].val)'
    BY <2>1, StillPut DEF ThreadOK
  <2> QED
    BY <1>2, <2>1, <2>2, <2>3, <2>4, <2>5 DEF ThreadOK
<1> QED
  BY <1>1, <1>2

(* A step that moves t and leaves every other thread where it was. *)
LEMMA OneThread ==
    ASSUME DiskInv, DiskNext, NEW t \in Threads, NEW l, NEW a,
           pc' = [pc EXCEPT ![t] = l], arg' = [arg EXCEPT ![t] = a],
           ThreadOK(t)'
    PROVE  ThreadsOK'
<1>1. /\ \A u \in Threads \ {t} : pc'[u] = pc[u] /\ arg'[u] = arg[u]
      /\ pc' \in [Threads -> Locs] /\ arg' \in [Threads -> Arg]
  BY DEF DiskInv, ThreadsOK, ThreadOK
<1>2. \A u \in Threads \ {t} : ThreadOK(u)'
  BY <1>1, ThreadKept DEF DiskInv, ThreadsOK
<1> QED
  BY <1>1, <1>2 DEF ThreadsOK

(* Steps that write no file and change no name. *)
LEMMA FilesKept ==
    ASSUME DiskInv, DiskNext, UNCHANGED <<tmp, bin, file, puts, owner>>
    PROVE  NamesOK' /\ ContentsOK'
BY DEF DiskInv, NamesOK, ContentsOK, FileOf, WasPut

(* Writing what was put for k, or nothing, into a file of k. *)
LEMMA WriteKeeps ==
    ASSUME DiskInv, UNCHANGED <<puts, owner>>,
           NEW k \in Keys, NEW f \in Inodes, FileOf(f, k),
           NEW c \in [hdr : Vals \cup {None}, body : Vals \cup {None}],
           c.hdr # None => WasPut(k, c.hdr),
           c.body # None => WasPut(k, c.body),
           file' = [file EXCEPT ![f] = c]
    PROVE  /\ ContentsOK'
           /\ file' \in [Inodes -> [hdr : Vals \cup {None}, body : Vals \cup {None}]]
<1>1. /\ file'[f] = c /\ \A g \in Inodes \ {f} : file'[g] = file[g]
      /\ file' \in [Inodes -> [hdr : Vals \cup {None}, body : Vals \cup {None}]]
  BY DEF DiskInv, StateOK
<1>2. ASSUME NEW g \in Inodes, NEW j \in Keys, FileOf(g, j)
      PROVE  /\ file'[g].hdr # None => WasPut(j, file'[g].hdr)
             /\ file'[g].body # None => WasPut(j, file'[g].body)
  <2>1. CASE g = f
    <3>1. j = k
      BY <1>2, <2>1, OneKey DEF DiskInv
    <3> QED
      BY <1>1, <2>1, <3>1
  <2>2. CASE g # f
    BY <1>1, <1>2, <2>2 DEF DiskInv, ContentsOK
  <2> QED
    BY <2>1, <2>2
<1>3. ASSUME NEW g \in (puts + 1)..MaxPuts
      PROVE  file'[g] = Empty
  <2>1. g \in Inodes /\ g # f
    BY CacheAssumption DEF FileOf, Inodes, DiskInv, StateOK
  <2> QED
    BY <1>1, <1>3, <2>1 DEF DiskInv, ContentsOK
<1> QED
  BY <1>1, <1>2, <1>3 DEF ContentsOK, FileOf, WasPut

(* Every step keeps the disk's invariant. *)
LEMMA DiskInvInductive ==
    ASSUME DiskInv, DiskNext
    PROVE  DiskInv'
<1>0. /\ StateOK /\ ThreadsOK /\ NamesOK /\ ContentsOK
      /\ pc \in [Threads -> Locs] /\ arg \in [Threads -> Arg]
      /\ \A t \in Threads : ThreadOK(t)
      /\ \A f \in Keys \cup 1..puts : f \in Inodes
      /\ \A v \in 0..puts : v \in Vals
      /\ None \notin Inodes /\ None \notin Vals
  BY CacheAssumption DEF DiskInv, ThreadsOK, StateOK, Inodes, Vals
<1>1. ASSUME NEW t \in Threads, NEW k \in Keys, PutCall(t, k)
      PROVE  DiskInv'
  <2> DEFINE a == [NoArg EXCEPT !.key = k, !.val = puts + 1]
  <2>1. /\ pc' = [pc EXCEPT ![t] = "open"] /\ arg' = [arg EXCEPT ![t] = a]
        /\ puts < MaxPuts /\ puts' = puts + 1
        /\ owner' = [owner EXCEPT ![puts + 1] = k]
        /\ UNCHANGED <<tmp, bin, file, faults>>
        /\ clash' = [clash EXCEPT ![k] = @ \cup Clashes(t, k, PutLocs, "puts")
                                           \cup Clashes(t, k, GetLocs, "get")]
    BY <1>1 DEF PutCall, Goto, disk
  <2>2. /\ puts + 1 \in 1..MaxPuts /\ puts + 1 \in Vals
        /\ owner'[puts + 1] = k /\ \A v \in 1..puts : owner'[v] = owner[v]
    BY <1>0, <2>1, CacheAssumption DEF StateOK, Vals
  <2>3. clash' \in [Keys -> SUBSET {"puts", "get", "fault"}]
    BY <1>0, <2>1 DEF StateOK, Clashes
  <2>4. StateOK'
    BY <1>0, <2>1, <2>3, StillPut DEF StateOK
  <2>5. a \in Arg /\ a.key = k /\ a.val = puts + 1 /\ a.fd = None
    BY <2>2 DEF Arg, NoArg
  <2>6. ThreadOK(t)'
    BY <1>0, <2>1, <2>2, <2>5 DEF ThreadOK, Locs, PutLocs, StateOK
  <2>7. ThreadsOK'
    BY <2>1, <2>6, OneThread
  <2>8. NamesOK'
    BY <1>0, <2>1, StillPut DEF NamesOK
  <2>9. ASSUME NEW f \in Inodes, NEW j \in Keys, FileOf(f, j)'
        PROVE  /\ file'[f].hdr # None => WasPut(j, file[f].hdr)'
               /\ file'[f].body # None => WasPut(j, file[f].body)'
    <3>1. CASE FileOf(f, j)
      BY <1>0, <2>1, <3>1, StillPut DEF ContentsOK
    <3>2. CASE ~FileOf(f, j)
      <4>1. f \in 1..(puts + 1) /\ f \notin 1..puts
        BY <2>1, <2>2, <2>9, <3>2 DEF FileOf
      <4>2. f \in (puts + 1)..MaxPuts
        BY <1>0, <2>1, <4>1, CacheAssumption DEF StateOK
      <4> QED
        BY <1>0, <2>1, <4>2 DEF ContentsOK, Empty
    <3> QED
      BY <3>1, <3>2
  <2>10. \A f \in (puts' + 1)..MaxPuts : file'[f] = Empty
    BY <1>0, <2>1 DEF ContentsOK, StateOK
  <2> QED
    BY <2>4, <2>7, <2>8, <2>9, <2>10 DEF DiskInv, ContentsOK
<1>2. ASSUME NEW t \in Threads, NEW k \in Keys, GetCall(t, k)
      PROVE  DiskInv'
  <2> DEFINE a == [NoArg EXCEPT !.key = k]
  <2>1. /\ pc' = [pc EXCEPT ![t] = "lookup"] /\ arg' = [arg EXCEPT ![t] = a]
        /\ UNCHANGED <<tmp, bin, file, puts, faults, owner>>
        /\ clash' = [clash EXCEPT ![k] = @ \cup Clashes(t, k, PutLocs, "get")]
    BY <1>2 DEF GetCall, Goto, disk
  <2>2. StateOK'
    BY <1>0, <2>1 DEF StateOK, Clashes
  <2>3. a \in Arg /\ a.key = k /\ a.fd = None
    BY DEF Arg, NoArg
  <2>4. ThreadOK(t)'
    BY <1>0, <2>1, <2>3 DEF ThreadOK, Locs, PutLocs, GetLocs
  <2> QED
    BY <2>1, <2>2, <2>4, OneThread, FilesKept DEF DiskInv
<1>3. ASSUME NEW t \in Threads, PutOpen(t)
      PROVE  DiskInv'
  <2> DEFINE k == arg[t].key
             f == IF tmp[k] # None THEN tmp[k] ELSE arg[t].val
             a == [arg[t] EXCEPT !.fd = f]
  <2>1. /\ pc[t] = "open" /\ pc' = [pc EXCEPT ![t] = "header"]
        /\ tmp' = [tmp EXCEPT ![k] = f] /\ file' = [file EXCEPT ![f] = Empty]
        /\ arg' = [arg EXCEPT ![t] = a]
        /\ UNCHANGED <<bin, puts, faults, owner, clash>>
    BY <1>0, <1>3 DEF PutOpen, Goto, hists
  <2>2. k \in Keys /\ arg[t].val \in 1..puts /\ owner[arg[t].val] = k /\ arg[t] \in Arg
    BY <1>0, <2>1 DEF ThreadOK, PutLocs
  <2>3. f \in Inodes /\ FileOf(f, k) /\ f # None
    BY <1>0, <2>2 DEF NamesOK, FileOf, StateOK
  <2>4. ContentsOK' /\ file' \in [Inodes -> [hdr : Vals \cup {None}, body : Vals \cup {None}]]
    BY <2>1, <2>2, <2>3, WriteKeeps DEF Empty
  <2>5. StateOK'
    BY <1>0, <2>1, <2>2, <2>3, <2>4 DEF StateOK
  <2>6. NamesOK'
    BY <1>0, <2>1, <2>2, <2>3 DEF NamesOK, FileOf, StateOK
  <2>7. a \in Arg /\ a.key = k /\ a.fd = f /\ a.val = arg[t].val
    BY <2>2, <2>3 DEF Arg
  <2>8. ThreadOK(t)'
    BY <1>0, <2>1, <2>2, <2>3, <2>7 DEF ThreadOK, Locs, PutLocs, FileOf
  <2> QED
    BY <2>1, <2>4, <2>5, <2>6, <2>8, OneThread DEF DiskInv
<1>4. ASSUME NEW t \in Threads, PutHeader(t) \/ PutPayload(t)
      PROVE  DiskInv'
  <2> DEFINE k == arg[t].key
             f == arg[t].fd
             v == arg[t].val
  <2>1. /\ pc[t] \in {"header", "payload"}
        /\ UNCHANGED <<tmp, bin, arg, puts, faults, owner, clash>>
    BY <1>4 DEF PutHeader, PutPayload, hists
  <2>2. /\ k \in Keys /\ v \in 1..puts /\ owner[v] = k /\ f # None /\ FileOf(f, k)
        /\ f \in Inodes /\ v \in Vals /\ WasPut(k, v) /\ ThreadOK(t)
    BY <1>0, <2>1 DEF ThreadOK, PutLocs, FileOf, WasPut, StateOK
  <2>3. PICK c \in [hdr : Vals \cup {None}, body : Vals \cup {None}] :
          /\ c.hdr \in {v, file[f].hdr} /\ c.body \in {v, file[f].body}
          /\ file' = [file EXCEPT ![f] = c]
    <3>1. file[f] \in [hdr : Vals \cup {None}, body : Vals \cup {None}]
      BY <1>0, <2>2 DEF StateOK
    <3>2. CASE PutHeader(t)
      <4>1. file' = [file EXCEPT ![f] = [file[f] EXCEPT !.hdr = v]]
        BY <1>0, <2>2, <3>2 DEF PutHeader, StateOK
      <4> QED
        BY <2>2, <3>1, <4>1
    <3>3. CASE PutPayload(t)
      <4>1. file' = [file EXCEPT ![f] = [file[f] EXCEPT !.body = v]]
        BY <1>0, <2>2, <3>3 DEF PutPayload, StateOK
      <4> QED
        BY <2>2, <3>1, <4>1
    <3> QED
      BY <1>4, <3>2, <3>3
  <2>4. /\ c.hdr # None => WasPut(k, c.hdr)
        /\ c.body # None => WasPut(k, c.body)
    BY <1>0, <2>2, <2>3 DEF ContentsOK
  <2>5. ContentsOK' /\ file' \in [Inodes -> [hdr : Vals \cup {None}, body : Vals \cup {None}]]
    BY <2>1, <2>2, <2>3, <2>4, WriteKeeps
  <2>6. StateOK' /\ NamesOK'
    BY <1>0, <2>1, <2>5 DEF StateOK, NamesOK, FileOf
  <2>7. PICK l \in {"payload", "rename"} : pc' = [pc EXCEPT ![t] = l]
    BY <1>4 DEF PutHeader, PutPayload, Goto
  <2>8. /\ pc'[t] = l /\ arg' = [arg EXCEPT ![t] = arg[t]]
        /\ FileOf(f, k)'
    BY <1>0, <2>1, <2>2, <2>7 DEF FileOf
  <2>9. ThreadOK(t)'
    BY <2>1, <2>2, <2>8 DEF ThreadOK, Locs, PutLocs
  <2> QED
    BY <2>5, <2>6, <2>7, <2>8, <2>9, OneThread DEF DiskInv
<1>5. ASSUME NEW t \in Threads, PutPayloadFails(t)
      PROVE  DiskInv'
  <2>1. /\ pc[t] = "payload" /\ pc' = [pc EXCEPT ![t] = "rename"]
        /\ UNCHANGED <<tmp, bin, file, arg, puts, owner>>
        /\ faults < MaxFaults /\ faults' = faults + 1
        /\ clash' = [clash EXCEPT ![arg[t].key] = @ \cup {"fault"}]
    BY <1>5 DEF PutPayloadFails, Goto, disk
  <2>2. faults' \in 0..MaxFaults
    BY <1>0, <2>1, CacheAssumption DEF StateOK
  <2>3. clash' \in [Keys -> SUBSET {"puts", "get", "fault"}]
    BY <1>0, <2>1 DEF StateOK
  <2>4. StateOK'
    BY <1>0, <2>1, <2>2, <2>3 DEF StateOK
  <2>5. /\ pc'[t] = "rename" /\ arg' = [arg EXCEPT ![t] = arg[t]]
        /\ arg[t].key \in Keys /\ FileOf(arg[t].fd, arg[t].key)'
    BY <1>0, <2>1 DEF FileOf, ThreadOK
  <2>6. ThreadOK(t)'
    BY <1>0, <2>1, <2>5 DEF ThreadOK, Locs, PutLocs
  <2> QED
    BY <2>1, <2>4, <2>5, <2>6, OneThread, FilesKept DEF DiskInv
<1>6. ASSUME NEW t \in Threads, PutRename(t)
      PROVE  DiskInv'
  <2> DEFINE k == arg[t].key
  <2>1. /\ pc[t] = "rename" /\ UNCHANGED <<file, arg, puts, faults, owner, clash>>
        /\ \/ /\ tmp[k] # None /\ bin' = [bin EXCEPT ![k] = tmp[k]]
              /\ tmp' = [tmp EXCEPT ![k] = None]
           \/ UNCHANGED <<tmp, bin>>
    BY <1>6 DEF PutRename, hists
  <2>2. PICK l \in {"stored", "threw"} : pc' = [pc EXCEPT ![t] = l]
    BY <1>6 DEF PutRename, Goto
  <2>3. k \in Keys
    BY <1>0, <2>1 DEF ThreadOK
  <2>4. /\ \A j \in Keys : tmp'[j] \in {tmp[j], None} /\ bin'[j] \in {tmp[j], bin[j]}
        /\ tmp' \in [Keys -> Inodes \cup {None}] /\ bin' \in [Keys -> Inodes \cup {None}]
    BY <1>0, <2>1, <2>3 DEF StateOK
  <2>5. StateOK'
    BY <1>0, <2>1, <2>4 DEF StateOK
  <2>6. NamesOK'
    BY <1>0, <2>1, <2>4 DEF NamesOK, FileOf
  <2>7. ContentsOK'
    BY <1>0, <2>1 DEF ContentsOK, FileOf, WasPut
  <2>8. /\ pc'[t] = l /\ arg' = [arg EXCEPT ![t] = arg[t]]
        /\ FileOf(arg[t].fd, k)'
    BY <1>0, <2>1, <2>2 DEF FileOf, ThreadOK
  <2>9. ThreadOK(t)'
    BY <1>0, <2>1, <2>2, <2>3, <2>8 DEF ThreadOK, Locs, PutLocs
  <2> QED
    BY <2>2, <2>5, <2>6, <2>7, <2>8, <2>9, OneThread DEF DiskInv
<1>7. ASSUME NEW t \in Threads, GetOpen(t) \/ GetHeader(t) \/ GetPayload(t) \/ EndCall(t)
      PROVE  DiskInv'
  <2> DEFINE k == arg[t].key
  <2>1. UNCHANGED <<tmp, bin, file, puts, faults, owner, clash>>
    BY <1>7 DEF GetOpen, GetHeader, GetPayload, EndCall, disk, hists
  <2>2. StateOK'
    BY <1>0, <2>1 DEF StateOK
  <2>3. pc[t] # "idle" /\ k \in Keys /\ arg[t] \in Arg
    BY <1>0, <1>7 DEF GetOpen, GetHeader, GetPayload, EndCall, ThreadOK
  <2>4. CASE Return(t)
    <3>1. pc' = [pc EXCEPT ![t] = "idle"] /\ arg' = [arg EXCEPT ![t] = NoArg]
      BY <2>4 DEF Return, Goto
    <3>2. ThreadOK(t)'
      BY <1>0, <3>1 DEF ThreadOK, NoArg, Arg, Locs, PutLocs
    <3> QED
      BY <2>1, <2>2, <3>1, <3>2, OneThread, FilesKept DEF DiskInv
  <2>5. CASE GetOpen(t) /\ ~Return(t)
    <3> DEFINE a == [arg[t] EXCEPT !.fd = bin[k]]
    <3>1. /\ bin[k] # None /\ pc' = [pc EXCEPT ![t] = "readhdr"]
          /\ arg' = [arg EXCEPT ![t] = a]
      BY <1>0, <2>5 DEF GetOpen, Goto
    <3>2. FileOf(bin[k], k) /\ bin[k] \in Inodes
      BY <1>0, <2>3, <3>1 DEF NamesOK, StateOK
    <3>3. a \in Arg /\ a.key = k /\ a.fd = bin[k]
      BY <2>3, <3>2 DEF Arg
    <3>4. ThreadOK(t)'
      BY <1>0, <2>1, <2>3, <3>1, <3>2, <3>3 DEF ThreadOK, Locs, GetLocs, PutLocs, FileOf
    <3> QED
      BY <2>1, <2>2, <3>1, <3>4, OneThread, FilesKept DEF DiskInv
  <2>6. CASE GetHeader(t) /\ ~Return(t)
    <3> DEFINE h == file[arg[t].fd].hdr
               a == [arg[t] EXCEPT !.hdr = h]
    <3>1. /\ pc[t] = "readhdr" /\ h # None /\ pc' = [pc EXCEPT ![t] = "readbody"]
          /\ arg' = [arg EXCEPT ![t] = a]
      BY <1>0, <2>6 DEF GetHeader, Goto
    <3>2. FileOf(arg[t].fd, k) /\ arg[t].fd \in Inodes
      BY <1>0, <2>3, <3>1 DEF ThreadOK, Arg
    <3>3. WasPut(k, h) /\ h \in Vals
      BY <1>0, <2>3, <3>1, <3>2 DEF ContentsOK, StateOK
    <3>4. a \in Arg /\ a.key = k /\ a.hdr = h /\ a.fd = arg[t].fd
      BY <2>3, <3>3 DEF Arg
    <3>5. ThreadOK(t)'
      BY <1>0, <2>1, <2>3, <3>1, <3>2, <3>3, <3>4
         DEF ThreadOK, Locs, GetLocs, PutLocs, FileOf, WasPut
    <3> QED
      BY <2>1, <2>2, <3>1, <3>5, OneThread, FilesKept DEF DiskInv
  <2>7. CASE GetPayload(t) /\ ~Return(t)
    <3> DEFINE b == file[arg[t].fd].body
               a == [arg[t] EXCEPT !.val = b]
    <3>1. /\ pc[t] = "readbody" /\ b = arg[t].hdr /\ pc' = [pc EXCEPT ![t] = "found"]
          /\ arg' = [arg EXCEPT ![t] = a]
      BY <1>0, <2>7 DEF GetPayload, Goto
    <3>2. WasPut(k, b) /\ b # None /\ b \in Vals
      BY <1>0, <2>3, <3>1 DEF ThreadOK, Arg
    <3>3. a \in Arg /\ a.key = k /\ a.val = b /\ a.fd = arg[t].fd
      BY <2>3, <3>2 DEF Arg
    <3>4. ThreadOK(t)'
      BY <1>0, <2>1, <2>3, <3>1, <3>2, <3>3
         DEF ThreadOK, Locs, GetLocs, PutLocs, FileOf, WasPut
    <3> QED
      BY <2>1, <2>2, <3>1, <3>4, OneThread, FilesKept DEF DiskInv
  <2> QED
    BY <1>7, <2>4, <2>5, <2>6, <2>7 DEF EndCall
<1>8. CASE DiskCrash
  <2>1. /\ pc' = [t \in Threads |-> "idle"] /\ arg' = [t \in Threads |-> NoArg]
        /\ UNCHANGED <<tmp, bin, file, puts, faults, owner, clash>>
    BY <1>8 DEF DiskCrash, disk, hists
  <2>2. StateOK'
    BY <1>0, <2>1 DEF StateOK
  <2>3. ThreadsOK'
    BY <2>1 DEF ThreadsOK, ThreadOK, NoArg, Arg, Locs, PutLocs
  <2> QED
    BY <2>1, <2>2, <2>3, FilesKept DEF DiskInv
<1>9. CASE UNCHANGED dvars
  BY <1>9 DEF dvars, DiskInv, StateOK, ThreadsOK, ThreadOK, NamesOK, ContentsOK, FileOf, WasPut
<1> QED
  BY <1>1, <1>2, <1>3, <1>4, <1>5, <1>6, <1>7, <1>8, <1>9 DEF DiskNext, DiskSteps

(* The disk's invariant holds throughout. *)
LEMMA DiskInvariant == Spec => []DiskInv
<1>1. Init => DiskInv
  <2> SUFFICES ASSUME DiskInit PROVE DiskInv
    BY DEF Init
  <2>1. None \notin Inodes /\ None \notin Vals /\ 0 \in Vals /\ 0 \in 0..MaxFaults
    BY CacheAssumption DEF Inodes, Vals
  <2>2. StateOK
    BY <2>1, CacheAssumption DEF DiskInit, StateOK, Empty, Inodes, Vals
  <2>3. ThreadsOK
    BY DEF DiskInit, ThreadsOK, ThreadOK, NoArg, Arg, Locs, PutLocs
  <2>4. NamesOK
    BY DEF DiskInit, NamesOK, FileOf
  <2>5. ASSUME NEW f \in Inodes, NEW k \in Keys, FileOf(f, k)
        PROVE  /\ file[f].hdr # None => WasPut(k, file[f].hdr)
               /\ file[f].body # None => WasPut(k, file[f].body)
    <3>1. f = k
      BY <2>5 DEF FileOf, DiskInit
    <3> QED
      BY <3>1 DEF DiskInit, WasPut, Empty
  <2>6. ASSUME NEW f \in (puts + 1)..MaxPuts PROVE file[f] = Empty
    BY <2>6, CacheAssumption DEF DiskInit, Inodes
  <2> QED
    BY <2>2, <2>3, <2>4, <2>5, <2>6 DEF DiskInv, ContentsOK
<1>2. DiskInv /\ [Next]_vars => DiskInv'
  BY StepsOfDisk, DiskInvInductive
<1> QED
  BY <1>1, <1>2, PTL DEF Spec

(* get never returns a mixture of puts, nor what was put for another key,  *)
(* whatever overlaps, fails or dies.                                       *)
THEOREM GetsReturnPuts == Spec => []NoTornReads
<1>1. DiskInv => NoTornReads
  BY DEF DiskInv, ThreadsOK, ThreadOK, NoTornReads
<1> QED
  BY <1>1, DiskInvariant, PTL

-----------------------------------------------------------------------------
(* Atomic puts *)

(* Thread t is in a put of k. *)
Putting(t, k) == In(PutLocs, t, k)

(* Where the put of k by t is, it has this of its work in the files. *)
PutSoFar(t, k) ==
    /\ pc[t] = "open" => bin[k] # arg[t].val
    /\ pc[t] \in {"header", "payload", "rename"} => tmp[k] # None /\ tmp[k] = arg[t].fd
    /\ pc[t] \in {"payload", "rename"} => file[tmp[k]].hdr = arg[t].val
    /\ pc[t] = "rename" => file[tmp[k]].body = arg[t].val
    /\ pc[t] = "stored" => bin[k] # None /\ file[bin[k]].hdr = arg[t].val
    /\ pc[t] # "threw"

(* One put at a time writes <k>.tmp, which is never <k>.bin. *)
Atomic(k) ==
    /\ bin[k] = None \/ Whole(k)
    /\ tmp[k] # None => tmp[k] # bin[k]
    /\ \A t, u \in Threads : Putting(t, k) /\ Putting(u, k) => t = u
    /\ \A t \in Threads : Putting(t, k) => PutSoFar(t, k)

(* No two puts of k have overlapped, and no write of k has failed. *)
Undisturbed(k) == clash[k] \cap {"puts", "fault"} = {}

(* The inductive invariant for what a put leaves behind. *)
AtomicInv == \A k \in Keys : Undisturbed(k) => Atomic(k)

(* A step that leaves k's names and files alone, and its puts where they   *)
(* are or ends them.                                                       *)
LEMMA AtomicKept ==
    ASSUME NEW k \in Keys, Atomic(k),
           bin'[k] = bin[k], tmp'[k] = tmp[k],
           bin[k] # None => file'[bin[k]] = file[bin[k]],
           tmp[k] # None => file'[tmp[k]] = file[tmp[k]],
           \A u \in Threads : Putting(u, k)' =>
               Putting(u, k) /\ pc'[u] = pc[u] /\ arg'[u] = arg[u]
    PROVE  Atomic(k)'
<1>1. bin'[k] = None \/ Whole(k)'
  BY DEF Atomic, Whole
<1>2. \A t, u \in Threads : Putting(t, k)' /\ Putting(u, k)' => t = u
  BY DEF Atomic
<1>3. ASSUME NEW t \in Threads, Putting(t, k)'
      PROVE  PutSoFar(t, k)'
  <2>1. PutSoFar(t, k) /\ pc'[t] = pc[t] /\ arg'[t] = arg[t]
    BY <1>3 DEF Atomic
  <2> QED
    BY <2>1 DEF PutSoFar
<1> QED
  BY <1>1, <1>2, <1>3 DEF Atomic

(* The next point of the only put of k. *)
LEMMA AtomicStep ==
    ASSUME NEW k \in Keys, Atomic(k), NEW t \in Threads, Putting(t, k),
           \A u \in Threads \ {t} : pc'[u] = pc[u] /\ arg'[u] = arg[u],
           PutSoFar(t, k)', bin'[k] = None \/ Whole(k)', tmp'[k] # None => tmp'[k] # bin'[k]
    PROVE  Atomic(k)'
<1>1. \A u \in Threads : Putting(u, k)' => u = t
  BY DEF Atomic, Putting, In
<1> QED
  BY <1>1 DEF Atomic

(* What overlapped once has overlapped for ever. *)
LEMMA UndisturbedBefore ==
    ASSUME StateOK, DiskNext, NEW k \in Keys, Undisturbed(k)'
    PROVE  Undisturbed(k)
<1>1. CASE UNCHANGED clash
  BY <1>1 DEF Undisturbed
<1>2. ASSUME NEW t \in Threads, NEW j \in Keys, PutCall(t, j) \/ GetCall(t, j)
      PROVE  clash[k] \subseteq clash'[k]
  BY <1>2 DEF PutCall, GetCall, StateOK
<1>3. ASSUME NEW t \in Threads, PutPayloadFails(t)
      PROVE  clash[k] \subseteq clash'[k]
  BY <1>3 DEF PutPayloadFails, StateOK
<1> QED
  BY <1>1, <1>2, <1>3 DEF Undisturbed, DiskNext, DiskSteps, EndCall, DiskCrash, dvars,
     hists, PutOpen, PutHeader, PutPayload, PutRename, GetOpen, GetHeader, GetPayload

(* A write into a file of another key leaves k's files alone. *)
LEMMA OtherFile ==
    ASSUME DiskInv, NEW k \in Keys, NEW j \in Keys, j # k, NEW f, FileOf(f, j), NEW c,
           file' = [file EXCEPT ![f] = c]
    PROVE  /\ bin[k] # None => file'[bin[k]] = file[bin[k]]
           /\ tmp[k] # None => file'[tmp[k]] = file[tmp[k]]
<1>1. ASSUME NEW g, FileOf(g, k)
      PROVE  g # f
  BY <1>1, OneKey DEF DiskInv
<1> QED
  BY <1>1 DEF DiskInv, NamesOK, StateOK

(* Every step keeps the undisturbed keys' puts atomic. *)
LEMMA AtomicInductive ==
    ASSUME DiskInv, DiskInv', AtomicInv, DiskNext
    PROVE  AtomicInv'
<1> SUFFICES ASSUME NEW k \in Keys, Undisturbed(k)'
             PROVE  Atomic(k)'
  BY DEF AtomicInv
<1>0. /\ Atomic(k)
      /\ StateOK /\ ThreadsOK /\ NamesOK
      /\ pc \in [Threads -> Locs] /\ arg \in [Threads -> Arg]
      /\ \A t \in Threads : ThreadOK(t)
      /\ None \notin Inodes /\ None \notin Vals
  BY UndisturbedBefore, CacheAssumption DEF DiskInv, AtomicInv, ThreadsOK, Inodes, Vals
<1>1. ASSUME NEW t \in Threads, NEW j \in Keys, PutCall(t, j)
      PROVE  Atomic(k)'
  <2>1. /\ pc' = [pc EXCEPT ![t] = "open"] /\ pc[t] = "idle"
        /\ arg' = [arg EXCEPT ![t] = [NoArg EXCEPT !.key = j, !.val = puts + 1]]
        /\ UNCHANGED <<tmp, bin, file>>
        /\ clash' = [clash EXCEPT ![j] = @ \cup Clashes(t, j, PutLocs, "puts")
                                           \cup Clashes(t, j, GetLocs, "get")]
    BY <1>1 DEF PutCall, Goto, disk
  <2>2. /\ pc'[t] = "open" /\ arg'[t].key = j /\ arg'[t].val = puts + 1
        /\ \A u \in Threads \ {t} : pc'[u] = pc[u] /\ arg'[u] = arg[u]
    BY <1>0, <2>1 DEF NoArg
  <2>3. CASE j # k
    <3>1. \A u \in Threads : Putting(u, k)' => Putting(u, k) /\ pc'[u] = pc[u] /\ arg'[u] = arg[u]
      BY <2>2, <2>3 DEF Putting, In
    <3> QED
      BY <1>0, <2>1, <3>1, AtomicKept
  <2>4. CASE j = k
    <3>1. \A u \in Threads \ {t} : ~Putting(u, k)
      <4>1. "puts" \notin clash'[k]
        BY DEF Undisturbed
      <4>2. clash'[k] = clash[k] \cup Clashes(t, k, PutLocs, "puts")
                                 \cup Clashes(t, k, GetLocs, "get")
        BY <1>0, <2>1, <2>4 DEF StateOK
      <4> QED
        BY <4>1, <4>2 DEF Clashes, Putting
    <3>2. bin[k] # puts + 1
      BY <1>0, CacheAssumption DEF NamesOK, FileOf, StateOK
    <3>3. PutSoFar(t, k)'
      BY <2>1, <2>2, <3>2 DEF PutSoFar
    <3>4. \A u \in Threads : Putting(u, k)' => u = t
      BY <2>2, <3>1 DEF Putting, In
    <3>5. bin'[k] = None \/ Whole(k)'
      BY <1>0, <2>1 DEF Atomic, Whole
    <3> QED
      BY <1>0, <2>1, <3>3, <3>4, <3>5 DEF Atomic
  <2> QED
    BY <2>3, <2>4
<1>2. ASSUME NEW t \in Threads, PutOpen(t)
      PROVE  Atomic(k)'
  <2> DEFINE j == arg[t].key
             f == IF tmp[j] # None THEN tmp[j] ELSE arg[t].val
  <2>1. /\ pc[t] = "open" /\ pc' = [pc EXCEPT ![t] = "header"]
        /\ tmp' = [tmp EXCEPT ![j] = f] /\ file' = [file EXCEPT ![f] = Empty]
        /\ arg' = [arg EXCEPT ![t].fd = f] /\ UNCHANGED bin
    BY <1>2 DEF PutOpen, Goto
  <2>2. /\ j \in Keys /\ arg[t].val \in 1..puts /\ owner[arg[t].val] = j
        /\ arg[t].val # None /\ arg[t] \in Arg
    BY <1>0, <2>1, CacheAssumption DEF ThreadOK, PutLocs
  <2>3. FileOf(f, j) /\ f # None
    BY <1>0, <2>2 DEF NamesOK, FileOf
  <2>4. /\ pc'[t] = "header" /\ arg'[t].fd = f /\ arg'[t].key = j /\ Putting(t, j)
        /\ \A u \in Threads \ {t} : pc'[u] = pc[u] /\ arg'[u] = arg[u]
    BY <1>0, <2>1, <2>2 DEF Putting, In, PutLocs, Arg
  <2>5. CASE j # k
    <3>1. \A u \in Threads : Putting(u, k)' => Putting(u, k) /\ pc'[u] = pc[u] /\ arg'[u] = arg[u]
      BY <2>4, <2>5 DEF Putting, In
    <3>2. tmp'[k] = tmp[k]
      BY <1>0, <2>1, <2>5 DEF StateOK
    <3>3. /\ bin[k] # None => file'[bin[k]] = file[bin[k]]
          /\ tmp[k] # None => file'[tmp[k]] = file[tmp[k]]
      BY <2>1, <2>2, <2>3, <2>5, OtherFile
    <3> QED
      BY <1>0, <2>1, <3>1, <3>2, <3>3, AtomicKept
  <2>6. CASE j = k
    <3>1. tmp'[k] = f
      BY <1>0, <2>1, <2>6 DEF StateOK
    <3>2. bin[k] # f
      BY <1>0, <2>1, <2>2, <2>4, <2>6 DEF Atomic, PutSoFar
    <3>3. bin'[k] = None \/ Whole(k)'
      BY <1>0, <2>1, <3>2 DEF Atomic, Whole, StateOK
    <3>4. PutSoFar(t, k)'
      BY <2>3, <2>4, <3>1 DEF PutSoFar
    <3> QED
      BY <1>0, <2>1, <2>4, <2>6, <3>1, <3>2, <3>3, <3>4, AtomicStep
  <2> QED
    BY <2>5, <2>6
<1>3. ASSUME NEW t \in Threads, PutHeader(t) \/ PutPayload(t)
      PROVE  Atomic(k)'
  <2> DEFINE j == arg[t].key
             f == arg[t].fd
             v == arg[t].val
  <2>1. /\ pc[t] \in {"header", "payload"} /\ UNCHANGED <<tmp, bin, arg>>
    BY <1>3 DEF PutHeader, PutPayload
  <2>2. /\ j \in Keys /\ f # None /\ FileOf(f, j) /\ f \in Inodes /\ Putting(t, j)
    BY <1>0, <2>1 DEF ThreadOK, Putting, In, PutLocs, Arg
  <2>3. /\ file[f] \in [hdr : Vals \cup {None}, body : Vals \cup {None}]
        /\ file \in [Inodes -> [hdr : Vals \cup {None}, body : Vals \cup {None}]]
    BY <1>0, <2>2 DEF StateOK
  <2>4. \/ /\ pc[t] = "header" /\ pc' = [pc EXCEPT ![t] = "payload"]
           /\ file' = [file EXCEPT ![f] = [file[f] EXCEPT !.hdr = v]]
        \/ /\ pc[t] = "payload" /\ pc' = [pc EXCEPT ![t] = "rename"]
           /\ file' = [file EXCEPT ![f] = [file[f] EXCEPT !.body = v]]
    BY <1>3, <2>2, <2>3 DEF PutHeader, PutPayload, Goto
  <2>5. /\ pc'[t] \in {"payload", "rename"}
        /\ \A u \in Threads \ {t} : pc'[u] = pc[u] /\ arg'[u] = arg[u]
    BY <1>0, <2>1, <2>4
  <2>6. CASE j # k
    <3>1. \A u \in Threads : Putting(u, k)' => Putting(u, k) /\ pc'[u] = pc[u] /\ arg'[u] = arg[u]
      BY <2>1, <2>5, <2>6 DEF Putting, In
    <3>2. /\ bin[k] # None => file'[bin[k]] = file[bin[k]]
          /\ tmp[k] # None => file'[tmp[k]] = file[tmp[k]]
      <4>1. PICK c : file' = [file EXCEPT ![f] = c]
        BY <2>4
      <4> QED
        BY <2>2, <2>6, <4>1, OtherFile
    <3> QED
      BY <1>0, <2>1, <3>1, <3>2, AtomicKept
  <2>7. CASE j = k
    <3>1. tmp[k] = f /\ bin[k] # f /\ PutSoFar(t, k)
      BY <1>0, <2>1, <2>2, <2>7 DEF Atomic, PutSoFar
    <3>2. bin'[k] = None \/ Whole(k)'
      <4>1. \A g \in Inodes \ {f} : file'[g] = file[g]
        BY <2>3, <2>4
      <4>2. bin[k] # None => bin[k] \in Inodes
        BY <1>0 DEF StateOK
      <4> QED
        BY <1>0, <2>1, <3>1, <4>1, <4>2 DEF Atomic, Whole
    <3>3. ASSUME pc[t] = "header" PROVE PutSoFar(t, k)'
      <4>1. pc'[t] = "payload" /\ file'[f].hdr = v
        BY <1>0, <2>2, <2>3, <2>4, <3>3
      <4> QED
        BY <2>1, <2>2, <3>1, <4>1 DEF PutSoFar
    <3>4. ASSUME pc[t] = "payload" PROVE PutSoFar(t, k)'
      <4>1. pc'[t] = "rename" /\ file'[f].body = v /\ file'[f].hdr = file[f].hdr
        BY <1>0, <2>2, <2>3, <2>4, <3>4
      <4> QED
        BY <2>1, <2>2, <3>1, <3>4, <4>1 DEF PutSoFar
    <3>5. PutSoFar(t, k)'
      BY <2>1, <3>3, <3>4
    <3> QED
      BY <1>0, <2>1, <2>2, <2>5, <2>7, <3>1, <3>2, <3>5, AtomicStep
  <2> QED
    BY <2>6, <2>7
<1>4. ASSUME NEW t \in Threads, PutPayloadFails(t)
      PROVE  Atomic(k)'
  <2>1. /\ pc[t] = "payload" /\ pc' = [pc EXCEPT ![t] = "rename"]
        /\ UNCHANGED <<tmp, bin, file, arg>>
        /\ clash' = [clash EXCEPT ![arg[t].key] = @ \cup {"fault"}]
    BY <1>4 DEF PutPayloadFails, Goto, disk
  <2>2. arg[t].key # k
    BY <1>0, <2>1 DEF Undisturbed, StateOK
  <2>3. \A u \in Threads : Putting(u, k)' => Putting(u, k) /\ pc'[u] = pc[u] /\ arg'[u] = arg[u]
    BY <1>0, <2>1, <2>2 DEF Putting, In
  <2> QED
    BY <1>0, <2>1, <2>3, AtomicKept
<1>5. ASSUME NEW t \in Threads, PutRename(t)
      PROVE  Atomic(k)'
  <2> DEFINE j == arg[t].key
  <2>1. pc[t] = "rename" /\ UNCHANGED <<file, arg>>
    BY <1>5 DEF PutRename
  <2>2. j \in Keys /\ Putting(t, j)
    BY <1>0, <2>1 DEF ThreadOK, Putting, In, PutLocs
  <2>3. \/ /\ tmp[j] # None /\ bin' = [bin EXCEPT ![j] = tmp[j]]
           /\ tmp' = [tmp EXCEPT ![j] = None] /\ pc' = [pc EXCEPT ![t] = "stored"]
        \/ /\ tmp[j] = None /\ UNCHANGED <<tmp, bin>> /\ pc' = [pc EXCEPT ![t] = "threw"]
    BY <1>5 DEF PutRename, Goto
  <2>4. /\ pc'[t] # "idle"
        /\ \A u \in Threads \ {t} : pc'[u] = pc[u] /\ arg'[u] = arg[u]
    BY <1>0, <2>1, <2>3
  <2>5. CASE j # k
    <3>1. bin'[k] = bin[k] /\ tmp'[k] = tmp[k]
      BY <1>0, <2>3, <2>5 DEF StateOK
    <3>2. \A u \in Threads : Putting(u, k)' => Putting(u, k) /\ pc'[u] = pc[u] /\ arg'[u] = arg[u]
      BY <2>1, <2>4, <2>5 DEF Putting, In
    <3> QED
      BY <1>0, <2>1, <3>1, <3>2, AtomicKept
  <2>6. CASE j = k
    <3>1. /\ tmp[k] # None /\ file[tmp[k]].hdr = arg[t].val /\ file[tmp[k]].body = arg[t].val
      BY <1>0, <2>1, <2>2, <2>6 DEF Atomic, PutSoFar
    <3>2. bin'[k] = tmp[k] /\ tmp'[k] = None /\ pc'[t] = "stored"
      BY <1>0, <2>3, <2>6, <3>1 DEF StateOK
    <3>3. arg[t].val # None
      BY <1>0, <2>1, CacheAssumption DEF ThreadOK, PutLocs
    <3>4. Whole(k)' /\ PutSoFar(t, k)'
      BY <2>1, <3>1, <3>2, <3>3 DEF Whole, PutSoFar
    <3> QED
      BY <1>0, <2>2, <2>4, <2>6, <3>2, <3>4, AtomicStep
  <2> QED
    BY <2>5, <2>6
<1>6. ASSUME UNCHANGED <<tmp, bin, file>>,
             \A u \in Threads : pc'[u] \in PutLocs => pc'[u] = pc[u] /\ arg'[u] = arg[u]
      PROVE  Atomic(k)'
  <2>1. \A u \in Threads : Putting(u, k)' => Putting(u, k) /\ pc'[u] = pc[u] /\ arg'[u] = arg[u]
    BY <1>6 DEF Putting, In
  <2> QED
    BY <1>0, <1>6, <2>1, AtomicKept
<1>7. ASSUME NEW t \in Threads,
             \/ \E j \in Keys : GetCall(t, j)
             \/ GetOpen(t) \/ GetHeader(t) \/ GetPayload(t) \/ EndCall(t)
      PROVE  Atomic(k)'
  <2>1. UNCHANGED <<tmp, bin, file>>
    BY <1>7 DEF GetCall, GetOpen, GetHeader, GetPayload, EndCall, disk
  <2>2. \E l \in {"idle"} \cup GetLocs : pc' = [pc EXCEPT ![t] = l]
    BY <1>7 DEF GetCall, GetOpen, GetHeader, GetPayload, EndCall, Return, Goto, GetLocs
  <2>3. \A u \in Threads \ {t} : pc'[u] = pc[u] /\ arg'[u] = arg[u]
    BY <1>0, <1>7 DEF GetCall, GetOpen, GetHeader, GetPayload, EndCall, Return, Goto
  <2>4. pc'[t] \notin PutLocs
    BY <1>0, <2>2 DEF PutLocs, GetLocs
  <2> QED
    BY <1>6, <2>1, <2>3, <2>4
<1>8. CASE DiskCrash
  BY <1>6, <1>8 DEF DiskCrash, disk, PutLocs
<1>9. CASE UNCHANGED dvars
  BY <1>6, <1>9 DEF dvars
<1> QED
  BY <1>1, <1>2, <1>3, <1>4, <1>5, <1>7, <1>8, <1>9 DEF DiskNext, DiskSteps

(* Both invariants hold throughout. *)
LEMMA AtomicInvariant == Spec => []AtomicInv
<1>1. Init => AtomicInv
  <2> SUFFICES ASSUME DiskInit, NEW k \in Keys PROVE Atomic(k)
    BY DEF Init, AtomicInv
  <2>1. bin[k] = None \/ (bin[k] = k /\ k \in Disk0)
    BY DEF DiskInit
  <2>2. bin[k] = None \/ Whole(k)
    BY <2>1, CacheAssumption DEF DiskInit, Whole, Inodes
  <2>3. tmp[k] = None /\ \A t \in Threads : ~Putting(t, k)
    BY DEF DiskInit, Putting, In, PutLocs
  <2> QED
    BY <2>2, <2>3 DEF Atomic
<1>2. DiskInv /\ DiskInv' /\ AtomicInv /\ [Next]_vars => AtomicInv'
  BY StepsOfDisk, AtomicInductive
<1> QED
  BY <1>1, <1>2, DiskInvariant, PTL DEF Spec

(* As long as puts of a key do not overlap and no write fails, its file is *)
(* absent or whole, at whatever moment the process dies, and put does not  *)
(* throw.                                                                  *)
THEOREM PutsAlwaysAtomic == Spec => []PutsAtomic
<1>1. AtomicInv => PutsAtomic
  BY DEF AtomicInv, PutsAtomic, Undisturbed, Atomic, PutSoFar, Putting, In, PutLocs
<1> QED
  BY <1>1, AtomicInvariant, PTL

=============================================================================
