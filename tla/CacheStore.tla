----------------------------- MODULE CacheStore -----------------------------
(***************************************************************************)
(* The disk cache of include/cache.hpp and src/cache.cpp, one file system  *)
(* operation at a time.  put writes a header and the payload to <key>.tmp  *)
(* and renames it to <key>.bin; get opens <key>.bin, checks the header and *)
(* then the payload against it.  No lock is taken: all puts of a key share *)
(* one .tmp file.  The component has no loop of its own; the modules that  *)
(* use it say who calls it and what follows when it returns.               *)
(*                                                                         *)
(* A file is its inode: the names tmp[k] and bin[k] refer to one, and an   *)
(* open stream keeps referring to it whatever happens to the names.  The   *)
(* contents are those of the put whose header, and of the put whose        *)
(* payload, was written last; payloads of different puts are taken to have *)
(* different checksums.  The value of the i-th put is i, that of an older  *)
(* file is 0.                                                              *)
(*                                                                         *)
(* Left out: fingerprint, which computes keys, and size.                   *)
(***************************************************************************)
EXTENDS Integers

CONSTANTS
    Threads,
    Keys,
    Disk0,      \* keys an earlier process left a file for
    None,       \* no file, no value, nothing written
    MaxPuts,    \* bound: calls of put
    MaxFaults   \* bound: payload writes that fail

Vals == 0..MaxPuts

(* Old files are named by their key, others by the put that creates them. *)
Inodes == Keys \cup 1..MaxPuts

ASSUME CacheAssumption ==
    /\ Disk0 \subseteq Keys
    /\ MaxPuts \in Nat /\ MaxFaults \in Nat
    /\ None \notin Keys \cup Int
    /\ Keys \cap Int = {}

VARIABLES
    tmp,      \* <key>.tmp: its inode, or None
    bin,      \* <key>.bin: its inode, or None
    file,     \* what is in each inode
    pc,       \* where each thread is
    arg,      \* its locals: key, value, open file, header read
    puts,     \* calls of put so far
    faults,   \* failed writes so far
    owner,    \* history: the key each put was for
    clash     \* history: per key, what overlapped or failed

disk   == <<tmp, bin, file>>
hists  == <<owner, clash>>
dvars  == <<tmp, bin, file, pc, arg, puts, faults, owner, clash>>

Empty == [hdr |-> None, body |-> None]
NoArg == [key |-> None, val |-> None, fd |-> None, hdr |-> None]

Goto(t, l) == pc' = [pc EXCEPT ![t] = l]

PutLocs == {"open", "header", "payload", "rename", "stored", "threw"}
GetLocs == {"lookup", "readhdr", "readbody", "found"}

In(L, t, k) == pc[t] \in L /\ arg[t].key = k

(* A call on k by t has begun: what does it overlap? *)
Clashes(t, k, L, what) ==
    IF \E u \in Threads \ {t} : In(L, u, k) THEN {what} ELSE {}

-----------------------------------------------------------------------------
(* put *)

PutCall(t, k) ==
    /\ pc[t] = "idle"
    /\ puts < MaxPuts
    /\ puts' = puts + 1
    /\ owner' = [owner EXCEPT ![puts + 1] = k]
    /\ clash' = [clash EXCEPT ![k] = @ \cup Clashes(t, k, PutLocs, "puts")
                                       \cup Clashes(t, k, GetLocs, "get")]
    /\ arg' = [arg EXCEPT ![t] = [NoArg EXCEPT !.key = k, !.val = puts + 1]]
    /\ Goto(t, "open")
    /\ UNCHANGED <<disk, faults>>

(* Mutant: the .bin file is written in place. *)
OpenInPlace(t) ==
    LET k == arg[t].key
        f == IF bin[k] # None THEN bin[k] ELSE arg[t].val
    IN  /\ pc[t] = "open"
        /\ bin' = [bin EXCEPT ![k] = f]
        /\ tmp' = [tmp EXCEPT ![k] = f]
        /\ file' = [file EXCEPT ![f] = Empty]
        /\ arg' = [arg EXCEPT ![t].fd = f]
        /\ Goto(t, "header")
        /\ UNCHANGED <<puts, faults, hists>>

(* std::ofstream creates the file, or truncates the one that is there. *)
PutOpen(t) ==
    LET k == arg[t].key
        f == IF tmp[k] # None THEN tmp[k] ELSE arg[t].val
    IN  /\ pc[t] = "open"
        /\ tmp' = [tmp EXCEPT ![k] = f]
        /\ file' = [file EXCEPT ![f] = Empty]
        /\ arg' = [arg EXCEPT ![t].fd = f]
        /\ Goto(t, "header")
        /\ UNCHANGED <<bin, puts, faults, hists>>

PutHeader(t) ==
    /\ pc[t] = "header"
    /\ file' = [file EXCEPT ![arg[t].fd].hdr = arg[t].val]
    /\ Goto(t, "payload")
    /\ UNCHANGED <<tmp, bin, arg, puts, faults, hists>>

PutPayload(t) ==
    /\ pc[t] = "payload"
    /\ file' = [file EXCEPT ![arg[t].fd].body = arg[t].val]
    /\ Goto(t, "rename")
    /\ UNCHANGED <<tmp, bin, arg, puts, faults, hists>>

(* The stream's state is never looked at: a write that fails goes on. *)
PutPayloadFails(t) ==
    /\ pc[t] = "payload"
    /\ faults < MaxFaults
    /\ faults' = faults + 1
    /\ clash' = [clash EXCEPT ![arg[t].key] = @ \cup {"fault"}]
    /\ Goto(t, "rename")
    /\ UNCHANGED <<disk, arg, puts, owner>>

(* fs::rename moves whatever <key>.tmp is, and throws if there is none. *)
PutRename(t) ==
    LET k == arg[t].key
    IN  /\ pc[t] = "rename"
        /\ \/ /\ tmp[k] # None
              /\ bin' = [bin EXCEPT ![k] = tmp[k]]
              /\ tmp' = [tmp EXCEPT ![k] = None]
              /\ Goto(t, "stored")
           \/ /\ tmp[k] = None
              /\ Goto(t, "threw")
              /\ UNCHANGED <<tmp, bin>>
        /\ UNCHANGED <<file, arg, puts, faults, hists>>

-----------------------------------------------------------------------------
(* get *)

GetCall(t, k) ==
    /\ pc[t] = "idle"
    /\ clash' = [clash EXCEPT ![k] = @ \cup Clashes(t, k, PutLocs, "get")]
    /\ arg' = [arg EXCEPT ![t] = [NoArg EXCEPT !.key = k]]
    /\ Goto(t, "lookup")
    /\ UNCHANGED <<disk, puts, faults, owner>>

(* nullopt: the call is over. *)
Return(t) == Goto(t, "idle") /\ arg' = [arg EXCEPT ![t] = NoArg]

GetOpen(t) ==
    LET f == bin[arg[t].key]
    IN  /\ pc[t] = "lookup"
        /\ \/ f = None /\ Return(t)
           \/ f # None /\ arg' = [arg EXCEPT ![t].fd = f] /\ Goto(t, "readhdr")
        /\ UNCHANGED <<disk, puts, faults, hists>>

GetHeader(t) ==
    LET h == file[arg[t].fd].hdr
    IN  /\ pc[t] = "readhdr"
        /\ \/ h = None /\ Return(t)
           \/ h # None /\ arg' = [arg EXCEPT ![t].hdr = h] /\ Goto(t, "readbody")
        /\ UNCHANGED <<disk, puts, faults, hists>>

Torn == -1

(* Mutant: the checksum is not compared. *)
GetUnchecked(t) ==
    LET b == file[arg[t].fd].body
    IN  /\ pc[t] = "readbody"
        /\ \/ b = None /\ Return(t)
           \/ /\ b # None
              /\ arg' = [arg EXCEPT ![t].val = IF b = arg[t].hdr THEN b ELSE Torn]
              /\ Goto(t, "found")
        /\ UNCHANGED <<disk, puts, faults, hists>>

(* The payload is short, or its checksum is not the header's: no hit. *)
GetPayload(t) ==
    LET b == file[arg[t].fd].body
    IN  /\ pc[t] = "readbody"
        /\ \/ b # arg[t].hdr /\ Return(t)
           \/ b = arg[t].hdr /\ arg' = [arg EXCEPT ![t].val = b] /\ Goto(t, "found")
        /\ UNCHANGED <<disk, puts, faults, hists>>

DiskSteps(t) ==
    \/ PutOpen(t) \/ PutHeader(t) \/ PutPayload(t) \/ PutPayloadFails(t)
    \/ PutRename(t)
    \/ GetOpen(t) \/ GetHeader(t) \/ GetPayload(t)

DiskInit ==
    /\ tmp = [k \in Keys |-> None]
    /\ bin = [k \in Keys |-> IF k \in Disk0 THEN k ELSE None]
    /\ file = [f \in Inodes |-> IF f \in Disk0 THEN [hdr |-> 0, body |-> 0] ELSE Empty]
    /\ pc = [t \in Threads |-> "idle"]
    /\ arg = [t \in Threads |-> NoArg]
    /\ puts = 0 /\ faults = 0
    /\ owner = [v \in 1..MaxPuts |-> None]
    /\ clash = [k \in Keys |-> {}]

(* The process dies: threads and open streams are gone, files stay. *)
DiskCrash ==
    /\ pc' = [t \in Threads |-> "idle"]
    /\ arg' = [t \in Threads |-> NoArg]
    /\ UNCHANGED <<disk, puts, faults, hists>>

-----------------------------------------------------------------------------
(* Properties *)

Whole(k) == bin[k] # None /\ file[bin[k]].hdr # None /\ file[bin[k]].hdr = file[bin[k]].body

(* v was put for k, or was there before. *)
WasPut(k, v) == IF v = 0 THEN k \in Disk0 ELSE v \in 1..puts /\ owner[v] = k

DiskTypeOK ==
    /\ tmp \in [Keys -> Inodes \cup {None}]
    /\ bin \in [Keys -> Inodes \cup {None}]
    /\ file \in [Inodes -> [hdr : Vals \cup {None}, body : Vals \cup {None}]]
    /\ pc \in [Threads -> {"idle"} \cup PutLocs \cup GetLocs]
    /\ arg \in [Threads -> [key : Keys \cup {None}, val : Vals \cup {None},
                            fd : Inodes \cup {None}, hdr : Vals \cup {None}]]
    /\ puts \in 0..MaxPuts /\ faults \in 0..MaxFaults
    /\ owner \in [1..MaxPuts -> Keys \cup {None}]
    /\ clash \in [Keys -> SUBSET {"puts", "get", "fault"}]

(* "Atomic write via temp file: prevent partial-write corruption": as long *)
(* as no two puts of the key have overlapped and no write has failed, the  *)
(* .bin file is absent or whole at every moment, whatever readers do and   *)
(* wherever the process has died; and put does not throw.                  *)
PutsAtomic ==
    \A k \in Keys : clash[k] \cap {"puts", "fault"} = {} =>
        /\ bin[k] = None \/ Whole(k)
        /\ \A t \in Threads : ~In({"threw"}, t, k)

(* get never returns a mixture: what it found is what some put of the same *)
(* key wrote, even when puts overlap, writes fail and the process dies.    *)
NoTornReads ==
    \A t \in Threads : pc[t] = "found" => WasPut(arg[t].key, arg[t].val)

=============================================================================
