-------------------------------- MODULE Host --------------------------------
(***************************************************************************)
(* What the collectives and the vendor GEMM have in common: one host       *)
(* thread per rank, each with a device and a stream of its own, working    *)
(* through a program of calls.  Work put on a stream runs in stream order; *)
(* the allocator's free waits for the device.  Both are external.          *)
(***************************************************************************)
EXTENDS Integers, Sequences, FiniteSets

CONSTANTS
    Ranks,      \* the ranks of the communicator
    Program,    \* Program[r]: the calls of rank r, in order
    MaxFaults   \* bound: library calls that fail

ASSUME HostAssumption ==
    /\ IsFiniteSet(Ranks) /\ MaxFaults \in Nat
    /\ \A r \in Ranks : Program[r] \in Seq(STRING)

VARIABLES
    step,     \* step[r]: how many calls rank r has finished
    hpc,      \* hpc[r]: where rank r is in the current one
    stream,   \* stream[r]: the work pending on r's stream
    temps,    \* temps[r]: device buffers r's current call has allocated
    faults    \* library calls that have failed

hostVars == <<step, hpc, stream, temps, faults>>

HostInit ==
    /\ step = [r \in Ranks |-> 0]
    /\ hpc = [r \in Ranks |-> "next"]
    /\ stream = [r \in Ranks |-> <<>>]
    /\ temps = [r \in Ranks |-> 0]
    /\ faults = 0

(* Rank r is about to make call c. *)
Calls(r, c) == hpc[r] = "next" /\ step[r] < Len(Program[r]) /\ Program[r][step[r] + 1] = c

Goto(r, l) == hpc' = [hpc EXCEPT ![r] = l]
Return(r) == Goto(r, "next") /\ step' = [step EXCEPT ![r] = @ + 1]

(* A failed call throws, and nobody catches it: the rank is done. *)
Throws(r) == faults < MaxFaults /\ faults' = faults + 1 /\ Goto(r, "threw")

Work(op, r) == [op |-> op, by |-> r, at |-> step[r]]
Enqueue(s, w) == stream' = [stream EXCEPT ![s] = Append(@, w)]

Ended(r) == hpc[r] = "threw" \/ (hpc[r] = "next" /\ step[r] = Len(Program[r]))

(* Mutant: a free that does not wait. *)
FreeAsync(r) ==
    /\ hpc[r] = "free"
    /\ temps' = [temps EXCEPT ![r] = 0]
    /\ Return(r)
    /\ UNCHANGED <<stream, faults>>

(* cudaFree, hipFree: waits until the device is idle. *)
DeviceFree(r) ==
    /\ hpc[r] = "free" /\ stream[r] = <<>>
    /\ temps' = [temps EXCEPT ![r] = 0]
    /\ Return(r)
    /\ UNCHANGED <<stream, faults>>

(* AMP_SYNC by the caller, or .wait() on a oneCCL event. *)
Synchronize(r) ==
    /\ \/ hpc[r] = "wait"
       \/ Calls(r, "sync")
    /\ stream[r] = <<>>
    /\ Return(r)
    /\ UNCHANGED <<stream, temps, faults>>

=============================================================================
