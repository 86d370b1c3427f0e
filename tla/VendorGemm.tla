------------------------------ MODULE VendorGemm ------------------------------
(***************************************************************************)
(* The vendor GEMM wrapper of src/gemm_vendor.cpp, one instance per        *)
(* process (global_gemm), and launch_matmul_fp8e4m3, which calls it.       *)
(***************************************************************************)
EXTENDS Host

CONSTANTS
    Nobody,       \* no stream
    Setups,       \* the pairs of backend and type looked at
    Serialised    \* TRUE if callers take turns in gemm: the code does not make them

ASSUME GemmAssumption ==
    /\ Setups \subseteq {"cublas", "rocblas", "fallback"} \X {"fp32", "fp8"}
    /\ Serialised \in BOOLEAN

VARIABLES
    backend,   \* "cublas", "rocblas", or "fallback" if the handle is not created
    dtype,     \* of A and B: "fp32" or "fp8"
    memory,    \* where AMP_MALLOC puts A, B and C: "device", "host" (CPU build)
    vendor,    \* the instance: alive, workspace ("none", "own", "caller") and
               \* the stream that the rocBLAS handle is bound to
    descs,     \* descs[r]: descriptors that r's current call has created
    product    \* product[r]: "none", "pending", "done"

gemmVars == <<backend, dtype, memory, vendor, descs, product>>

GemmInit ==
    /\ \E setup \in Setups : backend = setup[1] /\ dtype = setup[2]
    /\ memory \in {"device", "host"}
    /\ memory = "host" => backend = "fallback"
    /\ vendor = [alive |-> FALSE, ws |-> "none", bound |-> Nobody]
    /\ descs = [r \in Ranks |-> 0]
    /\ product = [r \in Ranks |-> "none"]

(* op_desc, three layouts and the preference. *)
Descriptors == 5

(* The first caller constructs the instance (call_once); the allocation of *)
(* the workspace may fail, which is no error.                              *)
Construct(r) ==
    /\ Calls(r, "gemm") /\ ~vendor.alive
    /\ \E ws \in IF backend = "cublas" THEN {"own", "none"} ELSE {"none"} :
         vendor' = [vendor EXCEPT !.alive = TRUE, !.ws = ws]
    /\ UNCHANGED <<hostVars, backend, dtype, memory, descs, product>>

(* The caller's own workspace replaces the one that the constructor        *)
(* allocated, whose address is lost.                                       *)
set_workspace ==
    /\ vendor.alive /\ backend = "cublas" /\ vendor.ws = "own"
    /\ vendor' = [vendor EXCEPT !.ws = "caller"]
    /\ UNCHANGED <<hostVars, backend, dtype, memory, descs, product>>

(* The places inside of gemm. *)
InGemm == {"create", "launch", "release", "set", "rocgemm", "host"}

(* Entry of gemm, or of launch_matmul_fp8e4m3: two device scalars first. *)
EnterGemm(r) ==
    /\ Calls(r, "gemm") /\ vendor.alive
    /\ Serialised => \A s \in Ranks : hpc[s] \notin InGemm
    /\ temps' = [temps EXCEPT ![r] = IF dtype = "fp8" THEN 2 ELSE 0]
    /\ Goto(r, CASE backend = "cublas" -> "create" [] backend = "rocblas" -> "set"
                 [] OTHER -> "host")
    /\ UNCHANGED <<step, stream, faults, gemmVars>>

(* How gemm's return goes on: FP8 callers free their scalars. *)
LeaveGemm(r) ==
    IF dtype = "fp8" THEN Goto(r, "free") /\ UNCHANGED step ELSE Return(r)

(* The next of the descriptors.  CUBLAS_CHECK throws past the destroys. *)
Create(r) ==
    /\ hpc[r] = "create"
    /\ \/ /\ descs' = [descs EXCEPT ![r] = @ + 1]
          /\ Goto(r, IF descs[r] + 1 = Descriptors THEN "launch" ELSE "create")
          /\ UNCHANGED faults
       \/ Throws(r) /\ UNCHANGED descs
    /\ UNCHANGED <<step, stream, temps, backend, dtype, memory, vendor, product>>

(* cublasLtMatmul takes the stream as an argument. *)
Matmul(r) ==
    /\ hpc[r] = "launch"
    /\ \/ /\ Enqueue(r, Work("gemm", r))
          /\ product' = [product EXCEPT ![r] = "pending"]
          /\ Goto(r, "release")
          /\ UNCHANGED faults
       \/ Throws(r) /\ UNCHANGED <<stream, product>>
    /\ UNCHANGED <<step, temps, backend, dtype, memory, vendor, descs>>

(* Mutant: the layout of C is not destroyed. *)
ReleaseAllButC(r) ==
    /\ hpc[r] = "release"
    /\ descs' = [descs EXCEPT ![r] = 1]
    /\ LeaveGemm(r)
    /\ UNCHANGED <<stream, temps, faults, backend, dtype, memory, vendor, product>>

Release(r) ==
    /\ hpc[r] = "release"
    /\ descs' = [descs EXCEPT ![r] = 0]
    /\ LeaveGemm(r)
    /\ UNCHANGED <<stream, temps, faults, backend, dtype, memory, vendor, product>>

(* Mutant: a bound handle keeps its stream. *)
SetStreamOnce(r) ==
    /\ hpc[r] = "set"
    /\ vendor' = [vendor EXCEPT !.bound = IF @ = Nobody THEN r ELSE @]
    /\ Goto(r, "rocgemm")
    /\ UNCHANGED <<step, stream, temps, faults, backend, dtype, memory, descs, product>>

(* rocBLAS has no stream argument: the shared handle is bound to one, and  *)
(* the next call, by whichever thread, goes there.                         *)
SetStream(r) ==
    /\ hpc[r] = "set"
    /\ \/ vendor' = [vendor EXCEPT !.bound = r] /\ Goto(r, "rocgemm") /\ UNCHANGED faults
       \/ Throws(r) /\ UNCHANGED vendor
    /\ UNCHANGED <<step, stream, temps, backend, dtype, memory, descs, product>>

(* to_rocblas_dtype knows no FP8: the call throws before the GEMM. *)
RocGemm(r) ==
    /\ hpc[r] = "rocgemm"
    /\ \/ /\ dtype = "fp32"
          /\ Enqueue(vendor.bound, Work("gemm", r))
          /\ product' = [product EXCEPT ![r] = "pending"]
          /\ LeaveGemm(r)
          /\ UNCHANGED faults
       \/ dtype = "fp8" /\ Goto(r, "threw") /\ UNCHANGED <<step, stream, product, faults>>
       \/ Throws(r) /\ UNCHANGED <<step, stream, product>>
    /\ UNCHANGED <<temps, backend, dtype, memory, vendor, descs>>

(* The host computes FP32 itself, for any other type it returns at once.  *)
(* It reads and writes through the caller's pointers.                      *)
Fallback(r) ==
    /\ hpc[r] = "host"
    /\ product' = [product EXCEPT ![r] = IF dtype = "fp32" THEN "done" ELSE @]
    /\ LeaveGemm(r)
    /\ UNCHANGED <<stream, temps, faults, backend, dtype, memory, vendor, descs>>

(* If they point to device memory, that is undefined on the host: the loop *)
(* runs through where the platform maps the memory, or the process dies,   *)
(* with all its threads and its streams.                                   *)
FallbackDies(r) ==
    /\ hpc[r] = "host" /\ dtype = "fp32" /\ memory = "device"
    /\ hpc' = [s \in Ranks |-> "died"]
    /\ stream' = [s \in Ranks |-> <<>>]
    /\ UNCHANGED <<step, temps, faults, gemmVars>>

(* The device executes a GEMM. *)
GemmRuns(s) ==
    /\ stream[s] # <<>> /\ Head(stream[s]).op = "gemm"
    /\ product' = [product EXCEPT ![Head(stream[s]).by] = "done"]
    /\ stream' = [stream EXCEPT ![s] = Tail(@)]
    /\ UNCHANGED <<step, hpc, temps, faults, backend, dtype, memory, vendor, descs>>

(* The singleton is destroyed when the process ends; the destructor frees  *)
(* whatever workspace it has.                                              *)
Destruct ==
    /\ vendor.alive /\ \A r \in Ranks : Ended(r)
    /\ vendor' = [vendor EXCEPT !.alive = FALSE, !.ws = IF @ = "none" THEN @ ELSE "freed"]
    /\ UNCHANGED <<hostVars, backend, dtype, memory, descs, product>>

GemmNext ==
    \/ set_workspace
    \/ Destruct
    \/ \E r \in Ranks :
         \/ Construct(r) \/ EnterGemm(r) \/ Create(r) \/ Matmul(r) \/ Release(r)
         \/ SetStream(r) \/ RocGemm(r) \/ Fallback(r) \/ FallbackDies(r)
         \/ GemmRuns(r)
         \/ (DeviceFree(r) \/ Synchronize(r)) /\ UNCHANGED gemmVars

=============================================================================
