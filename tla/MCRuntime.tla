------------------------------ MODULE MCRuntime ------------------------------
(***************************************************************************)
(* A tensor-parallel layer: every rank multiplies its share with the       *)
(* process's VendorGemm and reduces the partial products on its stream.    *)
(***************************************************************************)
EXTENDS VendorGemm, Collective

CONSTANTS r1, r2

vars == <<hostVars, gemmVars, commVars>>

Layer(transfer) ==
    <<"init", "gemm", "allreduce", transfer, "barrier", "sync", "destroy">>
Programs == [r \in {r1, r2} |-> Layer(IF r = r1 THEN "send" ELSE "recv")]

(* What makes a program a layer's: a communicator is destroyed before      *)
(* another is made, and there is one product, in front of all reductions.  *)
ASSUME LayerAssumption ==
    \A r \in Ranks : \A i \in DOMAIN Program[r] :
        /\ Program[r][i] = "init" =>
               \E j \in DOMAIN Program[r] :
                   /\ i < j /\ Program[r][j] = "destroy"
                   /\ \A m \in i + 1 .. j : Program[r][m] # "init"
        /\ Program[r][i] = "gemm" => \A g \in 1 .. i - 1 : Program[r][g] # "gemm"
        /\ Program[r][i] = "allreduce" => \E g \in 1 .. i - 1 : Program[r][g] = "gemm"

AllSetups == {"cublas", "rocblas", "fallback"} \X {"fp32", "fp8"}
(* The fallback skips every type but FP32. *)
Unsupported == <<"fallback", "fp8">>
Computed == AllSetups \ {Unsupported}

(* A build with a library is one for a device; one with oneCCL is a SYCL   *)
(* build, which has no vendor GEMM.                                        *)
Init ==
    /\ HostInit /\ GemmInit /\ CommInit
    /\ library = "ccl" => backend = "fallback"
    /\ memory = "host" => library = "stub"

Next ==
    \/ GemmNext /\ UNCHANGED commVars
    \/ CommNext /\ UNCHANGED gemmVars

(* Host threads and devices run; a call that can go on is not obliged to   *)
(* fail.                                                                   *)
Spec == Init /\ [][Next]_vars
             /\ WF_vars(GemmNext /\ UNCHANGED <<commVars, faults>>)
             /\ WF_vars(CommNext /\ UNCHANGED <<gemmVars, faults>>)

-----------------------------------------------------------------------------
(* Properties *)

(* What a rank reduces is its own product, computed: the GEMM is in front  *)
(* of the all-reduce on the rank's own stream, although the rocBLAS handle *)
(* is bound to the stream of whoever called last.  Not so if callers race  *)
(* in gemm, or for a type that the fallback skips.                         *)
ReducesOwnProduct ==
    [][(CollectiveRuns /\ \A r \in Ranks : Head(stream[r]).op = "allreduce")
          => \A r \in Ranks : product[r] = "done"]_vars

(* A rank whose calls all returned has nothing left: no descriptor, no     *)
(* temporary buffer, no communicator.  Only an exception leaks them (the   *)
(* checks throw past the code that releases).                              *)
LeaksOnlyByThrow ==
    \A r \in Ranks :
        /\ Ended(r) /\ hpc[r] # "threw" =>
               descs[r] = 0 /\ temps[r] = 0 /\ comm[r] = "none" /\ orphans[r] = 0
        /\ hpc[r] = "next" => descs[r] = 0 /\ temps[r] = 0

(* Every rank gets through its program (initialisation, collectives,       *)
(* transfers, barrier), unless one of them threw: then the others wait for *)
(* it for ever, as no call has a timeout.  Nor if the process died.        *)
RanksFinish ==
    <>((\A r \in Ranks : Ended(r)) \/ \E r \in Ranks : hpc[r] \in {"threw", "died"})

=============================================================================
