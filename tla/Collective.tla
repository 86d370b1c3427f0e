------------------------------ MODULE Collective ------------------------------
(***************************************************************************)
(* The collective operations of src/collective.cpp.  Collectives complete  *)
(* when every rank has put them on its stream, sends when the peer         *)
(* receives: that is the library's part (NCCL, RCCL or oneCCL), external.  *)
(*                                                                         *)
(* library is "nccl" (asynchronous calls; RCCL is the same code), "ccl"    *)
(* (calls that wait) or "stub" (no library linked).                        *)
(***************************************************************************)
EXTENDS Host

(* Barriers are collective: the ranks' programs have them at the same      *)
(* places.                                                                 *)
ASSUME BarriersMatch ==
    \A r, s \in Ranks : \A b \in DOMAIN Program[r] :
        Program[r][b] = "barrier" => b \in DOMAIN Program[s] /\ Program[s][b] = "barrier"

VARIABLES
    library,
    comm,     \* comm[r]: the CommGroup, "none" or "live" (handle, initialized)
    orphans   \* orphans[r]: communicators created but reachable from nowhere

commVars == <<library, comm, orphans>>

CommInit ==
    /\ library \in {"nccl", "ccl", "stub"}
    /\ comm = [r \in Ranks |-> "none"]
    /\ orphans = [r \in Ranks |-> 0]

Ops == {"allreduce", "broadcast", "allgather", "reduce_scatter", "send", "recv"}

(* Mutant: the ranks are initialised one after the other. *)
InitSequential(r) ==
    /\ Calls(r, "init")
    /\ IF library = "stub"
       THEN Return(r) /\ comm' = [comm EXCEPT ![r] = "live"] /\ UNCHANGED orphans
       ELSE /\ \A s \in Ranks : hpc[s] # "init"
            /\ Goto(r, "init")
            /\ orphans' = [orphans EXCEPT ![r] = IF library = "nccl" THEN 1 ELSE 0]
            /\ UNCHANGED <<step, comm>>
    /\ UNCHANGED <<stream, temps, faults, library>>

(* comm_init_rank: the stub only fills in the group; otherwise the library *)
(* is entered, which returns when all ranks have come.  NCCL's ranks come  *)
(* to the unique id; oneCCL's each make a key-value store at an empty      *)
(* address, so that it is up to the library whether they meet.             *)
comm_init_rank(r) ==
    /\ Calls(r, "init")
    /\ IF library = "stub"
       THEN Return(r) /\ comm' = [comm EXCEPT ![r] = "live"] /\ UNCHANGED orphans
       ELSE /\ Goto(r, "init")
            /\ orphans' = [orphans EXCEPT ![r] = IF library = "nccl" THEN 1 ELSE 0]
            /\ UNCHANGED <<step, comm>>
    /\ UNCHANGED <<stream, temps, faults, library>>

InitMeets ==
    /\ \A r \in Ranks : hpc[r] = "init"
    /\ hpc' = [r \in Ranks |-> "next"]
    /\ step' = [r \in Ranks |-> step[r] + 1]
    /\ comm' = [r \in Ranks |-> "live"]
    /\ orphans' = [r \in Ranks |-> 0]
    /\ UNCHANGED <<stream, temps, faults, library>>

(* The check throws past the assignment to g.handle, which loses the new   *)
(* nccl_comm_t.  oneCCL may always throw: there is nobody at the empty     *)
(* address.                                                                *)
InitFails(r) ==
    /\ hpc[r] = "init"
    /\ \/ Throws(r)
       \/ library = "ccl" /\ Goto(r, "threw") /\ UNCHANGED faults
    /\ UNCHANGED <<step, stream, temps, commVars>>

(* allreduce and the others.  None looks at g.initialized. *)
nccl_collective(r, c) ==
    /\ library = "nccl"
    /\ \/ Enqueue(r, Work(c, r)) /\ Return(r) /\ UNCHANGED faults
       \/ Throws(r) /\ UNCHANGED <<step, stream>>

ccl_collective(r, c) ==
    /\ library = "ccl"
    /\ \/ Enqueue(r, Work(c, r)) /\ Goto(r, "wait") /\ UNCHANGED <<step, faults>>
       \/ Throws(r) /\ UNCHANGED <<step, stream>>

stub_collective(r) ==
    /\ library = "stub"
    /\ IF Cardinality(Ranks) > 1 THEN Goto(r, "threw") /\ UNCHANGED step ELSE Return(r)
    /\ UNCHANGED <<stream, faults>>

collective(r) ==
    /\ \E c \in Ops : /\ Calls(r, c)
                      /\ nccl_collective(r, c) \/ ccl_collective(r, c) \/ stub_collective(r)
    /\ UNCHANGED <<temps, commVars>>

(* NCCL: allocate an element, all-reduce it, free it. *)
barrier(r) ==
    /\ Calls(r, "barrier")
    /\ \/ /\ library # "stub"
          /\ Enqueue(r, Work("barrier", r))
          /\ Goto(r, IF library = "nccl" THEN "free" ELSE "wait")
          /\ temps' = [temps EXCEPT ![r] = IF library = "nccl" THEN 1 ELSE 0]
          /\ UNCHANGED <<step, faults>>
       \/ /\ library # "stub"
          /\ Throws(r)
          /\ temps' = [temps EXCEPT ![r] = IF library = "nccl" THEN 1 ELSE 0]
          /\ UNCHANGED <<step, stream>>
       \/ library = "stub" /\ Return(r) /\ UNCHANGED <<stream, temps, faults>>
    /\ UNCHANGED commVars

comm_destroy(r) ==
    /\ Calls(r, "destroy")
    /\ IF comm[r] = "none" THEN Return(r) /\ UNCHANGED <<comm, faults>>
       ELSE \/ Return(r) /\ comm' = [comm EXCEPT ![r] = "none"] /\ UNCHANGED faults
            \/ library = "nccl" /\ Throws(r) /\ UNCHANGED <<step, comm>>
    /\ UNCHANGED <<stream, temps, library, orphans>>

(* The work at the heads of the streams runs: a collective on all ranks at *)
(* once, a send with the receive of the other rank.                        *)
CollectiveRuns ==
    /\ \A r \in Ranks : stream[r] # <<>>
    /\ \E c \in (Ops \ {"send", "recv"}) \cup {"barrier"} :
         \A r \in Ranks : Head(stream[r]).op = c
    /\ stream' = [r \in Ranks |-> Tail(stream[r])]
    /\ UNCHANGED <<step, hpc, temps, faults, commVars>>

TransferRuns ==
    \E r, s \in Ranks :
      /\ stream[r] # <<>> /\ stream[s] # <<>>
      /\ Head(stream[r]).op = "send" /\ Head(stream[s]).op = "recv"
      /\ stream' = [stream EXCEPT ![r] = Tail(@), ![s] = Tail(@)]
      /\ UNCHANGED <<step, hpc, temps, faults, commVars>>

CommNext ==
    \/ InitMeets \/ CollectiveRuns \/ TransferRuns
    \/ \E r \in Ranks : \/ comm_init_rank(r) \/ InitFails(r) \/ collective(r)
                        \/ barrier(r) \/ comm_destroy(r)

-----------------------------------------------------------------------------
(* Properties *)

(* No rank comes out of barrier before every rank has gone into it, though *)
(* the NCCL version only puts an all-reduce on the stream: it is the free  *)
(* of its buffer that waits.  (Without a library barrier does nothing.)    *)
BarrierHolds ==
    library # "stub" =>
        \A r, s \in Ranks : \A b \in DOMAIN Program[r] :
            Program[r][b] = "barrier" /\ step[r] >= b
                => step[s] >= b \/ (step[s] = b - 1 /\ hpc[s] # "next")

=============================================================================
