---------------------------- MODULE RuntimeProofs ----------------------------
(***************************************************************************)
(* Proofs about the host threads of a tensor-parallel layer (MCRuntime:    *)
(* VendorGemm and Collective on Host), for any number of ranks and any     *)
(* programs that satisfy BarriersMatch and LayerAssumption.                *)
(***************************************************************************)
EXTENDS MCRuntime, TLAPS

-----------------------------------------------------------------------------
(* Tensor-parallel layer: types and places *)

(* What can be on a stream. *)
Kinds == Ops \cup {"gemm", "barrier"}
Works == [op : Kinds, by : Ranks, at : Nat]

(* Where a thread is: inside of gemm, or elsewhere. *)
Places == InGemm \cup {"next", "threw", "died", "init", "free", "wait"}

(* The variables of the host have their types. *)
HostType ==
    /\ step \in [Ranks -> Nat] /\ hpc \in [Ranks -> Places]
    /\ stream \in [Ranks -> Seq(Works)]
    /\ temps \in [Ranks -> Nat] /\ descs \in [Ranks -> Nat]
    /\ product \in [Ranks -> {"none", "pending", "done"}]
    /\ comm \in [Ranks -> {"none", "live"}] /\ orphans \in [Ranks -> Nat]

(* The call that rank r is at. *)
Current(r) == Program[r][step[r] + 1]

(* A thread's place agrees with its program. *)
Placed(r) ==
    /\ step[r] <= Len(Program[r])
    /\ hpc[r] \in {"next", "threw", "died"} \/ step[r] < Len(Program[r])
    /\ hpc[r] \in InGemm => Current(r) = "gemm"
    /\ hpc[r] = "init" => Current(r) = "init"
    /\ hpc[r] = "free" => Current(r) \in {"gemm", "barrier"}
    /\ hpc[r] = "wait" => Current(r) \in Ops \cup {"barrier"}

(* What a thread has allocated at each place; none where it is between     *)
(* calls.                                                                  *)
Tidy(r) ==
    /\ hpc[r] \in InGemm /\ dtype # "fp8" => temps[r] = 0
    /\ hpc[r] \in {"next", "init", "wait"} => temps[r] = 0
    /\ hpc[r] \notin {"create", "launch", "release", "threw", "died"} => descs[r] = 0

(* A live communicator has its destroy ahead of it. *)
Owned(r) ==
    /\ comm[r] # "none" => \E j \in DOMAIN Program[r] : step[r] < j /\ Program[r][j] = "destroy"
    /\ orphans[r] # 0 => hpc[r] \in {"init", "threw", "died"}

(* The inductive invariant for leaks. *)
RunInv == HostType /\ \A r \in Ranks : Placed(r) /\ Tidy(r) /\ Owned(r)

(* The process has died. *)
Dead == \A r \in Ranks : hpc[r] = "died" /\ stream[r] = <<>>

-----------------------------------------------------------------------------
(* Tensor-parallel layer: barriers *)

(* How many calls rank r has finished at place l after n calls, counting a *)
(* barrier whose all-reduce is on the stream.                              *)
Entered(r, l, n) ==
    IF l \in {"free", "wait"} /\ Program[r][n + 1] = "barrier" THEN n + 1 ELSE n

(* Call b of rank r's program is a barrier. *)
IsBarrier(r, b) == b \in DOMAIN Program[r] /\ Program[r][b] = "barrier"

(* Of rank r, with work w on its stream, n calls finished and m entered,   *)
(* the barriers up to call e, and no others, have run: those after it that *)
(* the rank has entered are on the stream, in order, and none is finished. *)
BarriersRun(r, w, n, m, e) ==
    /\ e <= m
    /\ \A b \in Nat : IsBarrier(r, b) /\ b <= n => b <= e
    /\ \A b \in Nat : IsBarrier(r, b) /\ e < b /\ b <= m =>
          \E i \in DOMAIN w : w[i].op = "barrier" /\ w[i].at + 1 = b
    /\ \A i \in DOMAIN w : w[i].op = "barrier" =>
          /\ e < w[i].at + 1 /\ w[i].at + 1 <= m /\ IsBarrier(r, w[i].at + 1)
          /\ \A j \in DOMAIN w : i < j /\ w[j].op = "barrier" => w[i].at < w[j].at

(* The ranks have run the same barriers. *)
BarrierInv ==
    \/ library = "stub"
    \/ Dead /\ BarrierHolds
    \/ \E e \in Nat : \A r \in Ranks :
          BarriersRun(r, stream[r], step[r], Entered(r, hpc[r], step[r]), e)

-----------------------------------------------------------------------------
(* Tensor-parallel layer: products *)

(* At place l, after n calls, gemm has returned or is past its launch. *)
Issued(r, l, n) ==
    \/ \E g \in DOMAIN Program[r] : Program[r][g] = "gemm" /\ g <= n
    \/ l = "release"
    \/ l = "free" /\ Program[r][n + 1] = "gemm"
(* Before and after a step. *)
IssuedNow(r) == Issued(r, hpc[r], step[r])
IssuedNext(r) == Issued(r, hpc'[r], step'[r])

(* With work w on the stream and p the state of the product, the product   *)
(* is computed or will be before place i.                                  *)
Before(w, p, i) == p = "done" \/ \E j \in DOMAIN w : j < i /\ w[j].op = "gemm"

(* Only rank r's own products are on its stream, and they are in front of  *)
(* its reductions.                                                         *)
Ordered(r, w, p, l, n) ==
    /\ Issued(r, l, n) => Before(w, p, Len(w) + 1)
    /\ \A i \in DOMAIN w :
          /\ w[i].op = "gemm" => w[i].by = r
          /\ w[i].op = "allreduce" => Issued(r, l, n) /\ Before(w, p, i)

(* The GEMM instance has its type. *)
VendorType ==
    vendor \in [alive : BOOLEAN, ws : {"none", "own", "caller", "freed"},
                bound : Ranks \cup {Nobody}]

(* Callers take turns: no two are inside of gemm. *)
Turns == \A r, s \in Ranks : hpc[r] \in InGemm /\ hpc[s] \in InGemm => r = s

(* The handle is bound to the stream of the thread that is about to use    *)
(* it, and the host computes only in the fallback.                         *)
Bound(r) ==
    /\ hpc[r] = "rocgemm" => vendor.bound = r
    /\ hpc[r] = "host" => backend = "fallback"

(* The inductive invariant for what is reduced, if callers take turns and  *)
(* the fallback is not asked for what it skips.                            *)
ProductInv ==
    /\ VendorType /\ dtype \in {"fp32", "fp8"} /\ backend \in {"cublas", "rocblas", "fallback"}
    /\ backend = "fallback" => dtype = "fp32"
    /\ Turns
    /\ \/ Dead
       \/ \A r \in Ranks : Bound(r) /\ Ordered(r, stream[r], product[r], hpc[r], step[r])

(* Streams stay streams. *)
LEMMA StreamTypes ==
    ASSUME HostType, [Next]_vars
    PROVE  stream' \in [Ranks -> Seq(Works)]
<1> USE DEF HostType
<1>1. ASSUME NEW s, NEW r \in Ranks, NEW c \in Kinds, Enqueue(s, Work(c, r))
      PROVE  stream' \in [Ranks -> Seq(Works)]
  <2>1. Work(c, r) \in Works
    BY <1>1 DEF Work, Works
  <2>2. \A q \in Ranks : Append(stream[q], Work(c, r)) \in Seq(Works)
    <3> HIDE DEF HostType
    <3>1. PICK w \in Works : w = Work(c, r)
      BY <2>1
    <3>2. \A q \in Ranks : stream[q] \in Seq(Works)
      BY DEF HostType
    <3>3. \A q \in Ranks : Append(stream[q], w) \in Seq(Works)
      BY <3>2
    <3> QED
      BY <3>1, <3>3
  <2> QED
    BY <1>1, <2>2 DEF Enqueue
<1>2. CASE UNCHANGED stream
  BY <1>2
<1>3. CASE CollectiveRuns
  BY <1>3 DEF CollectiveRuns
<1>4. CASE TransferRuns
  <2>1. PICK r, s \in Ranks : /\ stream[r] # <<>> /\ stream[s] # <<>>
                              /\ stream' = [stream EXCEPT ![r] = Tail(@), ![s] = Tail(@)]
                              /\ Head(stream[r]).op = "send" /\ Head(stream[s]).op = "recv"
    BY <1>4 DEF TransferRuns
  <2>2. r # s
    BY <2>1
  <2>3. Tail(stream[r]) \in Seq(Works) /\ Tail(stream[s]) \in Seq(Works)
    BY <2>1
  <2> QED
    BY <2>1, <2>2, <2>3
<1>5. ASSUME NEW s \in Ranks, GemmRuns(s) PROVE stream' \in [Ranks -> Seq(Works)]
  BY <1>5 DEF GemmRuns
<1>6. CASE GemmNext
  <2>1. CASE set_workspace \/ Destruct
    BY <1>2, <2>1 DEF set_workspace, Destruct, hostVars
  <2>2. ASSUME NEW r \in Ranks,
               Construct(r) \/ EnterGemm(r) \/ Create(r) \/ Release(r) \/ SetStream(r) \/ Fallback(r)
                 \/ DeviceFree(r) \/ Synchronize(r)
        PROVE  UNCHANGED stream
    BY <2>2 DEF gemmVars, Construct, EnterGemm, Create, Release, SetStream, Fallback, DeviceFree,
       Synchronize, hostVars
  <2>3. ASSUME NEW r \in Ranks, Matmul(r)
        PROVE  UNCHANGED stream \/ Enqueue(r, Work("gemm", r))
    BY <2>3 DEF Matmul
  <2>4. ASSUME NEW r \in Ranks, RocGemm(r)
        PROVE  UNCHANGED stream \/ Enqueue(vendor.bound, Work("gemm", r))
    BY <2>4 DEF RocGemm
  <2>5. "gemm" \in Kinds
    BY DEF Kinds
  <2>6. ASSUME NEW r \in Ranks, FallbackDies(r) PROVE stream' \in [Ranks -> Seq(Works)]
    BY <2>6 DEF FallbackDies
  <2> QED
    BY <1>1, <1>2, <1>5, <1>6, <2>1, <2>2, <2>3, <2>4, <2>5, <2>6 DEF GemmNext
<1>7. CASE CommNext
  <2>1. CASE InitMeets
    BY <1>2, <2>1 DEF InitMeets
  <2>2. ASSUME NEW r \in Ranks, comm_init_rank(r) \/ InitFails(r) \/ comm_destroy(r)
        PROVE  UNCHANGED stream
    BY <2>2 DEF comm_init_rank, InitFails, comm_destroy
  <2>3. ASSUME NEW r \in Ranks, collective(r)
        PROVE  UNCHANGED stream \/ \E c \in Kinds : Enqueue(r, Work(c, r))
    <3>1. Ops \subseteq Kinds
      BY DEF Kinds
    <3> QED
      BY <2>3, <3>1 DEF collective, nccl_collective, ccl_collective, stub_collective
  <2>4. ASSUME NEW r \in Ranks, barrier(r)
        PROVE  UNCHANGED stream \/ Enqueue(r, Work("barrier", r))
    BY <2>4 DEF barrier
  <2>5. "barrier" \in Kinds
    BY DEF Kinds
  <2> QED
    BY <1>1, <1>2, <1>3, <1>4, <1>7, <2>1, <2>2, <2>3, <2>4, <2>5 DEF CommNext
<1> QED
  BY <1>2, <1>6, <1>7 DEF Next, vars, hostVars

(* Rank r's thread goes to place l, having finished n calls. *)
Moved(r, l, n) ==
    /\ hpc' \in [Ranks -> Places] /\ step' \in [Ranks -> Nat]
    /\ hpc'[r] = l /\ step'[r] = n
    /\ \A q \in Ranks \ {r} : hpc'[q] = hpc[q] /\ step'[q] = step[q]

(* Only rank r allocates or frees. *)
Kept(r) ==
    /\ temps' \in [Ranks -> Nat] /\ descs' \in [Ranks -> Nat]
    /\ product' \in [Ranks -> {"none", "pending", "done"}]
    /\ comm' \in [Ranks -> {"none", "live"}] /\ orphans' \in [Ranks -> Nat]
    /\ dtype' = dtype
    /\ \A q \in Ranks \ {r} :
          /\ temps'[q] = temps[q] /\ descs'[q] = descs[q]
          /\ comm'[q] = comm[q] /\ orphans'[q] = orphans[q]

(* Goto and Return move a thread. *)
LEMMA ThreadMoves ==
    ASSUME NEW r \in Ranks, HostType
    PROVE  /\ \A l \in Places : Goto(r, l) /\ UNCHANGED step => Moved(r, l, step[r])
           /\ Return(r) => Moved(r, "next", step[r] + 1)
<1>1. "next" \in Places /\ step \in [Ranks -> Nat] /\ hpc \in [Ranks -> Places]
  BY DEF HostType, Places
<1>2. ASSUME NEW l \in Places, Goto(r, l)
      PROVE  /\ hpc' \in [Ranks -> Places] /\ hpc'[r] = l
             /\ \A q \in Ranks \ {r} : hpc'[q] = hpc[q]
  BY <1>1, <1>2 DEF Goto
<1>3. ASSUME NEW l \in Places, Goto(r, l), UNCHANGED step PROVE Moved(r, l, step[r])
  BY <1>1, <1>2, <1>3 DEF Moved
<1>4. ASSUME Return(r) PROVE Moved(r, "next", step[r] + 1)
  <2>1. step' \in [Ranks -> Nat] /\ step'[r] = step[r] + 1 /\ \A q \in Ranks \ {r} : step'[q] = step[q]
    BY <1>1, <1>4 DEF Return
  <2>2. Goto(r, "next")
    BY <1>4 DEF Return
  <2> QED
    BY <1>1, <1>2, <2>1, <2>2 DEF Moved
<1> QED
  BY <1>3, <1>4

(* The other ranks' share of RunInv. *)
LEMMA Others ==
    ASSUME NEW r \in Ranks, RunInv, Kept(r), NEW l, NEW n, Moved(r, l, n)
    PROVE  \A q \in Ranks \ {r} : Placed(q)' /\ Tidy(q)' /\ Owned(q)'
<1> SUFFICES ASSUME NEW q \in Ranks \ {r} PROVE Placed(q)' /\ Tidy(q)' /\ Owned(q)'
  OBVIOUS
<1>1. /\ hpc'[q] = hpc[q] /\ step'[q] = step[q] /\ temps'[q] = temps[q] /\ descs'[q] = descs[q]
      /\ comm'[q] = comm[q] /\ orphans'[q] = orphans[q] /\ dtype' = dtype
  BY DEF Moved, Kept
<1>2. Placed(q)'
  BY <1>1 DEF RunInv, Placed, Current
<1>3. Tidy(q)'
  BY <1>1 DEF RunInv, Tidy
<1>4. Owned(q)'
  BY <1>1 DEF RunInv, Owned
<1> QED
  BY <1>2, <1>3, <1>4

(* A step of rank r inside of a call keeps RunInv. *)
LEMMA Stays ==
    ASSUME NEW r \in Ranks, RunInv, [Next]_vars, Kept(r), NEW l, Moved(r, l, step[r]),
           l # "next", l = "threw" \/ step[r] < Len(Program[r]),
           /\ l \in InGemm => Current(r) = "gemm"
           /\ l = "init" => Current(r) = "init"
           /\ l = "free" => Current(r) \in {"gemm", "barrier"}
           /\ l = "wait" => Current(r) \in Ops \cup {"barrier"},
           /\ l \in InGemm /\ dtype # "fp8" => temps'[r] = 0
           /\ l \in {"init", "wait"} => temps'[r] = 0
           /\ l \notin {"create", "launch", "release", "threw"} => descs'[r] = 0,
           comm'[r] = comm[r], orphans'[r] # 0 => l \in {"init", "threw"}
    PROVE  RunInv'
<1>1. HostType'
  BY StreamTypes DEF RunInv, HostType, Kept, Moved
<1>2. step'[r] = step[r] /\ hpc'[r] = l /\ dtype' = dtype
  BY DEF Moved, Kept
<1>3. Placed(r)'
  BY <1>2 DEF RunInv, Placed, Current
<1>4. Tidy(r)'
  BY <1>2 DEF Tidy
<1>5. Owned(r)'
  BY <1>2 DEF RunInv, Owned
<1> QED
  BY <1>1, <1>3, <1>4, <1>5, Others DEF RunInv

(* The return of a call keeps RunInv. *)
LEMMA Returns ==
    ASSUME NEW r \in Ranks, RunInv, [Next]_vars, Kept(r), Moved(r, "next", step[r] + 1),
           step[r] < Len(Program[r]), temps'[r] = 0, descs'[r] = 0, orphans'[r] = 0,
           \/ comm'[r] = "none"
           \/ comm'[r] = comm[r] /\ Current(r) # "destroy"
           \/ Current(r) = "init"
    PROVE  RunInv'
<1>1. HostType'
  BY StreamTypes DEF RunInv, HostType, Kept, Moved
<1>2. step'[r] = step[r] + 1 /\ hpc'[r] = "next" /\ dtype' = dtype /\ step[r] \in Nat
  BY DEF Moved, Kept, RunInv, HostType
<1>3. Placed(r)'
  <2>1. Len(Program[r]) \in Nat
    BY HostAssumption
  <2> QED
    BY <1>2, <2>1 DEF Placed, InGemm
<1>4. Tidy(r)'
  BY <1>2 DEF Tidy, InGemm
<1>5. Owned(r)'
  <2>1. CASE comm'[r] = "none"
    BY <2>1 DEF Owned
  <2>2. CASE comm'[r] = comm[r] /\ Current(r) # "destroy" /\ comm[r] # "none"
    <3>1. PICK j \in DOMAIN Program[r] : step[r] < j /\ Program[r][j] = "destroy"
      BY <2>2 DEF RunInv, Owned
    <3>2. j # step[r] + 1 /\ j \in Nat
      BY <2>2, <3>1, HostAssumption DEF Current
    <3>3. step[r] + 1 < j
      BY <1>2, <3>1, <3>2
    <3> QED
      BY <1>2, <3>1, <3>3 DEF Owned
  <2>3. CASE Current(r) = "init"
    <3>1. step[r] + 1 \in DOMAIN Program[r]
      BY <1>2, HostAssumption
    <3>2. \E j \in DOMAIN Program[r] : step[r] + 1 < j /\ Program[r][j] = "destroy"
      BY <2>3, <3>1, LayerAssumption DEF Current
    <3> QED
      BY <1>2, <3>2 DEF Owned
  <2> QED
    BY <2>1, <2>2, <2>3
<1> QED
  BY <1>1, <1>3, <1>4, <1>5, Others DEF RunInv

(* Threads stay where their programs allow, and release what they hold. *)
LEMMA RunInvInductive == RunInv /\ [Next]_vars => RunInv'
<1> SUFFICES ASSUME RunInv, [Next]_vars
             PROVE  RunInv'
  OBVIOUS
<1> USE DEF Places, InGemm
<1>0. HostType
  BY DEF RunInv
<1>1. ASSUME NEW r \in Ranks, EnterGemm(r), UNCHANGED commVars
      PROVE  RunInv'
  <2>1. Kept(r)
    BY <1>0, <1>1 DEF HostType, Kept, EnterGemm, gemmVars, commVars
  <2>2. step[r] < Len(Program[r]) /\ Current(r) = "gemm" /\ descs[r] = 0 /\ orphans[r] = 0
    BY <1>1 DEF RunInv, Placed, Tidy, Owned, Current, EnterGemm, Calls
  <2>3. PICK l \in {"create", "set", "host"} : Goto(r, l) /\ UNCHANGED step
    BY <1>1 DEF EnterGemm
  <2>4. Moved(r, l, step[r])
    BY <1>0, <2>3, ThreadMoves
  <2>5. /\ dtype # "fp8" => temps'[r] = 0
        /\ descs'[r] = 0 /\ comm'[r] = comm[r] /\ orphans'[r] = 0
    BY <1>0, <1>1, <2>2 DEF HostType, EnterGemm, gemmVars, commVars
  <2> QED
    BY <2>1, <2>2, <2>4, <2>5, Stays
<1>2. ASSUME NEW r \in Ranks, Create(r), UNCHANGED commVars
      PROVE  RunInv'
  <2>1. Kept(r)
    <3>1. UNCHANGED <<temps, dtype, product, comm, orphans>>
      BY <1>2 DEF Create, commVars
    <3>2. UNCHANGED descs \/ descs' = [descs EXCEPT ![r] = @ + 1]
      BY <1>2 DEF Create
    <3>3. descs' \in [Ranks -> Nat] /\ \A q \in Ranks \ {r} : descs'[q] = descs[q]
      <4>1. descs \in [Ranks -> Nat]
        BY <1>0 DEF HostType
      <4> QED
        BY <3>2, <4>1
    <3> QED
      BY <1>0, <3>1, <3>3 DEF HostType, Kept
  <2>2. step[r] < Len(Program[r]) /\ Current(r) = "gemm" /\ orphans[r] = 0 /\ (dtype # "fp8" => temps[r] = 0)
    BY <1>2 DEF RunInv, Placed, Tidy, Owned, Current, Create
  <2>3. PICK l \in {"create", "launch", "threw"} : Goto(r, l) /\ UNCHANGED step
    BY <1>2 DEF Create, Throws
  <2>4. Moved(r, l, step[r])
    BY <1>0, <2>3, ThreadMoves
  <2>5. temps'[r] = temps[r] /\ comm'[r] = comm[r] /\ orphans'[r] = 0
    BY <1>2, <2>2 DEF Create, commVars
  <2> QED
    BY <2>1, <2>2, <2>4, <2>5, Stays
<1>3. ASSUME NEW r \in Ranks, Matmul(r), UNCHANGED commVars
      PROVE  RunInv'
  <2>1. Kept(r)
    BY <1>0, <1>3 DEF HostType, Kept, Matmul, Throws, commVars
  <2>2. step[r] < Len(Program[r]) /\ Current(r) = "gemm" /\ orphans[r] = 0 /\ (dtype # "fp8" => temps[r] = 0)
    BY <1>3 DEF RunInv, Placed, Tidy, Owned, Current, Matmul
  <2>3. PICK l \in {"release", "threw"} : Goto(r, l) /\ UNCHANGED step
    BY <1>3 DEF Matmul, Throws
  <2>4. Moved(r, l, step[r])
    BY <1>0, <2>3, ThreadMoves
  <2>5. temps'[r] = temps[r] /\ comm'[r] = comm[r] /\ orphans'[r] = 0
    BY <1>3, <2>2 DEF Matmul, commVars
  <2> QED
    BY <2>1, <2>2, <2>4, <2>5, Stays
<1>4. ASSUME NEW r \in Ranks, Release(r), UNCHANGED commVars
      PROVE  RunInv'
  <2>1. Kept(r)
    BY <1>0, <1>4 DEF HostType, Kept, Release, commVars
  <2>2. step[r] < Len(Program[r]) /\ Current(r) = "gemm" /\ orphans[r] = 0 /\ (dtype # "fp8" => temps[r] = 0)
    BY <1>4 DEF RunInv, Placed, Tidy, Owned, Current, Release
  <2>3. temps'[r] = temps[r] /\ descs'[r] = 0 /\ comm'[r] = comm[r] /\ orphans'[r] = 0 /\ LeaveGemm(r)
    BY <1>0, <1>4, <2>2 DEF HostType, Release, commVars
  <2>4. CASE dtype = "fp8"
    <3>1. Goto(r, "free") /\ UNCHANGED step
      BY <2>3, <2>4 DEF LeaveGemm
    <3>2. Moved(r, "free", step[r])
      BY <1>0, <3>1, ThreadMoves
    <3> QED
      BY <2>1, <2>2, <2>3, <3>2, Stays
  <2>5. CASE dtype # "fp8"
    <3>1. Moved(r, "next", step[r] + 1)
      BY <1>0, <2>3, <2>5, ThreadMoves DEF LeaveGemm
    <3> QED
      BY <2>1, <2>2, <2>3, <2>5, <3>1, Returns
  <2> QED
    BY <2>4, <2>5
<1>5. ASSUME NEW r \in Ranks, SetStream(r), UNCHANGED commVars
      PROVE  RunInv'
  <2>1. Kept(r)
    BY <1>0, <1>5 DEF HostType, Kept, SetStream, Throws, commVars
  <2>2. /\ step[r] < Len(Program[r]) /\ Current(r) = "gemm" /\ descs[r] = 0 /\ orphans[r] = 0
        /\ dtype # "fp8" => temps[r] = 0
    BY <1>5 DEF RunInv, Placed, Tidy, Owned, Current, SetStream
  <2>3. PICK l \in {"rocgemm", "threw"} : Goto(r, l) /\ UNCHANGED step
    BY <1>5 DEF SetStream, Throws
  <2>4. Moved(r, l, step[r])
    BY <1>0, <2>3, ThreadMoves
  <2>5. temps'[r] = temps[r] /\ descs'[r] = 0 /\ comm'[r] = comm[r] /\ orphans'[r] = 0
    BY <1>5, <2>2 DEF SetStream, commVars
  <2> QED
    BY <2>1, <2>2, <2>4, <2>5, Stays
<1>6. ASSUME NEW r \in Ranks, RocGemm(r), UNCHANGED commVars
      PROVE  RunInv'
  <2>1. Kept(r)
    BY <1>0, <1>6 DEF HostType, Kept, RocGemm, Throws, commVars
  <2>2. /\ step[r] < Len(Program[r]) /\ Current(r) = "gemm" /\ descs[r] = 0 /\ orphans[r] = 0
        /\ dtype # "fp8" => temps[r] = 0
    BY <1>6 DEF RunInv, Placed, Tidy, Owned, Current, RocGemm
  <2>3. temps'[r] = temps[r] /\ descs'[r] = 0 /\ comm'[r] = comm[r] /\ orphans'[r] = 0
    BY <1>6, <2>2 DEF RocGemm, commVars
  <2>4. CASE dtype = "fp32" /\ LeaveGemm(r)
    <3>1. Moved(r, "next", step[r] + 1)
      BY <1>0, <2>4, ThreadMoves DEF LeaveGemm
    <3> QED
      BY <2>1, <2>2, <2>3, <2>4, <3>1, Returns
  <2>5. CASE Goto(r, "threw") /\ UNCHANGED step
    <3>1. Moved(r, "threw", step[r])
      BY <1>0, <2>5, ThreadMoves
    <3> QED
      BY <2>1, <2>2, <2>3, <3>1, Stays
  <2> QED
    BY <1>6, <2>4, <2>5 DEF RocGemm, Throws
<1>7. ASSUME NEW r \in Ranks, Fallback(r), UNCHANGED commVars
      PROVE  RunInv'
  <2>1. Kept(r)
    BY <1>0, <1>7 DEF HostType, Kept, Fallback, commVars
  <2>2. /\ step[r] < Len(Program[r]) /\ Current(r) = "gemm" /\ descs[r] = 0 /\ orphans[r] = 0
        /\ dtype # "fp8" => temps[r] = 0
    BY <1>7 DEF RunInv, Placed, Tidy, Owned, Current, Fallback
  <2>3. temps'[r] = temps[r] /\ descs'[r] = 0 /\ comm'[r] = comm[r] /\ orphans'[r] = 0 /\ LeaveGemm(r)
    BY <1>7, <2>2 DEF Fallback, commVars
  <2>4. CASE dtype = "fp8"
    <3>1. Goto(r, "free") /\ UNCHANGED step
      BY <2>3, <2>4 DEF LeaveGemm
    <3>2. Moved(r, "free", step[r])
      BY <1>0, <3>1, ThreadMoves
    <3> QED
      BY <2>1, <2>2, <2>3, <3>2, Stays
  <2>5. CASE dtype # "fp8"
    <3>1. Moved(r, "next", step[r] + 1)
      BY <1>0, <2>3, <2>5, ThreadMoves DEF LeaveGemm
    <3> QED
      BY <2>1, <2>2, <2>3, <2>5, <3>1, Returns
  <2> QED
    BY <2>4, <2>5
<1>8. ASSUME NEW r \in Ranks, DeviceFree(r), UNCHANGED gemmVars, UNCHANGED commVars
      PROVE  RunInv'
  <2>1. Kept(r)
    BY <1>0, <1>8 DEF HostType, Kept, DeviceFree, gemmVars, commVars
  <2>2. /\ step[r] < Len(Program[r]) /\ Current(r) \in {"gemm", "barrier"}
        /\ descs[r] = 0 /\ orphans[r] = 0
    BY <1>8 DEF RunInv, Placed, Tidy, Owned, Current, DeviceFree
  <2>3. Moved(r, "next", step[r] + 1)
    BY <1>0, <1>8, ThreadMoves DEF DeviceFree
  <2>4. temps'[r] = 0 /\ descs'[r] = 0 /\ comm'[r] = comm[r] /\ orphans'[r] = 0
    BY <1>0, <1>8, <2>2 DEF HostType, DeviceFree, gemmVars, commVars
  <2> QED
    BY <2>1, <2>2, <2>3, <2>4, Returns
<1>9. ASSUME NEW r \in Ranks, Synchronize(r), UNCHANGED gemmVars, UNCHANGED commVars
      PROVE  RunInv'
  <2>1. Kept(r)
    BY <1>0, <1>9 DEF HostType, Kept, Synchronize, gemmVars, commVars
  <2>2. /\ step[r] < Len(Program[r]) /\ Current(r) # "destroy"
        /\ temps[r] = 0 /\ descs[r] = 0 /\ orphans[r] = 0
    BY <1>9 DEF RunInv, Placed, Tidy, Owned, Current, Synchronize, Calls, Ops
  <2>3. Moved(r, "next", step[r] + 1)
    BY <1>0, <1>9, ThreadMoves DEF Synchronize
  <2>4. temps'[r] = 0 /\ descs'[r] = 0 /\ comm'[r] = comm[r] /\ orphans'[r] = 0
    BY <1>9, <2>2 DEF Synchronize, gemmVars, commVars
  <2> QED
    BY <2>1, <2>2, <2>3, <2>4, Returns
<1>10. ASSUME NEW r \in Ranks, comm_init_rank(r), UNCHANGED gemmVars
      PROVE  RunInv'
  <2>1. Kept(r)
    <3>1. UNCHANGED <<temps, descs, dtype, product>>
      BY <1>10 DEF comm_init_rank, gemmVars
    <3>2. /\ UNCHANGED comm \/ comm' = [comm EXCEPT ![r] = "live"]
          /\ UNCHANGED orphans \/ \E n \in {0, 1} : orphans' = [orphans EXCEPT ![r] = n]
      BY <1>10 DEF comm_init_rank
    <3>3. comm' \in [Ranks -> {"none", "live"}] /\ \A q \in Ranks \ {r} : comm'[q] = comm[q]
      BY <1>0, <3>2 DEF HostType
    <3>4. orphans' \in [Ranks -> Nat] /\ \A q \in Ranks \ {r} : orphans'[q] = orphans[q]
      <4>1. /\ orphans \in [Ranks -> Nat]
            /\ orphans' = orphans \/ \E n \in Nat : orphans' = [orphans EXCEPT ![r] = n]
        BY <1>0, <3>2 DEF HostType
      <4> QED
        BY <4>1
    <3> QED
      BY <1>0, <3>1, <3>3, <3>4 DEF HostType, Kept
  <2>2. /\ step[r] < Len(Program[r]) /\ Current(r) = "init"
        /\ temps[r] = 0 /\ descs[r] = 0 /\ orphans[r] = 0
    BY <1>10 DEF RunInv, Placed, Tidy, Owned, Current, comm_init_rank, Calls
  <2>3. temps'[r] = 0 /\ descs'[r] = 0
    BY <1>10, <2>2 DEF comm_init_rank, gemmVars
  <2>4. CASE library = "stub"
    <3>1. Moved(r, "next", step[r] + 1)
      BY <1>0, <1>10, <2>4, ThreadMoves DEF comm_init_rank
    <3>2. orphans'[r] = 0
      BY <1>10, <2>2, <2>4 DEF comm_init_rank
    <3> QED
      BY <2>1, <2>2, <2>3, <3>1, <3>2, Returns
  <2>5. CASE library # "stub"
    <3>1. Goto(r, "init") /\ UNCHANGED <<step, comm>>
      BY <1>10, <2>5 DEF comm_init_rank
    <3>2. Moved(r, "init", step[r])
      BY <1>0, <3>1, ThreadMoves
    <3> QED
      BY <2>1, <2>2, <2>3, <3>1, <3>2, Stays
  <2> QED
    BY <2>4, <2>5
<1>11. ASSUME NEW r \in Ranks, InitFails(r), UNCHANGED gemmVars
      PROVE  RunInv'
  <2>1. Kept(r)
    BY <1>0, <1>11 DEF HostType, Kept, InitFails, commVars, Throws, gemmVars
  <2>2. hpc[r] = "init"
    BY <1>11 DEF RunInv, Placed, Tidy, Owned, Current, InitFails
  <2>3. Goto(r, "threw") /\ UNCHANGED step /\ comm'[r] = comm[r]
    BY <1>11 DEF InitFails, Throws, commVars
  <2>4. Moved(r, "threw", step[r])
    BY <1>0, <2>3, ThreadMoves
  <2> QED
    BY <2>1, <2>3, <2>4, Stays
<1>12. ASSUME NEW r \in Ranks, collective(r), UNCHANGED gemmVars
      PROVE  RunInv'
  <2>1. Kept(r)
    BY <1>0, <1>12 DEF HostType, Kept, collective, commVars, gemmVars
  <2>2. /\ step[r] < Len(Program[r]) /\ Current(r) \in Ops
        /\ temps[r] = 0 /\ descs[r] = 0 /\ orphans[r] = 0
    BY <1>12 DEF RunInv, Placed, Tidy, Owned, Current, collective, Calls
  <2>3. temps'[r] = 0 /\ descs'[r] = 0 /\ comm'[r] = comm[r] /\ orphans'[r] = 0
    BY <1>12, <2>2 DEF collective, gemmVars, commVars
  <2>4. CASE Return(r)
    <3>1. Moved(r, "next", step[r] + 1)
      BY <1>0, <2>4, ThreadMoves
    <3>2. Current(r) # "destroy"
      BY <2>2 DEF Ops
    <3> QED
      BY <2>1, <2>2, <2>3, <3>1, <3>2, Returns
  <2>5. ASSUME NEW l \in {"wait", "threw"}, Goto(r, l), UNCHANGED step PROVE RunInv'
    <3>1. Moved(r, l, step[r])
      BY <1>0, <2>5, ThreadMoves
    <3> QED
      BY <2>1, <2>2, <2>3, <3>1, Stays
  <2> QED
    BY <1>12, <2>4, <2>5 DEF collective, nccl_collective, ccl_collective, stub_collective, Throws
<1>13. ASSUME NEW r \in Ranks, barrier(r), UNCHANGED gemmVars
      PROVE  RunInv'
  <2>1. Kept(r)
    <3>1. UNCHANGED <<descs, dtype, product, comm, orphans>>
      BY <1>13 DEF barrier, gemmVars, commVars
    <3>2. temps \in [Ranks -> Nat] /\ \E n \in Nat : temps' = temps \/ temps' = [temps EXCEPT ![r] = n]
      BY <1>0, <1>13 DEF HostType, barrier
    <3>3. temps' \in [Ranks -> Nat] /\ \A q \in Ranks \ {r} : temps'[q] = temps[q]
      BY <3>2
    <3> QED
      BY <1>0, <3>1, <3>3 DEF HostType, Kept
  <2>2. /\ step[r] < Len(Program[r]) /\ Current(r) = "barrier"
        /\ temps[r] = 0 /\ descs[r] = 0 /\ orphans[r] = 0
    BY <1>13 DEF RunInv, Placed, Tidy, Owned, Current, barrier, Calls
  <2>3. descs'[r] = 0 /\ comm'[r] = comm[r] /\ orphans'[r] = 0
    BY <1>13, <2>2 DEF barrier, gemmVars, commVars
  <2>4. CASE Return(r) /\ UNCHANGED temps
    <3>1. Moved(r, "next", step[r] + 1)
      BY <1>0, <2>4, ThreadMoves
    <3> QED
      BY <2>1, <2>2, <2>3, <2>4, <3>1, Returns
  <2>5. ASSUME NEW l \in {"free", "threw"}, Goto(r, l), UNCHANGED step PROVE RunInv'
    <3>1. Moved(r, l, step[r])
      BY <1>0, <2>5, ThreadMoves
    <3> QED
      BY <2>1, <2>2, <2>3, <3>1, Stays
  <2>6. ASSUME library # "nccl", temps' = [temps EXCEPT ![r] = 0], Goto(r, "wait"), UNCHANGED step
        PROVE  RunInv'
    <3>1. Moved(r, "wait", step[r])
      BY <1>0, <2>6, ThreadMoves
    <3>2. temps'[r] = 0
      BY <1>0, <2>6 DEF HostType
    <3> QED
      BY <2>1, <2>2, <2>3, <3>1, <3>2, Stays
  <2> QED
    BY <1>13, <2>4, <2>5, <2>6 DEF barrier, Throws
<1>14. ASSUME NEW r \in Ranks, comm_destroy(r), UNCHANGED gemmVars
      PROVE  RunInv'
  <2>1. Kept(r)
    BY <1>0, <1>14 DEF HostType, Kept, comm_destroy, Return, Throws, gemmVars
  <2>2. /\ step[r] < Len(Program[r]) /\ Current(r) = "destroy"
        /\ temps[r] = 0 /\ descs[r] = 0 /\ orphans[r] = 0
    BY <1>14 DEF RunInv, Placed, Tidy, Owned, Current, comm_destroy, Calls
  <2>3. temps'[r] = 0 /\ descs'[r] = 0 /\ orphans'[r] = 0
    BY <1>14, <2>2 DEF comm_destroy, gemmVars
  <2>4. CASE Return(r)
    <3>1. Moved(r, "next", step[r] + 1)
      BY <1>0, <2>4, ThreadMoves
    <3>2. comm'[r] = "none"
      <4>1. ~ Goto(r, "threw")
        BY <1>0, <2>4 DEF HostType, Return, Goto
      <4> QED
        BY <1>0, <1>14, <4>1 DEF HostType, comm_destroy, Throws
    <3> QED
      BY <2>1, <2>2, <2>3, <3>1, <3>2, Returns
  <2>5. CASE Goto(r, "threw") /\ UNCHANGED <<step, comm>>
    <3>1. Moved(r, "threw", step[r])
      BY <1>0, <2>5, ThreadMoves
    <3> QED
      BY <2>1, <2>2, <2>3, <2>5, <3>1, Stays
  <2> QED
    BY <1>14, <2>4, <2>5 DEF comm_destroy, Throws
<1>15. CASE UNCHANGED hostVars /\ UNCHANGED <<dtype, descs, product, comm, orphans>>
  BY <1>15 DEF RunInv, HostType, Placed, Tidy, Owned, Current, hostVars
<1>16. CASE InitMeets /\ UNCHANGED gemmVars
  <2>1. HostType'
    BY <1>0, <1>16, StreamTypes DEF HostType, InitMeets, gemmVars
  <2>2. ASSUME NEW r \in Ranks PROVE Placed(r)' /\ Tidy(r)' /\ Owned(r)'
    <3>1. /\ step[r] < Len(Program[r]) /\ Current(r) = "init" /\ step[r] \in Nat
          /\ temps[r] = 0 /\ descs[r] = 0
      BY <1>0, <1>16 DEF HostType, RunInv, Placed, Tidy, InitMeets
    <3>2. /\ step'[r] = step[r] + 1 /\ hpc'[r] = "next" /\ comm'[r] = "live" /\ orphans'[r] = 0
          /\ temps'[r] = 0 /\ descs'[r] = 0
      BY <1>16, <3>1 DEF InitMeets, gemmVars
    <3>3. step[r] + 1 \in DOMAIN Program[r] /\ Len(Program[r]) \in Nat
      BY <3>1, HostAssumption
    <3>4. Placed(r)'
      BY <3>1, <3>2, <3>3 DEF Placed
    <3>5. Tidy(r)'
      BY <3>2 DEF Tidy
    <3>6. PICK j \in DOMAIN Program[r] : step[r] + 1 < j /\ Program[r][j] = "destroy"
      BY <3>1, <3>3, LayerAssumption DEF Current
    <3>7. Owned(r)'
      BY <3>2, <3>6 DEF Owned
    <3> QED
      BY <3>4, <3>5, <3>7
  <2> QED
    BY <2>1, <2>2 DEF RunInv
<1>17. CASE (CollectiveRuns \/ TransferRuns) /\ UNCHANGED gemmVars
  <2>1. UNCHANGED <<step, hpc, temps, descs, product, dtype, comm, orphans>>
    BY <1>17 DEF CollectiveRuns, TransferRuns, gemmVars, commVars
  <2>2. HostType'
    BY <1>0, <2>1, StreamTypes DEF HostType
  <2> QED
    BY <2>1, <2>2 DEF RunInv, Placed, Tidy, Owned, Current
<1>18. ASSUME NEW s \in Ranks, GemmRuns(s), UNCHANGED commVars PROVE RunInv'
  <2>1. UNCHANGED <<step, hpc, temps, descs, dtype, comm, orphans>>
    BY <1>18 DEF GemmRuns, commVars
  <2>2. HostType'
    BY <1>0, <1>18, <2>1, StreamTypes DEF HostType, GemmRuns
  <2> QED
    BY <2>1, <2>2 DEF RunInv, Placed, Tidy, Owned, Current
<1>19. ASSUME NEW s \in Ranks, FallbackDies(s), UNCHANGED commVars PROVE RunInv'
  <2>1. HostType'
    BY <1>0, <1>19, StreamTypes DEF HostType, FallbackDies, gemmVars, commVars
  <2>2. ASSUME NEW r \in Ranks PROVE Placed(r)' /\ Tidy(r)' /\ Owned(r)'
    <3>1. hpc'[r] = "died" /\ step'[r] = step[r] /\ comm'[r] = comm[r]
      BY <1>19 DEF FallbackDies, commVars
    <3> QED
      BY <3>1 DEF RunInv, Placed, Tidy, Owned
  <2> QED
    BY <2>1, <2>2 DEF RunInv
<1> QED
  <2>1. CASE GemmNext /\ UNCHANGED commVars
    BY <2>1, <1>1, <1>2, <1>3, <1>4, <1>5, <1>6, <1>7, <1>8, <1>9, <1>15, <1>18, <1>19
       DEF GemmNext, set_workspace, Destruct, Construct, commVars
  <2>2. CASE CommNext /\ UNCHANGED gemmVars
    BY <2>2, <1>10, <1>11, <1>12, <1>13, <1>14, <1>16, <1>17 DEF CommNext
  <2>3. CASE UNCHANGED vars
    BY <2>3, <1>15 DEF vars, gemmVars, commVars
  <2> QED
    BY <2>1, <2>2, <2>3 DEF Next

(* RunInv holds of every run of the layer. *)
LEMMA RunInvariant == Spec => []RunInv
<1>1. Init => RunInv
  <2> SUFFICES ASSUME Init PROVE RunInv
    OBVIOUS
  <2>1. HostType
    BY DEF Init, HostInit, GemmInit, CommInit, HostType, Places
  <2>2. ASSUME NEW r \in Ranks PROVE Placed(r) /\ Tidy(r) /\ Owned(r)
    <3>1. /\ step[r] = 0 /\ hpc[r] = "next" /\ temps[r] = 0 /\ descs[r] = 0
          /\ comm[r] = "none" /\ orphans[r] = 0
      BY DEF Init, HostInit, GemmInit, CommInit
    <3>2. Len(Program[r]) \in Nat
      BY HostAssumption
    <3> QED
      BY <3>1, <3>2 DEF Placed, Tidy, Owned, InGemm
  <2> QED
    BY <2>1, <2>2 DEF RunInv
<1> QED
  BY <1>1, RunInvInductive, PTL DEF Spec

(* Nothing happens to a dead process. *)
LEMMA DeadStays ==
    ASSUME Dead, [Next]_vars
    PROVE  \A r \in Ranks : step'[r] = step[r] /\ hpc'[r] = "died" /\ stream'[r] = <<>>
<1> SUFFICES ASSUME NEW q \in Ranks
             PROVE  step'[q] = step[q] /\ hpc'[q] = "died" /\ stream'[q] = <<>>
  OBVIOUS
<1>1. \A r \in Ranks : hpc[r] = "died" /\ stream[r] = <<>>
  BY DEF Dead
<1>2. CASE UNCHANGED hostVars
  BY <1>1, <1>2 DEF hostVars
<1>3. ASSUME NEW r \in Ranks PROVE \A c : ~Calls(r, c)
  BY <1>1 DEF Calls
<1>4. ASSUME NEW r \in Ranks
      PROVE  /\ ~EnterGemm(r) /\ ~Create(r) /\ ~Matmul(r) /\ ~Release(r) /\ ~SetStream(r)
             /\ ~RocGemm(r) /\ ~Fallback(r) /\ ~FallbackDies(r) /\ ~GemmRuns(r)
             /\ ~DeviceFree(r) /\ ~Synchronize(r)
  BY <1>1, <1>3 DEF EnterGemm, Create, Matmul, Release, SetStream, RocGemm, Fallback, FallbackDies,
     GemmRuns, DeviceFree, Synchronize
<1>5. ASSUME NEW r \in Ranks
      PROVE  /\ ~comm_init_rank(r) /\ ~InitFails(r) /\ ~collective(r) /\ ~barrier(r)
             /\ ~comm_destroy(r)
  BY <1>1, <1>3 DEF comm_init_rank, InitFails, collective, barrier, comm_destroy
<1>6. ~InitMeets /\ ~CollectiveRuns /\ ~TransferRuns
  BY <1>1 DEF InitMeets, CollectiveRuns, TransferRuns
<1>7. CASE GemmNext
  BY <1>2, <1>4, <1>7 DEF GemmNext, set_workspace, Destruct, Construct
<1>8. CASE CommNext
  BY <1>5, <1>6, <1>8 DEF CommNext
<1> QED
  BY <1>2, <1>7, <1>8 DEF Next, vars

(* A rank between calls has no descriptor and no temporary buffer, and one *)
(* that has finished its program has no communicator either: only the      *)
(* exceptions of gemm, barrier and comm_init_rank leak them.  For all      *)
(* programs that destroy what they make (LayerAssumption).                 *)
THEOREM OnlyThrowsLeak == Spec => []LeaksOnlyByThrow
<1>1. RunInv => LeaksOnlyByThrow
  <2> SUFFICES ASSUME RunInv, NEW r \in Ranks, hpc[r] = "next"
               PROVE  /\ descs[r] = 0 /\ temps[r] = 0
                      /\ step[r] = Len(Program[r]) => comm[r] = "none" /\ orphans[r] = 0
    BY DEF LeaksOnlyByThrow, Ended
  <2>1. descs[r] = 0 /\ temps[r] = 0 /\ orphans[r] = 0
    BY DEF RunInv, Tidy, Owned
  <2>2. ASSUME step[r] = Len(Program[r]) PROVE comm[r] = "none"
    <3>1. DOMAIN Program[r] = 1 .. step[r] /\ step[r] \in Nat
      BY <2>2, HostAssumption DEF RunInv, HostType
    <3> QED
      BY <3>1 DEF RunInv, Owned
  <2> QED
    BY <2>1, <2>2
<1> QED
  BY <1>1, RunInvariant, PTL

-----------------------------------------------------------------------------
(* Tensor-parallel layer: barriers *)

(* Work knows its place in the program. *)
LEMMA Positions ==
    ASSUME NEW w \in Seq(Works)
    PROVE  \A i \in DOMAIN w : w[i] \in Works /\ w[i].at \in Nat
<1>1. \A i \in DOMAIN w : w[i] \in Works
  OBVIOUS
<1> QED
  BY <1>1 DEF Works

(* Other work joins the stream. *)
LEMMA BarriersAppend ==
    ASSUME NEW r \in Ranks, NEW w \in Seq(Works), NEW n \in Nat, NEW m \in Nat, NEW e \in Nat,
           BarriersRun(r, w, n, m, e), NEW x \in Works, x.op # "barrier"
    PROVE  BarriersRun(r, Append(w, x), n, m, e)
<1>0. Append(w, x) \in Seq(Works)
  OBVIOUS
<1>1. PICK v \in Seq(Works) : v = Append(w, x)
  BY <1>0
<1>2. /\ DOMAIN v = 1 .. Len(w) + 1 /\ DOMAIN w = 1 .. Len(w) /\ Len(w) \in Nat
      /\ v[Len(w) + 1] = x /\ \A i \in 1 .. Len(w) : v[i] = w[i]
  BY <1>1
<1>3. \A i \in DOMAIN v : v[i].op = "barrier" => i \in DOMAIN w /\ v[i] = w[i]
  BY <1>2
<1> QED
  BY <1>1, <1>2, <1>3 DEF BarriersRun

(* Rank r enters a barrier. *)
LEMMA BarriersEnter ==
    ASSUME NEW r \in Ranks, NEW w \in Seq(Works), NEW n \in Nat, NEW e \in Nat,
           BarriersRun(r, w, n, n, e), NEW x \in Works, x.op = "barrier", x.at = n,
           IsBarrier(r, n + 1)
    PROVE  BarriersRun(r, Append(w, x), n, n + 1, e)
<1>0. Append(w, x) \in Seq(Works)
  OBVIOUS
<1>1. PICK v \in Seq(Works) : v = Append(w, x)
  BY <1>0
<1>2. /\ DOMAIN v = 1 .. Len(w) + 1 /\ DOMAIN w = 1 .. Len(w) /\ Len(w) \in Nat
      /\ v[Len(w) + 1] = x /\ \A i \in 1 .. Len(w) : v[i] = w[i]
  BY <1>1
<1>3. \A i \in DOMAIN w : w[i].at \in Nat
  BY Positions
<1>4. e <= n + 1 /\ \A b \in Nat : IsBarrier(r, b) /\ b <= n => b <= e
  BY DEF BarriersRun
<1>5. ASSUME NEW b \in Nat, IsBarrier(r, b), e < b, b <= n + 1
      PROVE  \E i \in DOMAIN v : v[i].op = "barrier" /\ v[i].at + 1 = b
  <2>1. CASE b = n + 1
    BY <1>2, <2>1
  <2>2. CASE b <= n
    BY <1>2, <1>5, <2>2 DEF BarriersRun
  <2> QED
    BY <1>5, <2>1, <2>2
<1>6. ASSUME NEW i \in DOMAIN v, v[i].op = "barrier"
      PROVE  /\ e < v[i].at + 1 /\ v[i].at + 1 <= n + 1 /\ IsBarrier(r, v[i].at + 1)
             /\ \A j \in DOMAIN v : i < j /\ v[j].op = "barrier" => v[i].at < v[j].at
  <2>1. CASE i = Len(w) + 1
    <3>1. e < n + 1
      BY DEF BarriersRun
    <3> QED
      BY <1>2, <2>1, <3>1
  <2>2. CASE i \in DOMAIN w
    <3>1. /\ v[i] = w[i] /\ e < w[i].at + 1 /\ w[i].at + 1 <= n /\ IsBarrier(r, w[i].at + 1)
          /\ \A j \in DOMAIN w : i < j /\ w[j].op = "barrier" => w[i].at < w[j].at
      BY <1>2, <1>6, <2>2 DEF BarriersRun
    <3>2. /\ v[i].at = w[i].at /\ w[i].at \in Nat /\ w[i].at < n /\ w[i].at + 1 <= n + 1
      BY <1>3, <2>2, <3>1
    <3>3. ASSUME NEW j \in DOMAIN v, i < j, v[j].op = "barrier"
          PROVE  v[i].at < v[j].at
      <4>1. CASE j \in DOMAIN w
        BY <1>2, <3>1, <3>2, <3>3, <4>1
      <4>2. CASE j = Len(w) + 1
        BY <1>2, <3>2, <4>2
      <4> QED
        BY <1>2, <4>1, <4>2
    <3> QED
      BY <3>1, <3>2, <3>3
  <2> QED
    BY <1>2, <2>1, <2>2
<1> QED
  BY <1>1, <1>4, <1>5, <1>6 DEF BarriersRun

(* The work at the head of the stream runs: other work, or a barrier. *)
LEMMA BarriersTail ==
    ASSUME NEW r \in Ranks, NEW w \in Seq(Works), w # <<>>, NEW n \in Nat, NEW m \in Nat,
           NEW e \in Nat, BarriersRun(r, w, n, m, e)
    PROVE  /\ Head(w).op # "barrier" => BarriersRun(r, Tail(w), n, m, e)
           /\ Head(w).op = "barrier" => BarriersRun(r, Tail(w), n, m, Head(w).at + 1)
<1>0. Tail(w) \in Seq(Works)
  OBVIOUS
<1>1. PICK v \in Seq(Works) : v = Tail(w)
  BY <1>0
<1>2. /\ DOMAIN v = 1 .. Len(w) - 1 /\ DOMAIN w = 1 .. Len(w) /\ Len(w) \in Nat \ {0}
      /\ Head(w) = w[1] /\ \A i \in DOMAIN v : v[i] = w[i + 1]
  BY <1>1
<1>3. \A i \in DOMAIN w : w[i].at \in Nat
  BY Positions
<1>4. \A i \in DOMAIN w : i = 1 \/ (i - 1 \in DOMAIN v /\ v[i - 1] = w[i])
  BY <1>2
<1>5. \A i \in DOMAIN v : i + 1 \in DOMAIN w /\ i \in Nat
  BY <1>2
<1>6. ASSUME NEW d \in Nat, d <= m, e <= d, \A b \in Nat : e < b /\ b <= d /\ IsBarrier(r, b) => b = d,
             w[1].op = "barrier" => w[1].at + 1 = d, w[1].op # "barrier" => d = e
      PROVE  BarriersRun(r, v, n, m, d)
  <2>1. \A b \in Nat : IsBarrier(r, b) /\ b <= n => b <= d
    BY <1>6 DEF BarriersRun
  <2>2. ASSUME NEW b \in Nat, IsBarrier(r, b), d < b, b <= m
        PROVE  \E i \in DOMAIN v : v[i].op = "barrier" /\ v[i].at + 1 = b
    <3>1. PICK i \in DOMAIN w : w[i].op = "barrier" /\ w[i].at + 1 = b
      BY <1>6, <2>2 DEF BarriersRun
    <3>2. i # 1
      BY <1>6, <2>2, <3>1
    <3> QED
      BY <1>4, <3>1, <3>2
  <2>3. ASSUME NEW i \in DOMAIN v, v[i].op = "barrier"
        PROVE  /\ d < v[i].at + 1 /\ v[i].at + 1 <= m /\ IsBarrier(r, v[i].at + 1)
               /\ \A j \in DOMAIN v : i < j /\ v[j].op = "barrier" => v[i].at < v[j].at
    <3>1. PICK a \in DOMAIN w : a = i + 1 /\ v[i] = w[a] /\ 1 < a
      BY <1>2, <1>5
    <3>2. /\ e < w[a].at + 1 /\ w[a].at + 1 <= m /\ IsBarrier(r, w[a].at + 1)
          /\ \A j \in DOMAIN w : a < j /\ w[j].op = "barrier" => w[a].at < w[j].at
      BY <2>3, <3>1 DEF BarriersRun
    <3>3. d < w[a].at + 1
      <4>1. CASE w[1].op = "barrier"
        <5>1. 1 \in DOMAIN w /\ w[1].at < w[a].at
          BY <1>2, <2>3, <3>1, <4>1 DEF BarriersRun
        <5> QED
          BY <1>3, <1>6, <4>1, <5>1
      <4>2. CASE w[1].op # "barrier"
        BY <1>6, <3>2, <4>2
      <4> QED
        BY <4>1, <4>2
    <3>4. ASSUME NEW j \in DOMAIN v, i < j, v[j].op = "barrier" PROVE v[i].at < v[j].at
      <4>1. j + 1 \in DOMAIN w /\ v[j] = w[j + 1] /\ a < j + 1
        BY <1>2, <1>5, <3>1, <3>4
      <4> QED
        BY <3>1, <3>2, <3>4, <4>1
    <3> QED
      BY <3>1, <3>2, <3>3, <3>4
  <2> QED
    BY <1>6, <2>1, <2>2, <2>3 DEF BarriersRun
<1>7. ASSUME w[1].op # "barrier" PROVE BarriersRun(r, v, n, m, e)
  BY <1>6, <1>7 DEF BarriersRun
<1>8. ASSUME w[1].op = "barrier" PROVE BarriersRun(r, v, n, m, w[1].at + 1)
  <2>1. 1 \in DOMAIN w
    BY <1>2
  <2>2. /\ w[1].at + 1 \in Nat /\ e < w[1].at + 1 /\ w[1].at + 1 <= m
        /\ \A j \in DOMAIN w : 1 < j /\ w[j].op = "barrier" => w[1].at < w[j].at
    BY <1>3, <1>8, <2>1 DEF BarriersRun
  <2>3. ASSUME NEW b \in Nat, e < b, b <= w[1].at + 1, IsBarrier(r, b) PROVE b = w[1].at + 1
    <3>1. PICK i \in DOMAIN w : w[i].op = "barrier" /\ w[i].at + 1 = b
      BY <2>2, <2>3 DEF BarriersRun
    <3>2. i = 1 \/ 1 < i
      BY <1>2
    <3> QED
      BY <1>3, <2>1, <2>2, <2>3, <3>1, <3>2
  <2> QED
    BY <1>6, <1>8, <2>2, <2>3
<1> QED
  BY <1>1, <1>2, <1>7, <1>8

(* A call that is no barrier returns, and a barrier does whose rank has an *)
(* empty stream.                                                           *)
LEMMA BarriersReturn ==
    ASSUME NEW r \in Ranks, NEW w \in Seq(Works), NEW n \in Nat, NEW e \in Nat
    PROVE  /\ BarriersRun(r, w, n, n, e) /\ ~IsBarrier(r, n + 1) => BarriersRun(r, w, n + 1, n + 1, e)
           /\ BarriersRun(r, <<>>, n, n + 1, e) => BarriersRun(r, <<>>, n + 1, n + 1, e)
<1>0. \A i \in DOMAIN w : w[i].at \in Nat
  BY Positions
<1>1. ASSUME BarriersRun(r, w, n, n, e), ~IsBarrier(r, n + 1)
      PROVE  BarriersRun(r, w, n + 1, n + 1, e)
  <2>1. \A b \in Nat : IsBarrier(r, b) /\ b <= n + 1 => b <= n
    BY <1>1
  <2> QED
    BY <1>0, <1>1, <2>1 DEF BarriersRun
<1>2. ASSUME BarriersRun(r, <<>>, n, n + 1, e) PROVE BarriersRun(r, <<>>, n + 1, n + 1, e)
  <2>1. \A b \in Nat : IsBarrier(r, b) /\ b <= n + 1 => b <= e
    BY <1>2 DEF BarriersRun
  <2> QED
    BY <1>2, <2>1 DEF BarriersRun
<1> QED
  BY <1>1, <1>2

(* What a step may do to a rank: its thread stays outside or inside of a   *)
(* barrier, passes another call, leaves a barrier or enters one; its       *)
(* stream gains or loses work other than a barrier.                        *)
EnteredNow(q) == Entered(q, hpc[q], step[q])
EnteredNext(q) == Entered(q, hpc'[q], step'[q])

Stands(q) == step'[q] = step[q] /\ EnteredNext(q) = EnteredNow(q)
Passes(q) ==
    /\ step'[q] = step[q] + 1 /\ EnteredNow(q) = step[q] /\ EnteredNext(q) = step[q] + 1
    /\ ~IsBarrier(q, step[q] + 1)
Leaves(q) ==
    /\ step'[q] = step[q] + 1 /\ EnteredNow(q) = step[q] + 1 /\ EnteredNext(q) = step[q] + 1
    /\ stream[q] = <<>> /\ stream'[q] = <<>>
Enters(q) ==
    /\ step'[q] = step[q] /\ EnteredNow(q) = step[q] /\ EnteredNext(q) = step[q] + 1
    /\ IsBarrier(q, step[q] + 1) /\ stream'[q] = Append(stream[q], Work("barrier", q))

OtherWork(q) ==
    \/ stream'[q] = stream[q]
    \/ \E x \in Works : x.op # "barrier" /\ stream'[q] = Append(stream[q], x)
    \/ stream[q] # <<>> /\ Head(stream[q]).op # "barrier" /\ stream'[q] = Tail(stream[q])

RankStep(q) == (Stands(q) /\ OtherWork(q)) \/ (Passes(q) /\ OtherWork(q)) \/ Leaves(q) \/ Enters(q)

(* Such a step runs no barrier. *)
LEMMA RankStepKeeps ==
    ASSUME NEW q \in Ranks, RunInv, RankStep(q), NEW e \in Nat,
           BarriersRun(q, stream[q], step[q], EnteredNow(q), e)
    PROVE  BarriersRun(q, stream'[q], step'[q], EnteredNext(q), e)
<1>1. stream[q] \in Seq(Works) /\ step[q] \in Nat /\ EnteredNow(q) \in Nat
  BY DEF RunInv, HostType, EnteredNow, Entered
<1>2. ASSUME OtherWork(q) PROVE BarriersRun(q, stream'[q], step[q], EnteredNow(q), e)
  <2>1. CASE \E x \in Works : x.op # "barrier" /\ stream'[q] = Append(stream[q], x)
    BY <1>1, <2>1, BarriersAppend
  <2>2. CASE stream[q] # <<>> /\ Head(stream[q]).op # "barrier" /\ stream'[q] = Tail(stream[q])
    BY <1>1, <2>2, BarriersTail
  <2> QED
    BY <1>2, <2>1, <2>2 DEF OtherWork
<1>3. CASE Stands(q) /\ OtherWork(q)
  BY <1>2, <1>3 DEF Stands
<1>4. CASE Passes(q) /\ OtherWork(q)
  <2>1. BarriersRun(q, stream'[q], step[q], step[q], e)
    BY <1>2, <1>4 DEF Passes
  <2>2. stream'[q] \in Seq(Works)
    <3>1. \A x \in Works : Append(stream[q], x) \in Seq(Works)
      BY <1>1
    <3>2. stream[q] # <<>> => Tail(stream[q]) \in Seq(Works)
      BY <1>1
    <3> QED
      BY <1>1, <1>4, <3>1, <3>2 DEF OtherWork
  <2>3. PICK v \in Seq(Works) : v = stream'[q]
    BY <2>2
  <2>4. BarriersRun(q, v, step[q] + 1, step[q] + 1, e)
    BY <1>1, <1>4, <2>1, <2>3, BarriersReturn DEF Passes
  <2> QED
    BY <1>4, <2>3, <2>4 DEF Passes
<1>5. CASE Leaves(q)
  <2>1. BarriersRun(q, <<>>, step[q], step[q] + 1, e)
    BY <1>5 DEF Leaves
  <2>2. BarriersRun(q, <<>>, step[q] + 1, step[q] + 1, e)
    BY <1>1, <2>1, BarriersReturn
  <2> QED
    BY <1>5, <2>2 DEF Leaves
<1>6. CASE Enters(q)
  <2>1. PICK x \in Works : x = Work("barrier", q) /\ x.op = "barrier" /\ x.at = step[q]
    <3>1. Work("barrier", q) \in Works
      BY <1>1 DEF Work, Works, Kinds
    <3>2. Work("barrier", q).op = "barrier" /\ Work("barrier", q).at = step[q]
      BY DEF Work
    <3> QED
      BY <3>1, <3>2
  <2>2. BarriersRun(q, stream[q], step[q], step[q], e)
    BY <1>6 DEF Enters
  <2>3. BarriersRun(q, Append(stream[q], x), step[q], step[q] + 1, e)
    BY <1>1, <1>6, <2>1, <2>2, BarriersEnter DEF Enters
  <2> QED
    BY <1>6, <2>1, <2>3 DEF Enters
<1> QED
  BY <1>3, <1>4, <1>5, <1>6 DEF RankStep

(* A step of rank r's thread in a call that is no barrier. *)
LEMMA PlainStep ==
    ASSUME NEW r \in Ranks, RunInv, step[r] < Len(Program[r]), Current(r) # "barrier",
           (\E l : Moved(r, l, step[r])) \/ Moved(r, "next", step[r] + 1),
           \/ UNCHANGED stream
           \/ \E s, x : /\ x \in Works /\ x.op # "barrier"
                        /\ stream' = [stream EXCEPT ![s] = Append(@, x)]
    PROVE  \A q \in Ranks : RankStep(q)
<1>1. ASSUME NEW q \in Ranks PROVE OtherWork(q)
  <2>1. stream \in [Ranks -> Seq(Works)]
    BY DEF RunInv, HostType
  <2> QED
    BY <2>1 DEF OtherWork
<1>2. ASSUME NEW q \in Ranks \ {r} PROVE Stands(q)
  BY DEF Stands, EnteredNow, EnteredNext, Moved
<1>3. Stands(r) \/ Passes(r)
  <2>1. step[r] \in Nat /\ Program[r][step[r] + 1] # "barrier"
    BY DEF RunInv, HostType, Current
  <2>2. CASE \E l : Moved(r, l, step[r])
    BY <2>1, <2>2 DEF Stands, EnteredNow, EnteredNext, Moved, Entered
  <2>3. CASE Moved(r, "next", step[r] + 1)
    BY <2>1, <2>3 DEF Passes, EnteredNow, EnteredNext, Moved, Entered, IsBarrier
  <2> QED
    BY <2>2, <2>3
<1> QED
  BY <1>1, <1>2, <1>3 DEF RankStep

(* Work of another kind than a barrier runs. *)
LEMMA PlainWork ==
    ASSUME RunInv, UNCHANGED <<step, hpc>>,
           \A q \in Ranks : \/ stream'[q] = stream[q]
                            \/ /\ stream[q] # <<>> /\ Head(stream[q]).op # "barrier"
                               /\ stream'[q] = Tail(stream[q])
    PROVE  \A q \in Ranks : RankStep(q)
BY DEF RankStep, Stands, OtherWork, EnteredNow, EnteredNext

(* The all-reduce of a barrier runs on all ranks. *)
BarrierRuns ==
    /\ CollectiveRuns
    /\ \A r \in Ranks : Head(stream[r]).op = "barrier"

(* Every other step treats every rank in one of those ways. *)
LEMMA RanksStep ==
    ASSUME RunInv, Next, library # "stub", ~BarrierRuns, \A r \in Ranks : ~FallbackDies(r)
    PROVE  \A q \in Ranks : RankStep(q)
<1> USE DEF Places, InGemm
<1>0. HostType
  BY DEF RunInv
<1>1. CASE UNCHANGED <<step, hpc, stream>>
  BY <1>1, PlainWork
<1>2. ASSUME NEW r \in Ranks,
             \/ EnterGemm(r) \/ Create(r) \/ Matmul(r) \/ Release(r)
             \/ SetStream(r) \/ RocGemm(r) \/ Fallback(r)
      PROVE  \A q \in Ranks : RankStep(q)
  <2>1. step[r] < Len(Program[r]) /\ Current(r) = "gemm"
    BY <1>2 DEF RunInv, Placed, EnterGemm, Calls, Current, Create, Matmul, Release, SetStream,
       RocGemm, Fallback
  <2>2. \/ \E l \in Places : Goto(r, l) /\ UNCHANGED step
        \/ Return(r)
    <3>1. CASE EnterGemm(r)
      BY <3>1 DEF EnterGemm
    <3>2. CASE Create(r)
      BY <3>2 DEF Create, Throws
    <3>3. CASE Matmul(r)
      BY <3>3 DEF Matmul, Throws
    <3>4. CASE Release(r)
      BY <3>4 DEF Release, LeaveGemm
    <3>5. CASE SetStream(r)
      BY <3>5 DEF SetStream, Throws
    <3>6. CASE RocGemm(r)
      BY <3>6 DEF RocGemm, LeaveGemm, Throws
    <3>7. CASE Fallback(r)
      BY <3>7 DEF Fallback, LeaveGemm
    <3> QED
      BY <1>2, <3>1, <3>2, <3>3, <3>4, <3>5, <3>6, <3>7
  <2>3. (\E l : Moved(r, l, step[r])) \/ Moved(r, "next", step[r] + 1)
    BY <1>0, <2>2, ThreadMoves
  <2>4. UNCHANGED stream \/ \E s : Enqueue(s, Work("gemm", r))
    BY <1>2 DEF EnterGemm, Create, Matmul, Release, SetStream, RocGemm, Fallback
  <2>5. Work("gemm", r) \in Works /\ Work("gemm", r).op # "barrier"
    BY <1>0 DEF HostType, Work, Works, Kinds
  <2> QED
    BY <2>1, <2>3, <2>4, <2>5, PlainStep DEF Enqueue
<1>3. ASSUME NEW r \in Ranks, DeviceFree(r) \/ Synchronize(r)
      PROVE  \A q \in Ranks : RankStep(q)
  <2>1. step[r] < Len(Program[r]) /\ stream[r] = <<>> /\ UNCHANGED stream
    BY <1>3 DEF RunInv, Placed, DeviceFree, Synchronize, Calls
  <2>2. Moved(r, "next", step[r] + 1)
    BY <1>0, <1>3, ThreadMoves DEF DeviceFree, Synchronize
  <2>3. CASE Current(r) = "barrier"
    <3>1. hpc[r] \in {"free", "wait"}
      BY <1>3, <2>3 DEF DeviceFree, Synchronize, Calls, Current
    <3>2. step[r] \in Nat /\ Program[r][step[r] + 1] = "barrier"
      BY <1>0, <2>3 DEF HostType, Current
    <3>3. Leaves(r)
      BY <2>1, <2>2, <3>1, <3>2 DEF Leaves, EnteredNow, EnteredNext, Entered, Moved
    <3>4. \A q \in Ranks \ {r} : Stands(q) /\ OtherWork(q)
      BY <2>1, <2>2 DEF Stands, OtherWork, EnteredNow, EnteredNext, Moved
    <3> QED
      BY <3>3, <3>4 DEF RankStep
  <2>4. CASE Current(r) # "barrier"
    BY <2>1, <2>2, <2>4, PlainStep
  <2> QED
    BY <2>3, <2>4
<1>4. ASSUME NEW r \in Ranks, comm_init_rank(r) \/ InitFails(r) \/ comm_destroy(r)
      PROVE  \A q \in Ranks : RankStep(q)
  <2>1. step[r] < Len(Program[r]) /\ Current(r) # "barrier" /\ UNCHANGED stream
    BY <1>4 DEF RunInv, Placed, comm_init_rank, InitFails, comm_destroy, Calls, Current
  <2>2. \/ \E l \in Places : Goto(r, l) /\ UNCHANGED step
        \/ Return(r)
    BY <1>4 DEF comm_init_rank, InitFails, comm_destroy, Throws
  <2>3. (\E l : Moved(r, l, step[r])) \/ Moved(r, "next", step[r] + 1)
    BY <1>0, <2>2, ThreadMoves
  <2> QED
    BY <2>1, <2>3, PlainStep
<1>5. ASSUME NEW r \in Ranks, collective(r)
      PROVE  \A q \in Ranks : RankStep(q)
  <2>1. PICK c \in Ops : /\ Calls(r, c)
                         /\ nccl_collective(r, c) \/ ccl_collective(r, c) \/ stub_collective(r)
    BY <1>5 DEF collective
  <2>2. step[r] < Len(Program[r]) /\ Current(r) # "barrier"
    BY <2>1 DEF Calls, Current, Ops
  <2>3. \/ \E l \in Places : Goto(r, l) /\ UNCHANGED step
        \/ Return(r)
    BY <2>1 DEF nccl_collective, ccl_collective, stub_collective, Throws
  <2>4. (\E l : Moved(r, l, step[r])) \/ Moved(r, "next", step[r] + 1)
    BY <1>0, <2>3, ThreadMoves
  <2>5. UNCHANGED stream \/ Enqueue(r, Work(c, r))
    BY <2>1 DEF nccl_collective, ccl_collective, stub_collective
  <2>6. Work(c, r) \in Works /\ Work(c, r).op # "barrier"
    BY <1>0 DEF HostType, Work, Works, Kinds, Ops
  <2> QED
    BY <2>2, <2>4, <2>5, <2>6, PlainStep DEF Enqueue
<1>6. ASSUME NEW r \in Ranks, barrier(r)
      PROVE  \A q \in Ranks : RankStep(q)
  <2>1. /\ hpc[r] = "next" /\ step[r] \in Nat /\ step[r] < Len(Program[r])
        /\ Program[r][step[r] + 1] = "barrier"
    BY <1>0, <1>6 DEF HostType, barrier, Calls
  <2>2. CASE Goto(r, "threw") /\ UNCHANGED <<step, stream>>
    <3>1. Moved(r, "threw", step[r])
      BY <1>0, <2>2, ThreadMoves
    <3>2. \A q \in Ranks : Stands(q) /\ OtherWork(q)
      BY <2>1, <2>2, <3>1 DEF Stands, OtherWork, EnteredNow, EnteredNext, Moved, Entered
    <3> QED
      BY <3>2 DEF RankStep
  <2>3. ASSUME NEW l \in {"free", "wait"}, Goto(r, l), UNCHANGED step, Enqueue(r, Work("barrier", r))
        PROVE  \A q \in Ranks : RankStep(q)
    <3>1. Moved(r, l, step[r])
      BY <1>0, <2>3, ThreadMoves
    <3>2. /\ stream'[r] = Append(stream[r], Work("barrier", r))
          /\ \A q \in Ranks \ {r} : stream'[q] = stream[q]
      BY <1>0, <2>3 DEF HostType, Enqueue
    <3>3. IsBarrier(r, step[r] + 1)
      BY <2>1, HostAssumption DEF IsBarrier
    <3>4. EnteredNow(r) = step[r] /\ EnteredNext(r) = step[r] + 1
      BY <2>1, <3>1 DEF EnteredNow, EnteredNext, Entered, Moved
    <3>5. Enters(r)
      BY <3>1, <3>2, <3>3, <3>4 DEF Enters, Moved
    <3>6. \A q \in Ranks \ {r} : Stands(q) /\ OtherWork(q)
      BY <3>1, <3>2 DEF Stands, OtherWork, EnteredNow, EnteredNext, Moved
    <3> QED
      BY <3>5, <3>6 DEF RankStep
  <2> QED
    BY <1>6, <2>2, <2>3 DEF barrier, Throws
<1>7. CASE InitMeets
  <2>1. ASSUME NEW q \in Ranks PROVE Passes(q)
    <3>1. /\ hpc[q] = "init" /\ hpc'[q] = "next" /\ step'[q] = step[q] + 1
          /\ Program[q][step[q] + 1] = "init" /\ step[q] \in Nat
      BY <1>0, <1>7 DEF RunInv, HostType, Placed, Current, InitMeets
    <3> QED
      BY <3>1 DEF Passes, EnteredNow, EnteredNext, Entered, IsBarrier
  <2>2. \A q \in Ranks : OtherWork(q)
    BY <1>7 DEF OtherWork, InitMeets
  <2> QED
    BY <2>1, <2>2 DEF RankStep
<1>8. CASE CollectiveRuns
  <2>1. PICK c \in (Ops \ {"send", "recv"}) \cup {"barrier"} : \A r \in Ranks : Head(stream[r]).op = c
    BY <1>8 DEF CollectiveRuns
  <2>2. CASE c # "barrier"
    BY <1>8, <2>1, <2>2, PlainWork DEF CollectiveRuns
  <2>3. CASE c = "barrier"
    BY <1>8, <2>1, <2>3 DEF BarrierRuns
  <2> QED
    BY <2>2, <2>3
<1>9. CASE TransferRuns
  <2>1. PICK r, s \in Ranks : /\ stream[r] # <<>> /\ stream[s] # <<>>
                              /\ stream' = [stream EXCEPT ![r] = Tail(@), ![s] = Tail(@)]
                              /\ Head(stream[r]).op = "send" /\ Head(stream[s]).op = "recv"
    BY <1>9 DEF TransferRuns
  <2>2. r # s
    BY <2>1
  <2>3. /\ stream'[r] = Tail(stream[r]) /\ stream'[s] = Tail(stream[s])
        /\ \A q \in Ranks \ {r, s} : stream'[q] = stream[q]
    BY <1>0, <2>1, <2>2 DEF HostType
  <2>4. UNCHANGED <<step, hpc>>
    BY <1>9 DEF TransferRuns
  <2>5. \A q \in Ranks : \/ stream'[q] = stream[q]
                         \/ /\ stream[q] # <<>> /\ Head(stream[q]).op # "barrier"
                            /\ stream'[q] = Tail(stream[q])
    BY <2>1, <2>3
  <2> QED
    BY <2>4, <2>5, PlainWork
<1>10. ASSUME NEW s \in Ranks, GemmRuns(s) PROVE \A q \in Ranks : RankStep(q)
  <2>1. \A q \in Ranks : \/ stream'[q] = stream[q]
                         \/ /\ stream[q] # <<>> /\ Head(stream[q]).op # "barrier"
                            /\ stream'[q] = Tail(stream[q])
    BY <1>0, <1>10 DEF HostType, GemmRuns
  <2> QED
    BY <1>10, <2>1, PlainWork DEF GemmRuns
<1>11. CASE GemmNext
  BY <1>11, <1>1, <1>2, <1>3, <1>10 DEF GemmNext, set_workspace, Destruct, Construct, hostVars
<1>12. CASE CommNext
  BY <1>12, <1>4, <1>5, <1>6, <1>7, <1>8, <1>9 DEF CommNext
<1> QED
  BY <1>11, <1>12 DEF Next

(* The barriers at the heads of two ranks' streams are the same call. *)
LEMMA SameBarrier ==
    ASSUME NEW r \in Ranks, NEW s \in Ranks, RunInv, NEW e \in Nat,
           BarriersRun(r, stream[r], step[r], EnteredNow(r), e),
           BarriersRun(s, stream[s], step[s], EnteredNow(s), e),
           stream[r] # <<>>, stream[s] # <<>>,
           Head(stream[r]).op = "barrier", Head(stream[s]).op = "barrier"
    PROVE  Head(stream[s]).at <= Head(stream[r]).at
<1>1. PICK w \in Seq(Works) : w = stream[r]
  BY DEF RunInv, HostType
<1>2. PICK v \in Seq(Works) : v = stream[s]
  BY DEF RunInv, HostType
<1>3. /\ 1 \in DOMAIN w /\ Head(w) = w[1] /\ 1 \in DOMAIN v /\ Head(v) = v[1]
      /\ w[1].op = "barrier" /\ v[1].op = "barrier"
  BY <1>1, <1>2
<1>4. w[1].at \in Nat /\ \A i \in DOMAIN v : v[i].at \in Nat
  BY <1>3, Positions
<1>5. e < w[1].at + 1 /\ IsBarrier(r, w[1].at + 1)
  BY <1>1, <1>3 DEF BarriersRun
<1>6. IsBarrier(s, w[1].at + 1)
  BY <1>5, BarriersMatch DEF IsBarrier
<1>7. SUFFICES ASSUME w[1].at < v[1].at PROVE FALSE
  BY <1>1, <1>2, <1>3, <1>4
<1>8. /\ v[1].at + 1 <= EnteredNow(s) /\ EnteredNow(s) \in Nat
      /\ \A j \in DOMAIN v : 1 < j /\ v[j].op = "barrier" => v[1].at < v[j].at
  BY <1>2, <1>3, SMTT(20) DEF BarriersRun, RunInv, HostType, EnteredNow, Entered
<1>9. w[1].at + 1 <= EnteredNow(s)
  BY <1>3, <1>4, <1>7, <1>8
<1>10. PICK i \in DOMAIN v : v[i].op = "barrier" /\ v[i].at + 1 = w[1].at + 1
  <2>1. \A b \in Nat : IsBarrier(s, b) /\ e < b /\ b <= EnteredNow(s) =>
          \E i \in DOMAIN v : v[i].op = "barrier" /\ v[i].at + 1 = b
    BY <1>2 DEF BarriersRun
  <2>2. w[1].at + 1 \in Nat
    BY <1>4
  <2> QED
    BY <1>5, <1>6, <1>9, <2>1, <2>2
<1>11. v[i].at = w[1].at
  BY <1>4, <1>10
<1>12. i = 1 \/ 1 < i
  OBVIOUS
<1> QED
  BY <1>3, <1>4, <1>7, <1>8, <1>10, <1>11, <1>12

(* A rank that has finished a barrier has run it, and so has every other. *)
LEMMA BarrierInvHolds == RunInv /\ BarrierInv => BarrierHolds
<1> SUFFICES ASSUME RunInv, BarrierInv, ~(Dead /\ BarrierHolds), library # "stub",
                    NEW r \in Ranks, NEW s \in Ranks,
                    NEW b \in DOMAIN Program[r], Program[r][b] = "barrier", step[r] >= b
             PROVE  step[s] >= b \/ (step[s] = b - 1 /\ hpc[s] # "next")
  BY DEF BarrierHolds
<1>1. PICK e \in Nat : \A q \in Ranks : BarriersRun(q, stream[q], step[q], EnteredNow(q), e)
  BY DEF BarrierInv, EnteredNow
<1>2. b \in Nat /\ IsBarrier(r, b) /\ step[r] \in Nat /\ step[s] \in Nat
  BY HostAssumption DEF IsBarrier, RunInv, HostType
<1>3. b <= e
  BY <1>1, <1>2 DEF BarriersRun
<1>4. e <= EnteredNow(s)
  BY <1>1 DEF BarriersRun
<1>5. \/ EnteredNow(s) = step[s]
      \/ EnteredNow(s) = step[s] + 1 /\ hpc[s] # "next"
  BY DEF EnteredNow, Entered
<1> QED
  BY <1>2, <1>3, <1>4, <1>5

(* The ranks run the same barriers, one after the other. *)
LEMMA BarrierInvInductive == RunInv /\ BarrierInv /\ [Next]_vars => BarrierInv'
<1> SUFFICES ASSUME RunInv, BarrierInv, Next \/ UNCHANGED vars
             PROVE  BarrierInv'
  OBVIOUS
<1>1. UNCHANGED library
  BY DEF Next, vars, commVars, CommNext, InitMeets, CollectiveRuns, TransferRuns, comm_init_rank,
     InitFails, collective, barrier, comm_destroy
<1>2. CASE library = "stub"
  BY <1>1, <1>2 DEF BarrierInv
<1>4. CASE Dead /\ BarrierHolds
  <2>1. \A r \in Ranks : step'[r] = step[r] /\ hpc'[r] = "died" /\ stream'[r] = <<>>
    BY <1>4, DeadStays
  <2>2. Dead'
    BY <2>1 DEF Dead
  <2>3. BarrierHolds'
    BY <1>1, <1>4, <2>1 DEF BarrierHolds
  <2> QED
    BY <2>2, <2>3 DEF BarrierInv
<1>5. ASSUME NEW s \in Ranks, FallbackDies(s) PROVE BarrierInv'
  <2>1. \A r \in Ranks : step'[r] = step[r] /\ hpc'[r] = "died" /\ stream'[r] = <<>>
    BY <1>5 DEF FallbackDies
  <2>2. Dead'
    BY <2>1 DEF Dead
  <2>3. BarrierHolds'
    BY <1>1, <2>1, BarrierInvHolds DEF BarrierHolds
  <2> QED
    BY <2>2, <2>3 DEF BarrierInv
<1>3. CASE library # "stub" /\ ~(Dead /\ BarrierHolds) /\ \A s \in Ranks : ~FallbackDies(s)
  <2>1. PICK e \in Nat : \A r \in Ranks : BarriersRun(r, stream[r], step[r], EnteredNow(r), e)
    BY <1>3 DEF BarrierInv, EnteredNow
  <2>2. ASSUME NEW d \in Nat, \A r \in Ranks : BarriersRun(r, stream'[r], step'[r], EnteredNext(r), d)
        PROVE  BarrierInv'
    BY <2>2 DEF BarrierInv, EnteredNext
  <2>3. CASE BarrierRuns
    <3>1. CASE Ranks = {}
      BY <2>2, <3>1
    <3>2. CASE Ranks # {}
      <4>1. PICK s \in Ranks : TRUE
        BY <3>2
      <4>2. /\ UNCHANGED <<step, hpc>> /\ stream' = [r \in Ranks |-> Tail(stream[r])]
            /\ \A r \in Ranks : stream[r] # <<>> /\ Head(stream[r]).op = "barrier"
        BY <2>3 DEF BarrierRuns, CollectiveRuns
      <4>3. PICK d \in Nat : d = Head(stream[s]).at + 1
        <5>1. stream[s] \in Seq(Works) /\ stream[s] # <<>>
          BY <4>2 DEF RunInv, HostType
        <5>2. Head(stream[s]) = stream[s][1] /\ 1 \in DOMAIN stream[s]
          BY <5>1
        <5>3. Head(stream[s]).at \in Nat
          BY <5>1, <5>2, Positions
        <5> QED
          BY <5>3
      <4>4. ASSUME NEW r \in Ranks PROVE BarriersRun(r, stream'[r], step'[r], EnteredNext(r), d)
        <5>1. stream[r] \in Seq(Works) /\ step[r] \in Nat /\ EnteredNow(r) \in Nat
          BY DEF RunInv, HostType, EnteredNow, Entered
        <5>2. Head(stream[r]).at <= Head(stream[s]).at /\ Head(stream[s]).at <= Head(stream[r]).at
          BY <2>1, <4>2, SameBarrier
        <5>3. \A q \in Ranks : Head(stream[q]).at \in Nat
          <6> SUFFICES ASSUME NEW q \in Ranks PROVE Head(stream[q]).at \in Nat
            OBVIOUS
          <6>1. stream[q] \in Seq(Works) /\ stream[q] # <<>>
            BY <4>2 DEF RunInv, HostType
          <6>2. Head(stream[q]) = stream[q][1] /\ 1 \in DOMAIN stream[q]
            BY <6>1
          <6> QED
            BY <6>1, <6>2, Positions
        <5>4. Head(stream[r]).at + 1 = d
          BY <4>3, <5>2, <5>3
        <5>5. BarriersRun(r, Tail(stream[r]), step[r], EnteredNow(r), d)
          BY <2>1, <4>2, <5>1, <5>4, BarriersTail
        <5> QED
          BY <4>2, <5>5 DEF EnteredNow, EnteredNext
      <4> QED
        BY <2>2, <4>4
    <3> QED
      BY <3>1, <3>2
  <2>4. CASE Next /\ ~BarrierRuns
    BY <1>3, <2>1, <2>2, <2>4, RanksStep, RankStepKeeps
  <2>5. CASE UNCHANGED vars
    BY <2>1, <2>2, <2>5 DEF vars, hostVars, EnteredNow, EnteredNext
  <2> QED
    BY <2>3, <2>4, <2>5
<1> QED
  BY <1>2, <1>3, <1>4, <1>5

(* No rank comes out of barrier before every rank has gone into it, for    *)
(* any number of ranks and any programs whose barriers match.              *)
THEOREM BarriersAlwaysHold == Spec => []BarrierHolds
<1>1. Init => BarrierInv
  <2> SUFFICES ASSUME Init, NEW r \in Ranks
               PROVE  BarriersRun(r, stream[r], step[r], Entered(r, hpc[r], step[r]), 0)
    BY DEF BarrierInv
  <2>1. stream[r] = <<>> /\ step[r] = 0 /\ hpc[r] = "next"
    BY DEF Init, HostInit
  <2>2. \A b \in Nat : IsBarrier(r, b) => 0 < b
    BY HostAssumption DEF IsBarrier
  <2> QED
    BY <2>1, <2>2 DEF BarriersRun, Entered
<1> QED
  BY <1>1, BarrierInvHolds, BarrierInvInductive, RunInvariant, PTL DEF Spec

-----------------------------------------------------------------------------
(* Tensor-parallel layer: products *)

(* Other work joins the stream, or a reduction after the product. *)
LEMMA OrderedAppend ==
    ASSUME NEW r \in Ranks, NEW w \in Seq(Works), NEW p, NEW l, NEW n, Ordered(r, w, p, l, n),
           NEW x \in Works, x.op # "gemm", x.op = "allreduce" => Issued(r, l, n)
    PROVE  Ordered(r, Append(w, x), p, l, n)
<1>0. Append(w, x) \in Seq(Works)
  OBVIOUS
<1>1. PICK v \in Seq(Works) : v = Append(w, x)
  BY <1>0
<1>2. /\ DOMAIN v = 1 .. Len(w) + 1 /\ DOMAIN w = 1 .. Len(w) /\ Len(w) \in Nat
      /\ v[Len(w) + 1] = x /\ \A i \in 1 .. Len(w) : v[i] = w[i] /\ Len(v) = Len(w) + 1
  BY <1>1
<1>3. \A i : Before(w, p, i) => Before(v, p, i)
  BY <1>2 DEF Before
<1>4. Before(w, p, Len(w) + 1) => Before(v, p, Len(w) + 1) /\ Before(v, p, Len(v) + 1)
  <2>1. Len(v) = Len(w) + 1
    BY <1>1
  <2> QED
    BY <1>2, <2>1 DEF Before
<1> QED
  BY <1>1, <1>2, <1>3, <1>4 DEF Ordered

(* The product joins the stream. *)
LEMMA OrderedLaunch ==
    ASSUME NEW r \in Ranks, NEW w \in Seq(Works), NEW p, NEW l, NEW n, Ordered(r, w, p, l, n),
           ~Issued(r, l, n), NEW x \in Works, x.op = "gemm", x.by = r, NEW d, NEW t, NEW m
    PROVE  Ordered(r, Append(w, x), d, t, m)
<1>0. Append(w, x) \in Seq(Works)
  OBVIOUS
<1>1. PICK v \in Seq(Works) : v = Append(w, x)
  BY <1>0
<1>2. /\ DOMAIN v = 1 .. Len(w) + 1 /\ DOMAIN w = 1 .. Len(w) /\ Len(w) \in Nat
      /\ v[Len(w) + 1] = x /\ \A i \in 1 .. Len(w) : v[i] = w[i]
  BY <1>1
<1>3. Len(v) = Len(w) + 1
  BY <1>1
<1>4. Before(v, d, Len(v) + 1)
  BY <1>2, <1>3 DEF Before
<1> QED
  BY <1>1, <1>2, <1>4 DEF Ordered

(* The work at the head of the stream runs: other work, or the product. *)
LEMMA OrderedTail ==
    ASSUME NEW r \in Ranks, NEW w \in Seq(Works), w # <<>>, NEW p, NEW l, NEW n,
           Ordered(r, w, p, l, n)
    PROVE  /\ Head(w).op # "gemm" => Ordered(r, Tail(w), p, l, n)
           /\ Ordered(r, Tail(w), "done", l, n)
<1>0. Tail(w) \in Seq(Works)
  OBVIOUS
<1>1. PICK v \in Seq(Works) : v = Tail(w)
  BY <1>0
<1>2. /\ DOMAIN v = 1 .. Len(w) - 1 /\ DOMAIN w = 1 .. Len(w) /\ Len(w) \in Nat \ {0}
      /\ Head(w) = w[1] /\ \A i \in DOMAIN v : v[i] = w[i + 1]
  BY <1>1
<1>3. Len(v) = Len(w) - 1
  BY <1>1
<1>4. \A i \in DOMAIN v : i + 1 \in DOMAIN w /\ i \in Nat
  BY <1>2
<1>5. ASSUME w[1].op # "gemm" PROVE Ordered(r, v, p, l, n)
  <2>1. ASSUME NEW i \in Nat, Before(w, p, i + 1) PROVE Before(v, p, i)
    <3>1. CASE p = "done"
      BY <3>1 DEF Before
    <3>2. ASSUME NEW j \in DOMAIN w, j < i + 1, w[j].op = "gemm" PROVE Before(v, p, i)
      <4>1. j # 1
        BY <1>5, <3>2
      <4>2. j - 1 \in DOMAIN v /\ j - 1 < i
        BY <1>2, <3>2, <4>1
      <4>3. v[j - 1] = w[j]
        BY <1>2, <4>2
      <4> QED
        BY <3>2, <4>2, <4>3 DEF Before
    <3> QED
      BY <2>1, <3>1, <3>2 DEF Before
  <2>2. Issued(r, l, n) => Before(v, p, Len(v) + 1)
    <3>1. Len(v) + 1 \in Nat /\ Len(w) + 1 = (Len(v) + 1) + 1
      BY <1>2, <1>3
    <3> QED
      BY <2>1, <3>1 DEF Ordered
  <2> QED
    BY <1>2, <1>4, <2>1, <2>2 DEF Ordered
<1>6. Ordered(r, v, "done", l, n)
  <2>1. \A i : Before(v, "done", i)
    BY DEF Before
  <2> QED
    BY <1>2, <1>4, <2>1 DEF Ordered
<1> QED
  BY <1>1, <1>2, <1>5, <1>6

(* What a step may do to a rank: nothing to the product; run it; launch it *)
(* or compute it on the host.                                              *)
SameIssue(q) == IssuedNext(q) <=> IssuedNow(q)
NoProduct(q) ==
    /\ SameIssue(q) /\ product'[q] = product[q]
    /\ \/ stream'[q] = stream[q]
       \/ \E x \in Works : /\ x.op # "gemm" /\ (x.op = "allreduce" => IssuedNow(q))
                           /\ stream'[q] = Append(stream[q], x)
       \/ stream[q] # <<>> /\ Head(stream[q]).op # "gemm" /\ stream'[q] = Tail(stream[q])
Runs(q) ==
    SameIssue(q) /\ product'[q] = "done" /\ stream[q] # <<>> /\ stream'[q] = Tail(stream[q])
Launches(q) ==
    ~IssuedNow(q) /\ \E x \in Works : x.op = "gemm" /\ x.by = q /\ stream'[q] = Append(stream[q], x)
Computes(q) ==
    (IssuedNow(q) => IssuedNext(q)) /\ product'[q] = "done" /\ stream'[q] = stream[q]

(* Such a step keeps a rank's stream in order. *)
LEMMA OrderKept ==
    ASSUME NEW q \in Ranks, RunInv, Ordered(q, stream[q], product[q], hpc[q], step[q]),
           NoProduct(q) \/ Runs(q) \/ Launches(q) \/ Computes(q)
    PROVE  Ordered(q, stream'[q], product'[q], hpc'[q], step'[q])
<1>1. stream[q] \in Seq(Works)
  BY DEF RunInv, HostType
<1>2. ASSUME NEW v, NEW p, SameIssue(q), Ordered(q, v, p, hpc[q], step[q])
      PROVE  Ordered(q, v, p, hpc'[q], step'[q])
  BY <1>2 DEF Ordered, SameIssue, IssuedNow, IssuedNext
<1>3. CASE NoProduct(q)
  <2>1. Ordered(q, stream'[q], product[q], hpc[q], step[q])
    <3>1. CASE \E x \in Works : /\ x.op # "gemm" /\ (x.op = "allreduce" => IssuedNow(q))
                                /\ stream'[q] = Append(stream[q], x)
      BY <1>1, <3>1, OrderedAppend DEF IssuedNow
    <3>2. CASE stream[q] # <<>> /\ Head(stream[q]).op # "gemm" /\ stream'[q] = Tail(stream[q])
      BY <1>1, <3>2, OrderedTail
    <3> QED
      BY <1>3, <3>1, <3>2 DEF NoProduct
  <2> QED
    BY <1>2, <1>3, <2>1 DEF NoProduct
<1>4. CASE Runs(q)
  <2>1. Ordered(q, stream'[q], product'[q], hpc[q], step[q])
    BY <1>1, <1>4, OrderedTail DEF Runs
  <2> QED
    BY <1>2, <1>4, <2>1 DEF Runs
<1>5. CASE Launches(q)
  BY <1>1, <1>5, OrderedLaunch DEF Launches, IssuedNow
<1>6. CASE Computes(q)
  <2>1. \A i : Before(stream'[q], product'[q], i)
    BY <1>6 DEF Computes, Before
  <2> QED
    BY <1>6, <2>1 DEF Computes, Ordered, IssuedNow, IssuedNext
<1> QED
  BY <1>3, <1>4, <1>5, <1>6

(* When a thread's move launches the product, and when it does not. *)
LEMMA IssueMoves ==
    ASSUME NEW r \in Ranks, RunInv, NEW l, NEW n, Moved(r, l, n), step[r] < Len(Program[r])
    PROVE  /\ \A q \in Ranks \ {r} : SameIssue(q)
           /\ (/\ n = step[r] /\ hpc[r] # "release" /\ l # "release"
               /\ (hpc[r] = "free" \/ l = "free") => Current(r) # "gemm") => SameIssue(r)
           /\ n = step[r] + 1 /\ l = "next" /\ Current(r) # "gemm" => SameIssue(r)
           /\ n = step[r] + 1 /\ Current(r) = "gemm" => IssuedNext(r)
           /\ n = step[r] /\ l = "free" /\ Current(r) = "gemm" => IssuedNext(r)
<1> USE DEF SameIssue, IssuedNow, IssuedNext, Issued, Current
<1>1. step[r] \in Nat /\ step[r] + 1 \in DOMAIN Program[r] /\ hpc'[r] = l /\ step'[r] = n
  BY HostAssumption DEF RunInv, HostType, Moved
<1>2. \A q \in Ranks \ {r} : SameIssue(q)
  BY DEF Moved
<1>3. ASSUME n = step[r], hpc[r] # "release", l # "release",
             (hpc[r] = "free" \/ l = "free") => Current(r) # "gemm"
      PROVE  SameIssue(r)
  BY <1>1, <1>3
<1>4. ASSUME n = step[r] + 1, l = "next", Current(r) # "gemm" PROVE SameIssue(r)
  <2>1. hpc[r] # "release"
    BY <1>4 DEF RunInv, Placed, InGemm
  <2>2. \A g \in DOMAIN Program[r] : Program[r][g] = "gemm" => (g <= step[r] <=> g <= n)
    <3>1. \A g \in DOMAIN Program[r] : g \in Nat
      BY HostAssumption
    <3> QED
      BY <1>1, <1>4, <3>1
  <2> QED
    BY <1>1, <1>4, <2>1, <2>2
<1>5. ASSUME n = step[r] + 1, Current(r) = "gemm" PROVE IssuedNext(r)
  BY <1>1, <1>5
<1>6. ASSUME n = step[r], l = "free", Current(r) = "gemm" PROVE IssuedNext(r)
  BY <1>1, <1>6
<1> QED
  BY <1>2, <1>3, <1>4, <1>5, <1>6

(* A product is launched once. *)
LEMMA NotIssued ==
    ASSUME NEW r \in Ranks, RunInv, hpc[r] \in {"launch", "rocgemm"}
    PROVE  ~IssuedNow(r)
<1>1. step[r] \in Nat /\ step[r] + 1 \in DOMAIN Program[r] /\ Program[r][step[r] + 1] = "gemm"
  <2>1. step[r] \in Nat /\ step[r] < Len(Program[r]) /\ Program[r][step[r] + 1] = "gemm"
    BY DEF RunInv, HostType, Placed, Current, InGemm
  <2>2. Program[r] \in Seq(STRING)
    BY HostAssumption
  <2> QED
    BY <2>1, <2>2
<1>2. \A g \in 1 .. step[r] : Program[r][g] # "gemm"
  BY <1>1, LayerAssumption
<1>3. \A g \in DOMAIN Program[r] : g <= step[r] => g \in 1 .. step[r]
  BY <1>1, HostAssumption
<1> QED
  BY <1>2, <1>3 DEF IssuedNow, Issued

(* A step of rank r's thread that leaves its product alone. *)
LEMMA PlainProduct ==
    ASSUME NEW r \in Ranks, RunInv, NEW l, NEW n, Moved(r, l, n), step[r] < Len(Program[r]),
           SameIssue(r), UNCHANGED product,
           \/ UNCHANGED stream
           \/ \E x : /\ x \in Works /\ x.op # "gemm" /\ (x.op = "allreduce" => IssuedNow(r))
                     /\ stream' = [stream EXCEPT ![r] = Append(@, x)]
    PROVE  \A q \in Ranks : NoProduct(q)
<1>1. \A q \in Ranks : SameIssue(q)
  BY IssueMoves
<1>2. stream \in [Ranks -> Seq(Works)]
  BY DEF RunInv, HostType
<1> QED
  BY <1>1, <1>2 DEF NoProduct

(* What a step does with the products. *)
LEMMA ProductsStep ==
    ASSUME RunInv, ProductInv, Next, ~Dead, \A r \in Ranks : ~FallbackDies(r)
    PROVE  \A q \in Ranks : NoProduct(q) \/ Runs(q) \/ Launches(q) \/ Computes(q)
<1> USE DEF Places, InGemm
<1>0. HostType /\ \A r \in Ranks : Bound(r) /\ Ordered(r, stream[r], product[r], hpc[r], step[r])
  BY DEF RunInv, ProductInv
<1> DEFINE Fine(q) == NoProduct(q) \/ Runs(q) \/ Launches(q) \/ Computes(q)
<1> SUFFICES \A q \in Ranks : Fine(q)
  OBVIOUS
<1> HIDE DEF Fine
<1>1. CASE UNCHANGED <<step, hpc, stream, product>>
  BY <1>1 DEF Fine, NoProduct, SameIssue, IssuedNow, IssuedNext
<1>2. ASSUME NEW r \in Ranks, EnterGemm(r) \/ Create(r) \/ SetStream(r)
      PROVE  \A q \in Ranks : Fine(q)
  <2>1. step[r] < Len(Program[r]) /\ hpc[r] \notin {"release", "free"} /\ UNCHANGED <<stream, product>>
    BY <1>2 DEF RunInv, Placed, EnterGemm, Calls, Create, SetStream, gemmVars
  <2>2. PICK l \in Places \ {"release", "free"} : Goto(r, l) /\ UNCHANGED step
    BY <1>2 DEF EnterGemm, Create, SetStream, Throws
  <2>3. Moved(r, l, step[r])
    BY <1>0, <2>2, ThreadMoves
  <2>4. SameIssue(r)
    BY <2>1, <2>2, <2>3, IssueMoves
  <2> QED
    BY <2>1, <2>3, <2>4, PlainProduct DEF Fine
<1>3. ASSUME NEW r \in Ranks, Matmul(r) \/ RocGemm(r)
      PROVE  \A q \in Ranks : Fine(q)
  <2>1. step[r] < Len(Program[r]) /\ hpc[r] \in {"launch", "rocgemm"}
    BY <1>3 DEF RunInv, Placed, Matmul, RocGemm
  <2>2. CASE Goto(r, "threw") /\ UNCHANGED <<step, stream, product>>
    <3>1. Moved(r, "threw", step[r])
      BY <1>0, <2>2, ThreadMoves
    <3>2. SameIssue(r)
      BY <2>1, <3>1, IssueMoves
    <3> QED
      BY <2>1, <2>2, <3>1, <3>2, PlainProduct DEF Fine
  <2>3. ASSUME Enqueue(r, Work("gemm", r)), product' = [product EXCEPT ![r] = "pending"],
               NEW l, NEW n, Moved(r, l, n)
        PROVE  \A q \in Ranks : Fine(q)
    <3>1. Work("gemm", r) \in Works /\ Work("gemm", r).op = "gemm" /\ Work("gemm", r).by = r
      BY <1>0 DEF HostType, Work, Works, Kinds
    <3>2. /\ stream'[r] = Append(stream[r], Work("gemm", r))
          /\ \A q \in Ranks \ {r} : stream'[q] = stream[q] /\ product'[q] = product[q]
      BY <1>0, <2>3 DEF HostType, Enqueue
    <3>3. Launches(r)
      BY <2>1, <3>1, <3>2, NotIssued DEF Launches
    <3>4. \A q \in Ranks \ {r} : NoProduct(q)
      BY <2>1, <2>3, <3>2, IssueMoves DEF NoProduct
    <3> QED
      BY <3>3, <3>4 DEF Fine
  <2>4. CASE Matmul(r)
    <3>1. ASSUME Goto(r, "release"), UNCHANGED step PROVE Moved(r, "release", step[r])
      BY <1>0, <3>1, ThreadMoves
    <3> QED
      BY <2>2, <2>3, <2>4, <3>1 DEF Matmul, Throws
  <2>5. CASE RocGemm(r)
    <3>1. vendor.bound = r
      BY <1>0, <2>5 DEF Bound, RocGemm
    <3>2. ASSUME LeaveGemm(r), dtype = "fp32" PROVE Moved(r, "next", step[r] + 1)
      BY <1>0, <3>2, ThreadMoves DEF LeaveGemm
    <3> QED
      BY <2>2, <2>3, <2>5, <3>1, <3>2 DEF RocGemm, Throws
  <2> QED
    BY <1>3, <2>4, <2>5
<1>4. ASSUME NEW r \in Ranks, Release(r) PROVE \A q \in Ranks : Fine(q)
  <2>1. /\ step[r] < Len(Program[r]) /\ Current(r) = "gemm" /\ UNCHANGED <<stream, product>>
        /\ IssuedNow(r) /\ LeaveGemm(r)
    BY <1>4 DEF RunInv, Placed, Release, IssuedNow, Issued
  <2>2. CASE Goto(r, "free") /\ UNCHANGED step
    <3>1. Moved(r, "free", step[r])
      BY <1>0, <2>2, ThreadMoves
    <3>2. SameIssue(r)
      BY <2>1, <3>1, IssueMoves DEF SameIssue
    <3> QED
      BY <2>1, <3>1, <3>2, PlainProduct DEF Fine
  <2>3. CASE Return(r)
    <3>1. Moved(r, "next", step[r] + 1)
      BY <1>0, <2>3, ThreadMoves
    <3>2. SameIssue(r)
      BY <2>1, <3>1, IssueMoves DEF SameIssue
    <3> QED
      BY <2>1, <3>1, <3>2, PlainProduct DEF Fine
  <2> QED
    BY <2>1, <2>2, <2>3 DEF LeaveGemm
<1>5. ASSUME NEW r \in Ranks, Fallback(r) PROVE \A q \in Ranks : Fine(q)
  <2>1. dtype = "fp32" /\ step[r] < Len(Program[r]) /\ Current(r) = "gemm" /\ UNCHANGED stream
    BY <1>0, <1>5 DEF Bound, Fallback, ProductInv, RunInv, Placed
  <2>2. Return(r)
    BY <1>5, <2>1 DEF Fallback, LeaveGemm
  <2>3. Moved(r, "next", step[r] + 1)
    BY <1>0, <2>2, ThreadMoves
  <2>4. IssuedNext(r) /\ \A q \in Ranks \ {r} : SameIssue(q)
    BY <2>1, <2>3, IssueMoves
  <2>5. product'[r] = "done" /\ \A q \in Ranks \ {r} : product'[q] = product[q]
    BY <1>0, <1>5, <2>1 DEF HostType, Fallback
  <2> QED
    BY <2>1, <2>4, <2>5 DEF Fine, Computes, NoProduct
<1>6. ASSUME NEW s \in Ranks, GemmRuns(s) PROVE \A q \in Ranks : Fine(q)
  <2>1. stream[s] \in Seq(Works) /\ stream[s] # <<>> /\ Head(stream[s]).op = "gemm"
    BY <1>0, <1>6 DEF HostType, GemmRuns
  <2>2. Head(stream[s]) = stream[s][1] /\ 1 \in DOMAIN stream[s]
    BY <2>1
  <2>3. Head(stream[s]).by = s
    BY <1>0, <2>1, <2>2 DEF Ordered
  <2>4. /\ stream'[s] = Tail(stream[s]) /\ product'[s] = "done" /\ UNCHANGED <<step, hpc>>
        /\ \A q \in Ranks \ {s} : stream'[q] = stream[q] /\ product'[q] = product[q]
    BY <1>0, <1>6, <2>3 DEF HostType, GemmRuns
  <2>5. \A q \in Ranks : SameIssue(q)
    BY <2>4 DEF SameIssue, IssuedNow, IssuedNext
  <2> QED
    BY <2>1, <2>4, <2>5 DEF Fine, Runs, NoProduct
<1>7. ASSUME NEW r \in Ranks, DeviceFree(r) \/ Synchronize(r), UNCHANGED product
      PROVE  \A q \in Ranks : Fine(q)
  <2>1. step[r] < Len(Program[r]) /\ UNCHANGED stream
    BY <1>7 DEF RunInv, Placed, DeviceFree, Synchronize, Calls
  <2>2. Moved(r, "next", step[r] + 1)
    BY <1>0, <1>7, ThreadMoves DEF DeviceFree, Synchronize
  <2>3. CASE Current(r) = "gemm"
    <3>1. hpc[r] = "free"
      BY <1>7, <2>3 DEF RunInv, Placed, DeviceFree, Synchronize, Calls, Current, Ops
    <3>2. IssuedNow(r)
      BY <2>3, <3>1 DEF IssuedNow, Issued, Current
    <3>3. SameIssue(r)
      BY <2>1, <2>2, <2>3, <3>2, IssueMoves DEF SameIssue
    <3> QED
      BY <1>7, <2>1, <2>2, <3>3, PlainProduct DEF Fine
  <2>4. CASE Current(r) # "gemm"
    <3>1. SameIssue(r)
      BY <2>1, <2>2, <2>4, IssueMoves
    <3> QED
      BY <1>7, <2>1, <2>2, <3>1, PlainProduct DEF Fine
  <2> QED
    BY <2>3, <2>4
<1>8. ASSUME NEW r \in Ranks, UNCHANGED product, step[r] < Len(Program[r]), Current(r) # "gemm",
             hpc[r] # "release",
             (\E l \in Places \ {"release"} : Goto(r, l) /\ UNCHANGED step) \/ Return(r),
             \/ UNCHANGED stream
             \/ \E x : /\ x \in Works /\ x.op # "gemm" /\ (x.op = "allreduce" => IssuedNow(r))
                       /\ stream' = [stream EXCEPT ![r] = Append(@, x)]
      PROVE  \A q \in Ranks : Fine(q)
  <2>1. CASE \E l \in Places \ {"release"} : Goto(r, l) /\ UNCHANGED step
    <3>1. PICK l \in Places \ {"release"} : Moved(r, l, step[r])
      BY <1>0, <2>1, ThreadMoves
    <3>2. SameIssue(r)
      BY <1>8, <3>1, IssueMoves
    <3> QED
      BY <1>8, <3>1, <3>2, PlainProduct DEF Fine
  <2>2. CASE Return(r)
    <3>1. Moved(r, "next", step[r] + 1)
      BY <1>0, <2>2, ThreadMoves
    <3>2. SameIssue(r)
      BY <1>8, <3>1, IssueMoves
    <3> QED
      BY <1>8, <3>1, <3>2, PlainProduct DEF Fine
  <2> QED
    BY <1>8, <2>1, <2>2
<1>9. ASSUME NEW r \in Ranks, comm_init_rank(r) \/ InitFails(r) \/ comm_destroy(r), UNCHANGED product
      PROVE  \A q \in Ranks : Fine(q)
  <2>1. step[r] < Len(Program[r]) /\ Current(r) # "gemm" /\ UNCHANGED stream /\ hpc[r] # "release"
    BY <1>9 DEF RunInv, Placed, comm_init_rank, InitFails, comm_destroy, Calls, Current
  <2>2. (\E l \in Places \ {"release"} : Goto(r, l) /\ UNCHANGED step) \/ Return(r)
    BY <1>9 DEF comm_init_rank, InitFails, comm_destroy, Throws
  <2> QED
    BY <1>8, <1>9, <2>1, <2>2
<1>10. ASSUME NEW r \in Ranks, collective(r), UNCHANGED product
       PROVE  \A q \in Ranks : Fine(q)
  <2>1. PICK c \in Ops : /\ Calls(r, c)
                         /\ nccl_collective(r, c) \/ ccl_collective(r, c) \/ stub_collective(r)
    BY <1>10 DEF collective
  <2>2. /\ step[r] \in Nat /\ step[r] < Len(Program[r]) /\ Current(r) = c /\ c # "gemm"
        /\ hpc[r] # "release"
    BY <1>0, <2>1 DEF HostType, Calls, Current, Ops
  <2>3. (\E l \in Places \ {"release"} : Goto(r, l) /\ UNCHANGED step) \/ Return(r)
    BY <2>1 DEF nccl_collective, ccl_collective, stub_collective, Throws
  <2>4. UNCHANGED stream \/ Enqueue(r, Work(c, r))
    BY <2>1 DEF nccl_collective, ccl_collective, stub_collective
  <2>5. Work(c, r) \in Works /\ Work(c, r).op = c
    BY <1>0 DEF HostType, Work, Works, Kinds
  <2>6. c = "allreduce" => IssuedNow(r)
    <3> SUFFICES ASSUME c = "allreduce" PROVE IssuedNow(r)
      OBVIOUS
    <3>1. Program[r] \in Seq(STRING) /\ step[r] + 1 \in DOMAIN Program[r]
      <4>1. Program[r] \in Seq(STRING)
        BY HostAssumption
      <4> QED
        BY <2>2, <4>1
    <3>2. PICK g \in 1 .. step[r] : Program[r][g] = "gemm"
      BY <2>2, <3>1, LayerAssumption DEF Current
    <3>3. g \in DOMAIN Program[r] /\ g <= step[r]
      BY <2>2, <3>1
    <3> QED
      BY <3>2, <3>3 DEF IssuedNow, Issued
  <2> QED
    BY <1>8, <1>10, <2>2, <2>3, <2>4, <2>5, <2>6 DEF Enqueue
<1>11. ASSUME NEW r \in Ranks, barrier(r), UNCHANGED product
       PROVE  \A q \in Ranks : Fine(q)
  <2>1. step[r] < Len(Program[r]) /\ Current(r) # "gemm" /\ hpc[r] # "release"
    BY <1>11 DEF barrier, Calls, Current
  <2>2. (\E l \in Places \ {"release"} : Goto(r, l) /\ UNCHANGED step) \/ Return(r)
    BY <1>11 DEF barrier, Throws
  <2>3. UNCHANGED stream \/ Enqueue(r, Work("barrier", r))
    BY <1>11 DEF barrier
  <2>4. Work("barrier", r) \in Works /\ Work("barrier", r).op = "barrier"
    BY <1>0 DEF HostType, Work, Works, Kinds
  <2> QED
    BY <1>8, <1>11, <2>1, <2>2, <2>3, <2>4 DEF Enqueue
<1>12. CASE InitMeets /\ UNCHANGED product
  <2>1. ASSUME NEW q \in Ranks PROVE SameIssue(q)
    <3>1. /\ hpc[q] = "init" /\ hpc'[q] = "next" /\ step'[q] = step[q] + 1
          /\ Program[q][step[q] + 1] = "init" /\ step[q] \in Nat
      BY <1>0, <1>12 DEF RunInv, HostType, Placed, Current, InitMeets
    <3>2. \A g \in DOMAIN Program[q] : Program[q][g] = "gemm" => (g <= step[q] <=> g <= step[q] + 1)
      <4>1. \A g \in DOMAIN Program[q] : g \in Nat
        BY HostAssumption
      <4> QED
        BY <3>1, <4>1
    <3> QED
      BY <3>1, <3>2 DEF SameIssue, IssuedNow, IssuedNext, Issued
  <2> QED
    BY <1>12, <2>1 DEF Fine, NoProduct, InitMeets
<1>13. CASE (CollectiveRuns \/ TransferRuns) /\ UNCHANGED product
  <2>1. UNCHANGED <<step, hpc>>
    BY <1>13 DEF CollectiveRuns, TransferRuns
  <2>2. \A q \in Ranks : SameIssue(q)
    BY <2>1 DEF SameIssue, IssuedNow, IssuedNext
  <2>3. \A q \in Ranks : \/ stream'[q] = stream[q]
                         \/ /\ stream[q] # <<>> /\ Head(stream[q]).op # "gemm"
                            /\ stream'[q] = Tail(stream[q])
    <3>1. CASE CollectiveRuns
      BY <3>1 DEF CollectiveRuns, Ops
    <3>2. CASE TransferRuns
      <4>1. PICK r, s \in Ranks : /\ stream[r] # <<>> /\ stream[s] # <<>>
                                  /\ stream' = [stream EXCEPT ![r] = Tail(@), ![s] = Tail(@)]
                                  /\ Head(stream[r]).op = "send" /\ Head(stream[s]).op = "recv"
        BY <3>2 DEF TransferRuns
      <4>2. r # s
        BY <4>1
      <4>3. /\ stream'[r] = Tail(stream[r]) /\ stream'[s] = Tail(stream[s])
            /\ \A q \in Ranks \ {r, s} : stream'[q] = stream[q]
        BY <1>0, <4>1, <4>2 DEF HostType
      <4> QED
        BY <4>1, <4>3
    <3> QED
      BY <1>13, <3>1, <3>2
  <2> QED
    BY <1>13, <2>2, <2>3 DEF Fine, NoProduct
<1>14. CASE GemmNext
  BY <1>14, <1>1, <1>2, <1>3, <1>4, <1>5, <1>6, <1>7
     DEF GemmNext, set_workspace, Destruct, Construct, hostVars, gemmVars
<1>15. CASE CommNext /\ UNCHANGED gemmVars
  BY <1>15, <1>9, <1>10, <1>11, <1>12, <1>13 DEF CommNext, gemmVars
<1> QED
  BY <1>14, <1>15 DEF Next

(* What a step does to the shared instance: SetStream binds the handle, no *)
(* other step does.                                                        *)
LEMMA VendorMoves ==
    ASSUME VendorType, [Next]_vars
    PROVE  /\ VendorType' /\ backend' = backend /\ dtype' = dtype
           /\ \/ vendor'.bound = vendor.bound
              \/ \E r \in Ranks : SetStream(r) /\ vendor'.bound = r
<1> USE DEF VendorType
<1>1. CASE UNCHANGED <<vendor, backend, dtype>>
  BY <1>1
<1>2. CASE set_workspace \/ Destruct \/ \E r \in Ranks : Construct(r)
  <2>1. /\ UNCHANGED <<backend, dtype>>
        /\ \E a \in BOOLEAN, w \in {"none", "own", "caller", "freed"} :
             vendor' = [vendor EXCEPT !.alive = a, !.ws = w]
    <3>1. CASE set_workspace
      <4>1. vendor' = [vendor EXCEPT !.alive = vendor.alive, !.ws = "caller"]
        BY <3>1 DEF set_workspace
      <4> QED
        BY <3>1, <4>1 DEF set_workspace
    <3>2. CASE Destruct
      BY <3>2 DEF Destruct
    <3>3. CASE \E r \in Ranks : Construct(r)
      BY <3>3 DEF Construct
    <3> QED
      BY <1>2, <3>1, <3>2, <3>3
  <2> QED
    BY <2>1
<1>3. ASSUME NEW r \in Ranks, SetStream(r)
      PROVE  /\ VendorType' /\ backend' = backend /\ dtype' = dtype
             /\ vendor'.bound \in {r, vendor.bound}
  BY <1>3 DEF SetStream
<1>4. CASE GemmNext
  BY <1>4, <1>1, <1>2, <1>3 DEF GemmNext, EnterGemm, Create, Matmul, Release, RocGemm, Fallback,
     FallbackDies, GemmRuns, gemmVars
<1>5. CASE UNCHANGED gemmVars
  BY <1>1, <1>5 DEF gemmVars
<1> QED
  BY <1>4, <1>5 DEF Next, vars

(* A thread gets into gemm by EnterGemm, to rocblas_gemm_ex by SetStream,  *)
(* to the host's loop with the fallback, and in no other way.              *)
LEMMA PlacesReached ==
    ASSUME RunInv, [Next]_vars, backend \in {"cublas", "rocblas", "fallback"}, NEW q \in Ranks
    PROVE  /\ hpc'[q] = "rocgemm" /\ hpc[q] # "rocgemm" => SetStream(q)
           /\ hpc'[q] = "host" /\ hpc[q] # "host" => backend = "fallback"
           /\ hpc'[q] \in InGemm /\ hpc[q] \notin InGemm => EnterGemm(q)
<1>0. HostType
  BY DEF RunInv
<1> DEFINE Reached == /\ hpc'[q] = "rocgemm" /\ hpc[q] # "rocgemm" => SetStream(q)
                      /\ hpc'[q] = "host" /\ hpc[q] # "host" => backend = "fallback"
                      /\ hpc'[q] \in InGemm /\ hpc[q] \notin InGemm => EnterGemm(q)
<1> SUFFICES Reached
  OBVIOUS
<1>1. CASE UNCHANGED hpc
  BY <1>1
<1>2. ASSUME NEW r \in Ranks, NEW l \in Places, Goto(r, l),
             l = "rocgemm" => SetStream(r), l = "host" => backend = "fallback",
             l \in InGemm => EnterGemm(r) \/ hpc[r] \in InGemm
      PROVE  Reached
  BY <1>0, <1>2 DEF HostType, Goto
<1> HIDE DEF Reached
<1> USE DEF Places, InGemm
<1>3. ASSUME NEW r \in Ranks, EnterGemm(r)
      PROVE  \E l \in Places : Goto(r, l) /\ l # "rocgemm" /\ (l = "host" => backend = "fallback")
  BY <1>3 DEF EnterGemm
<1>4. ASSUME NEW r \in Ranks, \/ Create(r) \/ Matmul(r) \/ Release(r) \/ RocGemm(r) \/ Fallback(r)
                              \/ DeviceFree(r) \/ Synchronize(r)
      PROVE  \E l \in Places : /\ Goto(r, l) /\ l # "rocgemm" /\ l # "host"
                               /\ l \in InGemm => hpc[r] \in InGemm
  <2>1. CASE Create(r) \/ Matmul(r)
    BY <2>1 DEF Create, Matmul, Throws
  <2>2. CASE Release(r) \/ Fallback(r)
    BY <2>2 DEF Release, Fallback, LeaveGemm, Return
  <2>3. CASE RocGemm(r)
    BY <2>3 DEF RocGemm, LeaveGemm, Return, Throws
  <2>4. CASE DeviceFree(r) \/ Synchronize(r)
    BY <2>4 DEF DeviceFree, Synchronize, Return
  <2> QED
    BY <1>4, <2>1, <2>2, <2>3, <2>4
<1>5. ASSUME NEW r \in Ranks, \/ comm_init_rank(r) \/ InitFails(r) \/ collective(r)
                              \/ barrier(r) \/ comm_destroy(r)
      PROVE  \E l \in Places \ InGemm : Goto(r, l)
  <2>1. CASE comm_init_rank(r) \/ InitFails(r)
    BY <2>1 DEF comm_init_rank, InitFails, Return, Throws
  <2>2. CASE collective(r)
    BY <2>2 DEF collective, nccl_collective, ccl_collective, stub_collective, Return, Throws
  <2>3. CASE barrier(r)
    BY <2>3 DEF barrier, Return, Throws
  <2>4. CASE comm_destroy(r)
    BY <2>4 DEF comm_destroy, Return, Throws
  <2> QED
    BY <1>5, <2>1, <2>2, <2>3, <2>4
<1>6. ASSUME NEW r \in Ranks, SetStream(r)
      PROVE  /\ hpc[r] \in InGemm
             /\ Goto(r, "rocgemm") \/ Goto(r, "threw")
             /\ {"rocgemm", "threw"} \subseteq Places
  BY <1>6 DEF SetStream, Throws
<1>7. CASE GemmNext
  <2>1. CASE set_workspace \/ Destruct \/ \E r \in Ranks : Construct(r) \/ GemmRuns(r)
    BY <1>1, <2>1 DEF set_workspace, Destruct, Construct, GemmRuns, hostVars
  <2>2. ASSUME NEW r \in Ranks, FallbackDies(r) PROVE Reached
    BY <2>2 DEF FallbackDies, Reached
  <2>3. ASSUME NEW r \in Ranks, SetStream(r) PROVE Reached
    BY <1>2, <1>6, <2>3
  <2>4. ASSUME NEW r \in Ranks, EnterGemm(r) PROVE Reached
    BY <1>2, <1>3, <2>4
  <2> HIDE DEF Places, InGemm
  <2>5. ASSUME NEW r \in Ranks, \/ Create(r) \/ Matmul(r) \/ Release(r) \/ RocGemm(r) \/ Fallback(r)
                                \/ DeviceFree(r) \/ Synchronize(r)
        PROVE  Reached
    BY <1>2, <1>4, <2>5
  <2> QED
    BY <1>7, <2>1, <2>2, <2>3, <2>4, <2>5 DEF GemmNext
<1>8. CASE CommNext
  <2>1. CASE CollectiveRuns \/ TransferRuns
    BY <1>1, <2>1 DEF CollectiveRuns, TransferRuns
  <2>2. CASE InitMeets
    BY <2>2 DEF InitMeets, Reached
  <2>3. {"rocgemm", "host"} \subseteq InGemm
    OBVIOUS
  <2> HIDE DEF Places, InGemm
  <2>4. ASSUME NEW r \in Ranks, \/ comm_init_rank(r) \/ InitFails(r) \/ collective(r)
                                \/ barrier(r) \/ comm_destroy(r)
        PROVE  Reached
    BY <1>2, <1>5, <2>3, <2>4
  <2> QED
    BY <1>8, <2>1, <2>2, <2>4 DEF CommNext
<1> QED
  BY <1>1, <1>7, <1>8 DEF Next, vars, hostVars

(* Callers that take turns go on doing so. *)
LEMMA TurnsKept ==
    ASSUME Serialised, RunInv, Turns, [Next]_vars, backend \in {"cublas", "rocblas", "fallback"}
    PROVE  Turns'
<1> SUFFICES ASSUME NEW r \in Ranks, NEW s \in Ranks, hpc'[r] \in InGemm, hpc'[s] \in InGemm, r # s
             PROVE  FALSE
  BY DEF Turns
<1>1. ASSUME NEW p \in Ranks, NEW q \in Ranks, hpc'[p] \in InGemm, hpc'[q] \in InGemm, p # q,
             hpc[p] \notin InGemm
      PROVE  FALSE
  <2>1. EnterGemm(p)
    BY <1>1, PlacesReached
  <2>2. hpc[q] \notin InGemm /\ \E l : Goto(p, l)
    BY <2>1 DEF EnterGemm
  <2>3. hpc'[q] = hpc[q]
    BY <1>1, <2>2 DEF Goto, RunInv, HostType
  <2> QED
    BY <1>1, <2>2, <2>3
<1> QED
  BY <1>1 DEF Turns

(* Products stay in front of their reductions. *)
LEMMA ProductInvInductive ==
    ASSUME Serialised
    PROVE  RunInv /\ ProductInv /\ [Next]_vars => ProductInv'
<1> SUFFICES ASSUME RunInv, ProductInv, [Next]_vars
             PROVE  ProductInv'
  OBVIOUS
<1>1. /\ VendorType' /\ dtype' = dtype /\ backend' = backend
      /\ dtype \in {"fp32", "fp8"} /\ backend \in {"cublas", "rocblas", "fallback"}
      /\ backend = "fallback" => dtype = "fp32"
  BY VendorMoves DEF ProductInv
<1>2. Turns'
  BY <1>1, TurnsKept DEF ProductInv
<1>3. CASE Dead
  <2>1. Dead'
    BY <1>3, DeadStays DEF Dead
  <2> QED
    BY <1>1, <1>2, <2>1 DEF ProductInv
<1>4. ASSUME NEW s \in Ranks, FallbackDies(s) PROVE ProductInv'
  <2>1. Dead'
    BY <1>4 DEF FallbackDies, Dead
  <2> QED
    BY <1>1, <1>2, <2>1 DEF ProductInv
<1>5. CASE ~Dead /\ \A s \in Ranks : ~FallbackDies(s)
  <2> SUFFICES ASSUME NEW q \in Ranks
               PROVE  Bound(q)' /\ Ordered(q, stream'[q], product'[q], hpc'[q], step'[q])
    BY <1>1, <1>2 DEF ProductInv
  <2>1. Bound(q) /\ Ordered(q, stream[q], product[q], hpc[q], step[q])
    BY <1>5 DEF ProductInv
  <2>2. ASSUME hpc'[q] = "host" PROVE backend = "fallback"
    BY <1>1, <2>1, <2>2, PlacesReached DEF Bound
  <2>3. ASSUME hpc'[q] = "rocgemm" PROVE vendor'.bound = q
    <3>1. CASE hpc[q] # "rocgemm"
      <4>1. SetStream(q)
        BY <1>1, <2>3, <3>1, PlacesReached
      <4>2. ~Goto(q, "threw")
        BY <2>3 DEF Goto, RunInv, HostType
      <4> QED
        BY <4>1, <4>2 DEF SetStream, Throws, ProductInv, VendorType
    <3>2. CASE hpc[q] = "rocgemm"
      <4>1. ASSUME NEW r \in Ranks, SetStream(r) PROVE r = q
        BY <3>2, <4>1 DEF SetStream, ProductInv, Turns, InGemm
      <4>2. vendor'.bound = vendor.bound \/ \E r \in Ranks : SetStream(r) /\ vendor'.bound = r
        BY VendorMoves DEF ProductInv
      <4> QED
        BY <2>1, <3>2, <4>1, <4>2 DEF Bound
    <3> QED
      BY <3>1, <3>2
  <2>4. Bound(q)'
    BY <1>1, <2>2, <2>3 DEF Bound
  <2>5. CASE Next
    BY <1>5, <2>1, <2>4, <2>5, ProductsStep, OrderKept
  <2>6. CASE UNCHANGED vars
    BY <2>1, <2>4, <2>6 DEF vars, hostVars, gemmVars
  <2> QED
    BY <2>5, <2>6
<1> QED
  BY <1>3, <1>4, <1>5

(* What a rank reduces is its own product, computed: if callers take turns *)
(* in gemm (the singleton's rocBLAS handle is bound to a stream by one     *)
(* call and used by the next) and no type is asked for that the fallback   *)
(* skips; for any number of ranks and any programs with one product in     *)
(* front of their reductions (LayerAssumption).                            *)
THEOREM ReductionsFollowProducts ==
    ASSUME Serialised, Unsupported \notin Setups
    PROVE  Spec => ReducesOwnProduct
<1>1. Init => ProductInv
  <2> SUFFICES ASSUME Init PROVE ProductInv
    OBVIOUS
  <2>1. PICK setup \in Setups : backend = setup[1] /\ dtype = setup[2]
    BY DEF Init, GemmInit
  <2>2. setup \in {"cublas", "rocblas", "fallback"} \X {"fp32", "fp8"}
    BY GemmAssumption
  <2>3. /\ dtype \in {"fp32", "fp8"} /\ backend \in {"cublas", "rocblas", "fallback"}
        /\ backend = "fallback" => dtype = "fp32"
    BY <2>1, <2>2 DEF Unsupported
  <2>4. VendorType
    BY DEF Init, GemmInit, VendorType
  <2>5. ASSUME NEW r \in Ranks
        PROVE  /\ Bound(r) /\ Ordered(r, stream[r], product[r], hpc[r], step[r])
               /\ hpc[r] \notin InGemm
    <3>1. stream[r] = <<>> /\ step[r] = 0 /\ hpc[r] = "next"
      BY DEF Init, HostInit
    <3>2. \A g \in DOMAIN Program[r] : ~(g <= 0)
      BY HostAssumption
    <3> QED
      BY <3>1, <3>2 DEF Bound, Ordered, Issued, InGemm
  <2> QED
    BY <2>3, <2>4, <2>5 DEF ProductInv, Turns
<1>2. RunInv /\ ProductInv =>
        ((CollectiveRuns /\ \A r \in Ranks : Head(stream[r]).op = "allreduce")
           => \A r \in Ranks : product[r] = "done")
  <2> SUFFICES ASSUME RunInv, ProductInv, CollectiveRuns, NEW r \in Ranks,
                      Head(stream[r]).op = "allreduce"
               PROVE  product[r] = "done"
    OBVIOUS
  <2>1. stream[r] \in Seq(Works) /\ stream[r] # <<>>
    BY DEF RunInv, HostType, CollectiveRuns
  <2>2. Head(stream[r]) = stream[r][1] /\ 1 \in DOMAIN stream[r] /\ \A j \in DOMAIN stream[r] : ~(j < 1)
    BY <2>1
  <2>3. Before(stream[r], product[r], 1)
    BY <2>1, <2>2 DEF ProductInv, Ordered, Dead
  <2> QED
    BY <2>2, <2>3 DEF Before
<1> QED
  BY <1>1, <1>2, ProductInvInductive, RunInvariant, PTL DEF Spec, ReducesOwnProduct

=============================================================================
