---------------------------- MODULE MatmulKernels ----------------------------
(***************************************************************************)
(* The matrix-product kernels of kernels/matmul.cuh, kernels/matmul.cu and *)
(* kernels/matmul_sycl.cpp and the functions that launch them.             *)
(*                                                                         *)
(* A launch is a grid of blocks.  The threads of a block share tiles of A  *)
(* and B and meet at barriers; blocks share only the output C, where no    *)
(* two have an element in common (GemmExact would show it), so one block   *)
(* runs after the other.  What a thread does between two barriers is one   *)
(* action.  Threads wait for each other nowhere else: lanes of a warp are  *)
(* not assumed to run in step.                                             *)
(*                                                                         *)
(* Data is where it comes from: an element of A or B is its address, 0.0f  *)
(* is Zero, an accumulator is the sequence of the products added to it,    *)
(* those with a factor 0.0f left out.                                      *)
(*                                                                         *)
(* Sizes are in units of the smallest tile: a 16x16x16 tile of the FP32    *)
(* table is 1x1x1, its limit of 1024 threads is 4; the 16x16x16 WMMA tile  *)
(* is 2x2x2, and so is the 8x16x16 XMX tile.                               *)
(***************************************************************************)
EXTENDS Integers, Sequences, FiniteSets, SequencesExt

VARIABLES
    job,     \* the launch: kernel, problem size, tile size, threads per block
    block,   \* blockIdx of the running block; the number of blocks at the end
    pc,      \* per thread: the next phase
    kb,      \* per thread: the loop variable
    sA, sB,  \* the shared tiles of A and B, functions of the flat index
    sC,      \* the shared output tile of the WMMA kernels
    acc,     \* the accumulator of every element of the block's output tile
    C        \* the output matrix in global memory

gemmVars == <<job, block, pc, kb, sA, sB, sC, acc, C>>

Zero   == <<>>
Unset  == <<-1>>   \* never written: what such memory holds is anyone's guess
NoSum  == << <<Unset, Unset>> >>   \* the same for memory that holds sums

(* A launch call that throws launches this. *)
Throw == [kernel |-> "throw", M |-> 0, N |-> 0, K |-> 0,
          BM |-> 1, BN |-> 1, BK |-> 1, T |-> 1]

CeilDiv(a, b) == (a + b - 1) \div b

-----------------------------------------------------------------------------
(* Launching *)

Launch(kernel, M, N, K, BM, BN, BK, T) ==
    [kernel |-> kernel, M |-> M, N |-> N, K |-> K, BM |-> BM, BN |-> BN, BK |-> BK, T |-> T]

(* The tile configurations DISPATCH_FP32 is expanded for. *)
FP32Configs == {<<1, 1, 1>>, <<2, 1, 1>>, <<2, 2, 1>>, <<2, 2, 2>>}

launch_matmul(cfg, M, N, K) ==
    IF cfg \in FP32Configs
    THEN Launch("fp32", M, N, K, cfg[1], cfg[2], cfg[3], cfg[1] * cfg[2])
    ELSE Throw

(* One warp per block for the 256 elements of a tile.  The HIP kernel is   *)
(* the CUDA one with 64 lanes for 32.                                      *)
launch_matmul_bf16_cuda(M, N, K) == Launch("wmma", M, N, K, 2, 2, 2, 2)
launch_matmul_bf16_hip(M, N, K) == Launch("wmma", M, N, K, 2, 2, 2, 4)

(* The fallback without XMX; an nd_range whose local range does not divide *)
(* the global one makes the SYCL runtime throw.                            *)
gemm_tiled_sycl(M, N, K) ==
    IF M % 2 = 0 /\ N % 2 = 0 THEN Launch("fp32", M, N, K, 2, 2, 2, 4) ELSE Throw

gemm_xmx_bf16(M, N, K) ==
    IF M % 2 = 0 /\ N % 2 = 0 /\ K % 2 = 0 THEN Launch("xmx", M, N, K, 2, 2, 2, 1) ELSE Throw

(* A configuration whose warm-up throws is skipped. *)
FP32WarmsUp(c) == launch_matmul(c, 1, 1, 1) # Throw

(* The mean time of a kernel, if the device starts it: nobody asks for the *)
(* error of a launch, so one that fails is timed as well, and takes none.  *)
Measured(c, starts, ms) == IF starts[c] THEN ms[c] ELSE 0

Forever == 9   \* 1e18 ms

(* The grid search. *)
autotune_matmul(starts, ms) ==
    LET space == << <<1, 1, 1>>, <<2, 1, 1>>, <<2, 2, 1>>, <<2, 2, 2>> >>
        best[i \in 0 .. 4] ==
          IF i = 0 THEN [cfg |-> <<0, 0, 0>>, ms |-> Forever]
          ELSE LET c == space[i]
                   t == Measured(c, starts, ms)
               IN  IF FP32WarmsUp(c) /\ t < best[i - 1].ms THEN [cfg |-> c, ms |-> t]
                   ELSE best[i - 1]
    IN  best[4].cfg

-----------------------------------------------------------------------------
(* Geometry *)

GridX == CeilDiv(job.N, job.BN)
Blocks == GridX * CeilDiv(job.M, job.BM)
By == block \div GridX
Bx == block % GridX
Threads == 0 .. job.T - 1
Cells == 0 .. job.BM * job.BN - 1   \* the output tile, row by row

Row(i) == By * job.BM + i \div job.BN
Col(i) == Bx * job.BN + (i % job.BN)

(* What the loads put into element i of a tile at loop variable k. *)
TileA(i, k) ==
    LET a_row == By * job.BM + i \div job.BK
        a_col == k + (i % job.BK)
    IN  IF a_row < job.M /\ a_col < job.K THEN <<a_row * job.K + a_col>> ELSE Zero
TileB(i, k) ==
    LET b_row == k + i \div job.BN
        b_col == Bx * job.BN + (i % job.BN)
    IN  IF b_row < job.K /\ b_col < job.N THEN <<b_row * job.N + b_col>> ELSE Zero

(* The output elements a thread accumulates: its own one in the FP32       *)
(* kernel, its share of the fragment in the WMMA kernels, which need not   *)
(* be the elements it stores.                                              *)
Fragment(t) == {i \in Cells : (i * job.T) \div (job.BM * job.BN) = t}

(* The sums of element i's loop over the columns of a tile, which starts   *)
(* from the accumulator a; A and B are functions of the flat index.        *)
Sums(a, i, A, B) ==
    LET sum[k \in 0 .. job.BK] ==
          IF k = 0 THEN a
          ELSE LET x == A[(i \div job.BN) * job.BK + k - 1]
                   y == B[(k - 1) * job.BN + (i % job.BN)]
               IN  IF Zero \in {x, y} THEN sum[k - 1] ELSE Append(sum[k - 1], <<x, y>>)
    IN  sum

Accumulated(a, i, A, B) == Sums(a, i, A, B)[job.BK]

(* The address of element i in C. *)
Addr(i) == Row(i) * job.N + Col(i)

(* C with the elements of cells written from val. *)
WriteC(cells, val) ==
    [e \in DOMAIN C |-> IF \E i \in cells : Addr(i) = e
                        THEN val[CHOOSE i \in cells : Addr(i) = e] ELSE C[e]]

InRange(i) == Row(i) < job.M /\ Col(i) < job.N

LoopHead(k) == IF k < job.K THEN "load" ELSE "store"

-----------------------------------------------------------------------------
(* Blocks *)

(* The state a block of launch j starts in; shared memory is not cleared. *)
BlockStart(j) ==
    [pc  |-> [t \in 0 .. j.T - 1 |-> IF j.K > 0 THEN "load" ELSE "store"],
     kb  |-> [t \in 0 .. j.T - 1 |-> 0],
     sA  |-> [i \in 0 .. j.BM * j.BK - 1 |-> Unset],
     sB  |-> [i \in 0 .. j.BK * j.BN - 1 |-> Unset],
     sC  |-> [i \in 0 .. j.BM * j.BN - 1 |-> NoSum],
     acc |-> [i \in 0 .. j.BM * j.BN - 1 |-> <<>>]]

EnterBlock(j) ==
    LET s == BlockStart(j)
    IN  /\ pc' = s.pc /\ kb' = s.kb /\ acc' = s.acc
        /\ sA' = s.sA /\ sB' = s.sB /\ sC' = s.sC

StartGrid(j) ==
    /\ job' = j
    /\ block' = 0
    /\ C' = [e \in 0 .. j.M * j.N - 1 |-> NoSum]
    /\ EnterBlock(j)

NextBlock ==
    /\ \A t \in Threads : pc[t] = "done"
    /\ block' = block + 1
    /\ EnterBlock(job)
    /\ UNCHANGED <<job, C>>

GemmInit ==
    /\ job = Throw
    /\ block = 0
    /\ C = <<>>
    /\ LET s == BlockStart(Throw)
       IN  /\ pc = s.pc /\ kb = s.kb /\ acc = s.acc
           /\ sA = s.sA /\ sB = s.sB /\ sC = s.sC

-----------------------------------------------------------------------------
(* Threads *)

Goto(t, l) == pc' = [pc EXCEPT ![t] = l]

(* The cooperative load: thread t fills every T-th element of both tiles.  *)
Load(t) ==
    /\ pc[t] = "load" /\ job.kernel # "xmx"
    /\ sA' = [i \in DOMAIN sA |-> IF i % job.T = t THEN TileA(i, kb[t]) ELSE sA[i]]
    /\ sB' = [i \in DOMAIN sB |-> IF i % job.T = t THEN TileB(i, kb[t]) ELSE sB[i]]
    /\ Goto(t, "sync1")
    /\ UNCHANGED <<job, block, kb, sC, acc, C>>

(* Mutant: no barrier after the products. *)
AccumulateNoSync(t) ==
    /\ pc[t] = "mma"
    /\ acc' = [i \in Cells |-> IF i \in Fragment(t)
                               THEN Accumulated(acc[i], i, sA, sB) ELSE acc[i]]
    /\ kb' = [kb EXCEPT ![t] = @ + job.BK]
    /\ Goto(t, LoopHead(kb'[t]))
    /\ UNCHANGED <<job, block, sA, sB, sC, C>>

Accumulate(t) ==
    /\ pc[t] = "mma"
    /\ acc' = [i \in Cells |-> IF i \in Fragment(t)
                               THEN Accumulated(acc[i], i, sA, sB) ELSE acc[i]]
    /\ Goto(t, "sync2")
    /\ UNCHANGED <<job, block, kb, sA, sB, sC, C>>

(* The XMX kernel has no shared memory: tiles are loaded from global       *)
(* memory without a bounds check.                                          *)
JointMad(t) ==
    /\ pc[t] = "load" /\ job.kernel = "xmx"
    /\ LET A == [i \in DOMAIN sA |->
                    <<(By * job.BM + i \div job.BK) * job.K + kb[t] + (i % job.BK)>>]
           B == [i \in DOMAIN sB |->
                    <<(kb[t] + i \div job.BN) * job.N + Bx * job.BN + (i % job.BN)>>]
       IN  acc' = [i \in Cells |-> Accumulated(acc[i], i, A, B)]
    /\ kb' = [kb EXCEPT ![t] = @ + job.BK]
    /\ Goto(t, LoopHead(kb'[t]))
    /\ UNCHANGED <<job, block, sA, sB, sC, C>>

(* __syncthreads: released when all threads that have not returned wait at *)
(* it, whichever of its places in the code each of them is at.             *)
Sync ==
    LET live == {t \in Threads : pc[t] # "done"}
    IN  /\ live # {}
        /\ \A t \in live : pc[t] \in {"sync1", "sync2", "sync3"}
        /\ kb' = [t \in Threads |-> IF pc[t] = "sync2" THEN kb[t] + job.BK ELSE kb[t]]
        /\ pc' = [t \in Threads |-> CASE pc[t] = "sync1" -> "mma"
                                      [] pc[t] = "sync2" -> LoopHead(kb'[t])
                                      [] pc[t] = "sync3" -> "scatter"
                                      [] OTHER -> pc[t]]
        /\ UNCHANGED <<job, block, sA, sB, sC, acc, C>>

StoreFP32(t) ==
    /\ pc[t] = "store" /\ job.kernel = "fp32"
    /\ C' = WriteC({i \in Fragment(t) : InRange(i)}, acc)
    /\ Goto(t, "done")
    /\ UNCHANGED <<job, block, kb, sA, sB, sC, acc>>

StoreXmx(t) ==
    /\ pc[t] = "store" /\ job.kernel = "xmx"
    /\ C' = WriteC(Cells, acc)
    /\ Goto(t, "done")
    /\ UNCHANGED <<job, block, kb, sA, sB, sC, acc>>

(* store_matrix_sync, then a barrier.  (The test around it, whether the    *)
(* tile begins inside C, is true of every block of the grid.)              *)
StoreFragment(t) ==
    /\ pc[t] = "store" /\ job.kernel = "wmma"
    /\ sC' = [i \in Cells |-> IF i \in Fragment(t) THEN acc[i] ELSE sC[i]]
    /\ Goto(t, "sync3")
    /\ UNCHANGED <<job, block, kb, sA, sB, acc, C>>

Scatter(t) ==
    /\ pc[t] = "scatter"
    /\ C' = WriteC({i \in Cells : i % job.T = t /\ InRange(i)}, sC)
    /\ Goto(t, "done")
    /\ UNCHANGED <<job, block, kb, sA, sB, sC, acc>>

GemmThread(t) ==
    \/ Load(t)
    \/ Accumulate(t)
    \/ JointMad(t)
    \/ StoreFP32(t)
    \/ StoreXmx(t)
    \/ StoreFragment(t)
    \/ Scatter(t)

GemmNext ==
    /\ block < Blocks
    /\ (\E t \in Threads : GemmThread(t)) \/ Sync \/ NextBlock

GridDone == block = Blocks

(* The launches each kernel is written for, in any size of tile and block. *)
(* (Addresses are ints in the code; no launch is so large as to wrap one.) *)
GemmJobs ==
    LET Pos == Nat \ {0}
    IN  {j \in [kernel : {"fp32", "wmma", "xmx"}, M : Pos, N : Pos, K : Nat,
                BM : Pos, BN : Pos, BK : Pos, T : Pos] :
           j.kernel = "xmx" => /\ j.T = 1
                               /\ j.M % j.BM = 0 /\ j.N % j.BN = 0 /\ j.K % j.BK = 0}

(* One launch after the other. *)
GemmCall ==
    /\ job = Throw \/ GridDone
    /\ \E j \in GemmJobs : StartGrid(j)

GemmSpec == GemmInit /\ [][GemmNext \/ GemmCall]_gemmVars

-----------------------------------------------------------------------------
(* Properties *)

(* The matrix product, element by element: A[row][k] * B[k][col] for every *)
(* k in order.                                                             *)
Product(e) ==
    [k \in 1 .. job.K |-> <<<<(e \div job.N) * job.K + k - 1>>,
                            <<(k - 1) * job.N + (e % job.N)>>>>]

(* Whatever a kernel stores is the whole product, made of no element of a  *)
(* tile of another iteration and of nothing that was never loaded, and at  *)
(* the end of the grid every element is stored: for tiles that do not      *)
(* divide the matrix and loads that do not divide among the threads.       *)
(* (The barriers, strides and bounds of the GEMM kernels.)                 *)
GemmExact ==
    /\ \A e \in DOMAIN C : C[e] # NoSum => C[e] = Product(e)
    /\ job.kernel # "throw" /\ GridDone => \A e \in DOMAIN C : C[e] # NoSum

=============================================================================
