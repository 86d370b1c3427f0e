# AMP: a TLA+ verification project

AMP is a C++/CUDA/HIP/SYCL inference runtime: KV page pools, compile caches, a
continuous-batching scheduler, speculative decoding, collectives, vendor GEMM
wrappers, an autotuner, attention and matmul kernels, and Python/shell scripts
that diagnose, patch and validate builds. This directory models the parts that
keep state and run concurrently, checks them with TLC on small instances, and
proves the central results for all instances with TLAPS. Every definition that
stands for code is tied to its lines by `"map"` in `PROJECT.json`. Paths below
are relative to the repository (`src/scheduler.cpp` and so on).

## 1. Inventory

| Component | State | Operations | Interacts with | What is hard | Correct when |
|---|---|---|---|---|---|
| Scheduler (`src/scheduler.cpp`) | `waiting_`, `running_`, per-sequence state, cursor, output, page list; the batch handed out | `add_request`, `abort_request`, `schedule`, `step_complete` | calls PagePoolFast under `mtx_`; calls the completion callback under `mtx_` | the batch holds bare pointers while the lock is free; preemption in the middle of batch building; `leak_scan` by age only | every page has one owner; a batch entry is still valid when it completes; FCFS; each request completes once, and does complete |
| PagePoolFast (`src/pool_fast.cpp`) | a Treiber stack per shard (`heads_`, `next_`), `touch_us` per page | `alloc`, `free_pages`, `touch`, `leak_scan` | used by Scheduler, PagePoolNUMA, benches | lock-free: failed and spurious CAS, ABA, a scan that judges by stamps read one by one while others free, stamp and pop | every page is in exactly one place |
| PagePool (`src/pool.cpp`) | free list and `PageMeta` under one mutex | the same four | benches | stamp/owner consistency; double free | same as above |
| PagePoolNUMA (`src/pool_numa.cpp`) | one PagePoolFast per node, page-to-node offset | `alloc` with fallback, `free_pages`, `touch`, `leak_scan` | PagePoolFast, adds no lock | index translation, negative thread id, calls that go from node to node | a page goes back to the node it came from |
| CacheStore (`src/cache.cpp`) | files below a root | `fingerprint`, `get`, `put`, `size` | the file system | shared `.tmp` file of concurrent puts, unnoticed write errors, crash between write and rename | a reader sees a whole value some put wrote, or none |
| CacheStoreFast (`src/cache_fast.cpp`) | L1 table with a clock hand and a byte count over CacheStore | `get`, `put`, eviction | CacheStore | promotion of stale values, byte accounting, tier order | L1 within its limit; tiers agree when quiet |
| CacheStoreAsync (`src/cache_async.cpp`) | L1, a queue of writes, `busy_`, `stop_`, one writer thread | `get`, `put`, `flush`, destructor, `writer_loop` | CacheStore | one condition variable with two kinds of waiters; a job outside the lock; shutdown | writes reach disk once, in order; `flush` is durable and returns; the destructor drains and returns |
| Speculative decoding (`src/speculative.cpp`) | counters and the RNG | `verify`, `verify_greedy`, `medusa_verify`, sampling | engine | zero probabilities, empty drafts, draws at a boundary | emitted tokens follow the target's distribution; every draft token is counted once |
| Collective (`src/collective.cpp`) | `CommGroup`: handle, rank, `initialized` | `comm_init_rank`, `comm_init_all`, `allreduce`, `broadcast`, `allgather`, `reduce_scatter`, `send`, `recv`, `barrier`, `comm_destroy` | NCCL/RCCL, oneCCL, a stub; streams | asynchronous calls, ranks that fail or come late, no timeouts, checks that throw past releases | every rank takes part in the same sequence; nobody leaves a barrier early |
| Vendor GEMM (`src/gemm_vendor.cpp`) | one instance per process: handle, 32 MB workspace | construct, `set_workspace`, `gemm`, `batch_gemm`, FP8 launcher, destruct | cuBLASLt, rocBLAS, a host fallback | a handle shared by threads, checks that throw past releases | a product goes to the caller's stream; resources are released once |
| Autotuner (`include/autotune_sh.hpp`) | candidates, repetitions | `successive_halving`, `grid_search` | kernels | termination, ties, eta = 1, no candidates | ends with the best candidate, if measurements are exact |
| FP8 (`include/fp8.hpp`) | none | encode, decode | kernels | rounding, subnormals, saturation, NaN codes | rounds to the nearest code; decode then encode is the identity |
| Kernels (`kernels/`) | shared tiles, accumulators, output | FP32, WMMA and XMX GEMM, FlashAttention, dispatch, grid searches | device | barriers and early returns, tiles that divide neither the matrix nor among the threads | every element is stored, computed from exactly what it depends on |
| Scripts (`scripts/`) | source file, `.bak`, reports | diagnose, suggest, fix, parity, pipeline | each other, the compiler | a source edited between the suggestion and its application, a second fix over the first one's `.bak` | nothing is applied unconfirmed; the original can be recovered |
| Device tables, profiler macros, plugin ABI, web front end | none | look-ups, I/O | - | - | - |

`PROJECT.json` lists the same components with their status, and under `hazards`
each place where the code is exposed to something a test would hardly reach,
with the properties aimed at it. Hazards met while modelling that no property
covers, and why, are listed in section 5.

## 2. Modules

| Module | Models | Checked by | Proofs |
|---|---|---|---|
| `Scheduler` | scheduler with the pool as it uses it | `MCScheduler` | `SchedulerProofs` |
| `PagePoolFast` | the lock-free pool, one atomic access at a time | `MCPools` | `PagePoolFastProofs` |
| `PagePool` | the pool with a mutex | `MCPools` | `PoolProofs` |
| `PagePoolNUMA` | pools per node, with fallback | `MCPools` | `PoolProofs` |
| `WriteBehind` | abstract: an ordered write-behind queue | as a property of `CacheStoreAsync` | the refinement, in `CacheStoreAsyncProofs` |
| `CacheStoreAsync` | the write-behind cache | `MCCacheStoreAsync` | `CacheStoreAsyncProofs` |
| `CacheStore` | the disk cache, one file operation at a time | through `CacheStoreFast` | `CacheStoreProofs` |
| `CacheStoreFast` | L1 and its clock over `CacheStore` | `MCCacheStoreFast` | `CacheStoreFastProofs` |
| `MatmulKernels` | the GEMM kernels, their launches, `autotune_matmul` | `MCCompute` | `KernelProofs` |
| `FlashAttn` | the attention kernel, its dispatch, `autotune_flash_attn` | `MCCompute` | `KernelProofs` |
| `SpecDecode` | speculative verification | `MCCompute` | `KernelProofs` |
| `Autotune` | successive halving and grid search | `MCCompute` | `KernelProofs` |
| `Fp8` | both FP8 formats, both directions | `MCCompute` | `KernelProofs` |
| `Host` | ranks, streams, temporary buffers | through the next two | `RuntimeProofs` |
| `VendorGemm` | the process's GEMM instance | `MCRuntime` | `RuntimeProofs` |
| `Collective` | the communicator's operations | `MCRuntime` | `RuntimeProofs` |

Definitions whose comment starts with "Mutant:" are wrong variants of the
definition that follows them. No action uses them; `"mutants"` in `PROJECT.json`
says which property must fail when one takes its original's place.

### Scheduler

Client threads call `add_request` and `abort_request`; one engine thread
alternates `schedule()`, a forward pass, and `step_complete()`. The two engine
calls are modelled one loop iteration per action, with `pc` for the place in the
code: `ScheduleBegin`, `promote_waiting`/`PromoteEnd`, `PrefillBatch`,
`PrefillSkip`, `PrefillPreempt`, `PrefillRetry`, `PrefillEnd`, `DecodeBatch`,
`DecodePreempt`, `DecodeEnd`, then `StepBegin`, `CompletePrefill`,
`CompleteDecode`, `CompleteDangling`, `StepEnd`. `mtx_` is held in all of them, so
client actions are enabled only at "idle" and "forward". Sequences are named by
arrival; as nothing reorders a queue, a queue is a set with its least element in
front. The pool is the set of free pages with the age of every stamp.

Two specifications: `Spec` lets clients and clock do anything; `DisciplinedSpec`
makes two assumptions on the environment, which the code needs and does not
enforce: no request is aborted while it is in the batch in flight (`Sequence*`
in the batch would dangle; the model then lets the engine do anything it could,
`CompleteDangling`), and the clock does not let a page that a sequence still
holds exceed the TTL (`TimelyTick`).

### PagePoolFast

Each action is one atomic load, store or compare-and-swap of `alloc`, `free_pages`, `touch` or
`leak_scan`, with the locals (`top`, `nxt`, `s`, `tries`, `out`, `id`, `ts`, `now`, `orphan`)
as variables per thread. `compare_exchange_weak` fails when the head differs
and may fail when it does not (`AllocRetry`, `FreeRetry`). `leak_scan` reads the clock
(`ScanCall`), loads one stamp per step and compares it with that time, as unsigned
integers do (`ScanLoad`, `Expired`: a stamp later than `now` counts as very old), and frees what
it has collected after the last (`ScanFree`), whoever has it by then. `Free`, the pages on the
stacks, is what `next` reaches from the heads, the least set that has the heads and is
closed under `next`: nothing in the model says by itself that a page is in one place.

`Allocators` are the threads that allocate and touch, `Scanners` those that scan: the
same single thread, as in the scheduler, which does both under `mtx_`, or several, or
different ones, which the class allows. Any number of threads free. Callers are timely:
`Tick` leaves no page in use behind by more than the time to live, and no call that is about
to stamp one (`sched_leakscan` is about callers that are not). Pages may be lost.

### PagePool and PagePoolNUMA

`PagePool` holds its mutex throughout every operation, so each is one action. Its
callers are not disciplined: they keep ids that `leak_scan` has taken from them, and
free them late or twice. `PagePoolNUMA` has, for each page that a node's pool gives or takes, an
action, in between which other threads run: `alloc` goes through the thread's own node and then
the others, and gives back what a node was short of, page by page; `free_pages` goes through the
nodes of a batch, `leak_scan` through all nodes. PagePoolNUMA adds no lock to PagePoolFast, which is
sound only if one thread allocates and scans (see `pool_aba`); so one thread, `Leader`, does
here, and all threads free. What PagePoolFast's theorems say of a node is what makes a
page a step: a pop takes a page that nobody else has, and a scan finds pages that are lost. An
allocation that sees every shard empty may have missed pages freed since it began (`missed`).

### CacheStoreAsync

Every critical section of `l1_mtx_` and of `qm_`, every counter update, every
notification and every disk call is an action. `cv_.wait(lock, pred)` is split at the
points where other threads can come in: the predicate is evaluated under the lock
(`WaitFalse` keeps it), blocking releases it (`Block`), a notified or spuriously
woken thread evaluates the predicate again. `notify_one` picks any sleeper,
writer or flusher. `stop_` is written without the lock, as in the code. A disk
`put` is one step because CacheStore renames a finished file into place and only
the writer thread calls it.

`WriteBehind` says what such a store promises: accepted writes reach the disk one
at a time in order. The refinement mapping sends `pending` to the job in the
writer's hands, if it is not on disk yet, followed by `q_`.

### CacheStore and CacheStoreFast

`CacheStore` has the steps of `put` (create or truncate `<key>.tmp`, header, payload,
rename) and of `get` (open, header, payload and checksum). Names refer to inodes and
an open stream keeps its inode, so that two puts of a key really do write the same
file and a rename can move it away under a writer. A payload write may fail
(`PutPayloadFails`; the code never looks at the stream), and the process may die
anywhere. There is no `fsync` in the code and no power failure in the model: what
has been written when the process dies stays.

`CacheStoreFast` extends it with L1. Each critical section of `smtx_` is one action
(`GetHit`, `GetMiss`, `GetPromote`, `PutL1`), with disk steps of any thread in between;
`evict_to_fit` is a function of L1: two passes over `clock_order_`, each a recursive
function with one turn of the loop per argument. The history variable
`clash` records per key whether puts overlapped, a put overlapped a disk read, or a
write failed: these are the conditions under which the guarantees are stated.

### MatmulKernels and FlashAttn

A launch is a grid of blocks, which share nothing but the output and run one after the
other. What a thread (in `FlashAttn` a warp: a row of queries) does between two barriers is an
action; `__syncthreads` opens when all threads that have not returned wait, at whichever
barrier in the code. Data is the address it comes from: a tile element is an address in A, B, K
or V, a padding zero, or "never written"; an accumulator is the sequence of the products added
to it. So a result that is right for the wrong reason, or contains an element
from another iteration's tile, is visible, and rounding is not. Shared memory is `sA`, `sB` and
`sC` (in `FlashAttn` `sQ`, `sK`, `sV` and the scores); loops within a phase are recursive functions
of the turn. `GemmSpec` and `FlashSpec` are the kernels alone, with launches of any size
(`GemmJobs`, `FlashJobs`), which is what the proofs are about.

Sizes are scaled: the FP32 tile 16 is 1, the WMMA and XMX tiles are 2x2x2; query tiles
of 16 and 32 are 1 and 2, key tiles of 32 and 64 are 2 and 4, head sizes of 64 and 128 are 1 and 2, a
warp has two lanes. Ratios are what the strided loads and the causal break
depend on, and these are kept.

`autotune_matmul` skips a tile whose warm-up throws (`FP32WarmsUp`, which no tile of its list
makes it do) and takes the least time measured. It never asks whether a kernel was started: one that the
device refuses (`Refused` in `MCCompute`) is timed as taking nothing (`Measured`).
`autotune_flash_attn` does ask, and skips such a tile.

### SpecDecode, Autotune and Fp8

`SpecDecode` has one action per draft position. Probabilities are multiples of 1/D and
draws are odd multiples of 1/2G, which are equally likely and never on the boundary of a
comparison, plus the draw 0, which is. `Cum` has the running sums of the sampling loops. `AcceptsAsCommented`
is the rule that the comment in `include/speculative.hpp:11` gives, which is not the code's. `Autotune` has one action per round
and throws when there is no candidate; measurements depend on the configuration only; `std::sort` may leave equals in any order. `Fp8`
represents a float by its exponent and a significand in units of 1/`Fine` of six bits, which are
enough to tell apart codes, midpoints and both sides of each. `Fine` = 2^18 gives a float's 24
bits; the conversions scale by powers of two and subtract exactly, so nothing rounds but
`std::round`.

### Host, VendorGemm and Collective

One host thread per rank works through a program of calls, each with a stream whose
work runs in order. Libraries are external: a collective runs when it is at the head of every
rank's stream, a send when the peer's receive is, `cudaFree` returns once the stream is empty. Any
library call may fail (`MaxFaults`), which throws from where the code checks it.
`VendorGemm` has the singleton's life, the descriptors of cuBLASLt, the stream binding of the rocBLAS
handle and the fallback. Callers enter `gemm` as they like, or, with `Serialised`, one at a time,
which the code leaves to them. `Setups` are the backends and types looked at; `memory` is what
`AMP_MALLOC` allocates. The fallback computes FP32 through the caller's pointers: in device memory
that is undefined on the host, and the process either gets through or dies (`FallbackDies`); any other type
it skips. NCCL's ranks meet at the unique id; oneCCL's ranks each make a key-value store at an
empty address, so that their initialisation may fail at any time.

`MCRuntime` composes the two as a tensor-parallel layer: multiply, reduce,
transfer, barrier, destroy. oneCCL goes with the fallback only, as a SYCL build has no
vendor GEMM. Programs are any that keep two rules, which the code leaves to its callers:
the ranks call `barrier` at the same places (`BarriersMatch`), and a rank multiplies once, before
it reduces, and destroys a communicator before it makes another (`LayerAssumption`).

## 3. Runs

| Run | Instance | States | Result |
|---|---|---|---|
| `sched_safety` | 8 pages of 2 tokens, 3 requests with prompts of 0, 2 or 8 and 0 or 3 new tokens, budget 9, TTL 1 | full space | passes |
| `sched_liveness` | 9 pages, 3 requests, budget 2 so that prefills are chunked | full space | passes |
| `sched_leakscan` | 8 pages, `Spec` without the timeliness assumption | counterexample | `PagesExclusive` violated |
| `sched_preempt` | 7 pages: two requests do not fit | counterexample | `PreemptedRetried` violated |
| `pools` | lock-free: 3 threads, one of which allocates, touches and scans, 3 pages on 2 shards, requests of 1 or 2, time to live 1, time up to 3; mutex: 2 callers, 3 pages, up to 2 ids a call; NUMA: 3 threads, one of which allocates and scans, 2 nodes of 2 pages | 717,568 | passes |
| `pool_aba` | 2 allocating threads, 3 pages on 1 shard | counterexample | `PagesConserved` violated |
| `async_store` | 2 clients, 2 keys (one with an old value on disk), 3 puts, 1 spurious wake-up | 143,526 | passes |
| `async_flush` | 2 clients, 1 put | counterexample | `FlushReturns` violated |
| `async_dtor` | 1 put | counterexample | `DestructorReturns` violated |
| `cache_tiers` | 2 threads, 4 keys (3 with old files), 2 puts, 1 failed write, 1 crash; L1 of 3 bytes, entries of 1, one of 4 | 1,023,202 | passes |
| `compute` | GEMMs of 3x3x3, 2x4x2, 1x3x4 with all tiles; attention with 3 or 4 keys, causal or not, 2 batches with grouped heads; vocabulary 3, halves, 2 drafts, 2 calls; 6 candidates of 3 speeds, eta 2 and 3; all codes of both FP8 formats and floats of 7 bits with exponents -19 to 19, beyond both ends | 42,274 | passes |
| `runtime` | 2 ranks, 3 GEMM backends, 3 communication libraries, FP32 and FP8 (not with the fallback), 1 fault, callers that take turns in `gemm` | 6,506 | passes |

What they show:

* `sched_safety`: no page has two owners (`PagesExclusive`); only running sequences hold pages
  (`OnlyLiveHoldPages`); each batch entry still describes its sequence when it
  completes (`BatchStillValid`) and has pages for every token it writes
  (`BatchCovered`); requests leave the queue in arrival order (`FCFSOrder`), complete
  at most once and within their length (`CompletedOnce`). The bounds make the pool run out in the middle of a prefill, so
  that preemption, a retry that succeeds and one that fails all occur, as do a full
  queue, an empty prompt, and a leak scan that finds something. Prompt and output
  lengths are chosen around page boundaries.
* `sched_liveness`: non-empty requests that fit complete, and pages that finished
  sequences leave behind come back through `leak_scan`.
* `sched_leakscan`, `sched_preempt`: two places where the code does not do what its
  comments say (findings in `PROJECT.json`): `leak_scan` takes pages from live
  sequences, and a preempted sequence is never looked at again.
* `pools`: in the lock-free pool each page is on one stack, in one thread's hand, held, or lost
  (`PagesConserved`), and stamps tell `leak_scan` the truth, and what a scan has collected is still
  lost when it frees it, however others free and stamp pages between its loads (`StampsTellTruth`). Three pages on
  two shards give a stack of two and one of one: an allocation can be satisfied from one shard, from
  two, or fail with a page in hand. Threads that only free are interchangeable
  (symmetry). In the pool with a mutex the free list and the counters stay right
  whatever stale ids callers free (`FreeListSound`). (A late free can still take a page from its new
  owner; nothing in the code prevents it.) In the NUMA pool a page always returns to the node it came
  from (`PagesGoHome`); two pages per node and requests of up to two make both the
  own node and the fallback run out half way.
* `pool_aba`: with a second allocator the pop has the ABA problem. A shard's
  head carries no version, so a stale `nxt` can be installed.
  The scheduler's `mtx_` excludes it; the class and its NUMA wrapper do not.
* `async_store`: order and exactly-once (`DiskIsPrefix`, `ImplementsWriteBehind`),
  durability at `flush` (`FlushDurable`) and at shutdown (`DrainedOnExit`), the
  comparison `tests/verify_cache_async.cpp` makes (`CountersAgree`), agreement of
  the tiers (`L1DiskAgree`, provided no put of a key overlaps another call on it), and, provided
  no flush overlaps a put, that writes are persisted and flush returns
  (`WritesPersist`, `LoneFlushReturns`). Three puts on two keys are enough for two
  writes of a key with another between them, and for a queue behind a write
  in flight.
* `async_flush`, `async_dtor`: two lost wake-ups. Without the provisos above
  `flush` may block for ever, and the destructor may too.
* `cache_tiers`: `.bin` files are whole and `put` does not throw as long as puts of the
  key do not overlap and no write fails, across crashes (`PutsAtomic`); no reader
  gets a mixture of two writes even when they do (`NoTornReads`, thanks to the
  checksum); `l1_bytes_` and `clock_order_` agree with the table (`L1Accounts`); the
  two passes make room for what fits (`InsertFits`) and spare recently used entries
  (`SecondChance`); the tiers agree on keys whose calls did not overlap (`TiersAgree`).
  Four keys over room for three give a clock with set and clear bits in every order;
  two puts and two threads give every overlap of two calls. Keys with old files are
  interchangeable, and so are threads (symmetry).
* `compute`: whatever a GEMM kernel stores is exactly the product, and all of it is stored
  (`GemmExact`), also where tiles do not divide the matrix; the same for attention over the keys a
  row may see, in query tiles that are full (`FlashExact`); every grid ends (`GridFinishes`), although
  warps return before the first barrier and the causal break leaves the loop: a barrier is reached
  by all warps with a row, in the same turn (`BarriersUniform`); the two grid
  searches return the fastest tile that can be launched (`TunedIsBest`), where the device starts every
  FP32 tile. What `verify` emits has
  the target's distribution, for every pair of distributions over halves (`OutputFollowsTarget`), and
  its counters add up (`EveryDraftCounted`). Successive halving ends with what grid search
  finds, for no more measurements (`HalvingFindsBest`; the count is for a first round of one
  repetition, as the default). FP8 encoding rounds to nearest, except just below the smallest
  normal number, where both encoders clamp (`Fp8Nearest`). Sizes are the smallest with a full
  and a partial tile in each dimension and two iterations of the loop over k.
  Two comments contradict what is checked here, and are findings in `PROJECT.json`: the acceptance
  rule of `include/speculative.hpp:11` ("If q(x) >= p(x): accept", q being the draft) has the
  comparison the wrong way round, and E4M3 does use exponent 15 for numbers, which
  `include/fp8.hpp:14` calls reserved. The mutants of `OutputFollowsTarget` and `Fp8Nearest` are what
  these comments say: with either, the property fails.
* `runtime`: no rank leaves `barrier` before all have entered it (`BarrierHolds`; on NCCL only because
  the free of its buffer waits for the device); only an exception leaks descriptors, buffers or
  communicators (`LeaksOnlyByThrow`); every rank gets through, unless one threw or the process died
  in the fallback (`RanksFinish`). Two ranks and one fault give every order of two
  callers and a failure at every call.
  What is reduced is each rank's own finished product (`ReducesOwnProduct`), as callers take turns in
  `gemm` and the backend computes the type.

Some properties hold under a condition on the environment that the code does not enforce. It is a
constant in each case, and TLC finds a counterexample within seconds when it is given another value:

| In | Instead of | Give | Then |
|---|---|---|---|
| `MCPools.cfg` | `Scanners = {a}` | `Scanners = {b}` | `PagesConserved` fails: a page stamped after `leak_scan` has read the time is later than that, the unsigned difference at `src/pool_fast.cpp:86` wraps around, and the page is freed while it is held |
| `MCRuntime.cfg` | `Serialised = TRUE` | `FALSE` | `ReducesOwnProduct` fails: between one thread's `rocblas_set_stream` and its GEMM (`src/gemm_vendor.cpp:250`, `:273`) another thread binds the process's one handle to its own stream, although `include/gemm_vendor.hpp:121` calls the singleton "thread-safe" |
| `MCRuntime.cfg` | `Setups <- Computed` | `Setups <- AllSetups` | `ReducesOwnProduct` fails: for any type but FP32 the fallback returns without a word (`src/gemm_vendor.cpp:297`), and C keeps what it held |
| `MCCompute.cfg` | `Refused = {}` | `Refused <- LargeTiles` | `TunedIsBest` fails: `autotune_matmul` never asks whether a kernel was started (`kernels/matmul.cu:16`, `:353`), so one that the device refuses takes no time and wins |

As for the first, the scheduler makes all its calls under `mtx_`; as for `Serialised`, the
one program of the repository that reaches `global_gemm` (`tests/test_triple.cpp`) starts no thread.
The other two depend on the build and the device.

Deadlock checking is on for the scheduler, whose engine never stops. It is off for
the others: a finished computation or program rests, a store that has been destroyed is at rest, a
client need not call anything, and once the bound on puts is used up everybody may
be asleep; that no call is stuck is what the liveness properties say instead.

### Fairness

* Scheduler: weak fairness of the engine loop (the embedder's loop calls
  `schedule` and `step_complete` for ever) and of the clock. Clients owe nothing.
* CacheStoreAsync: weak fairness of every call that has been made and of the writer
  thread, which is what the operating system gives a runnable thread. A thread
  asleep on `cv_` is not runnable, spurious wake-ups are never owed, and nobody
  has to make a call. The mutex gives no more than this.
* `compute`: weak fairness of the running grid (the device schedules resident threads; a
  barrier opens when all have come) and of the autotuner's loop. Nothing needs to be called.
* `runtime`: weak fairness of host threads and devices; a library call is never obliged to fail.

## 4. Proofs

`SchedulerProofs` (assumption: `ConfigAssumption`, sizes are naturals, page size,
budget and chunk limit positive; for `DisciplinedSpec` but for one):

* `PageOwnership`, `NoPagesOutsideRunning`: `PagesExclusive` is not inductive. A
  leak scan frees by age, so one needs `LiveStampsFresh` (a held page is not stale);
  freeing adds pages to the stack, so one needs that stamps match the stack and that
  only running sequences hold pages. `PoolInv` is the conjunction; there is one lemma
  for each thing that can happen to the pool (allocate, free, touch, scan, tick).
* `BatchIntegrity`, `TypeCorrect`: an entry's validity depends on nobody preempting
  or promoting a sequence twice while the batch is filled. `BatchInv` adds that the
  sequences still to be looked at are in the right state and not yet in the batch,
  that cursors stay within prompts, and that ids are issued in order. Type
  correctness needs the same invariant, as a chunk is a natural number only because
  the cursor is within the prompt.
* `FirstComeFirstServed`, for `Spec`: whatever clients and clock do. `QueueInv` adds to
  `FCFSOrder` that the ids in the queues are among those issued, so that a new one is last.
* `CallbackOnce`, for `DisciplinedSpec`: `ServiceInv` adds that a sequence that is DONE
  stays in `running_` only until `step_complete` ends, and that one that is not has room for
  a token. Aborting a sequence of the batch in flight breaks it, hence the discipline.
* `KVAlwaysCovered`, for `DisciplinedSpec`: pages are allocated by rounding up, and a
  sequence in the batch keeps its pages until it completes, since only sequences outside
  the batch are preempted and `LiveStampsFresh` keeps `leak_scan` away.

`CacheStoreAsyncProofs` (assumption: `AsyncAssumption`; for `Spec`, that is for
every number of clients, keys, puts and spurious wake-ups):

* `AsyncTypeCorrect`: including that at most one thread holds `qm_` (no run checks it: the
  proof stands for every instance).
* `AsyncImplementsWriteBehind`: every step leaves (pending, disk) alone, accepts one
  write or persists the oldest (`Kept`, `Accepted`, `Persisted`).
* `WritesInOrder`: from the same three cases, `DiskIsPrefix` is preserved.
* `FlushIsDurable`: needs in addition that `busy_` is set while the writer has a job
  in hand; then an empty queue and a clear `busy_` mean nothing is pending, and
  `DiskIsPrefix` says the disk is the outcome of all writes.

* `ShutdownDrains`, `CountersAgreeAfterFlush`: `CountInv` relates the two counters to the
  history and to the threads between a push or a write and its count, `StopInv` says that
  the writer leaves its loop only with an empty queue and after all clients are gone.
* `TiersAgreeWhenQuiet`: `TierInv` says that L1 has the last value pushed, but for a put
  that is about to push, and that a get which missed works on a key never pushed. It is
  inductive only under the proviso of `L1DiskAgree` that no put overlaps another call on
  its key, which is a hypothesis of each step.

`PagePoolFastProofs` (`PoolAssumption`, and as a hypothesis `SingleAllocator`: allocators and
scanners are one thread at most, as in the scheduler under `mtx_`; the theorems are false
without it, see `pool_aba` and the table in section 3; any number of threads free):

* `PagesAlwaysConserved`: `PoolInv` adds that the stacks are apart (`StacksApart`: a free page
  is the top of one stack or the successor of one page) and, in `ThreadOK`, why a lone
  allocator is safe: the page it read as `top` stays on its stack, so that the link it read
  stays true, until its own compare-and-swap. What a push, a pop and a new link do to the
  least closed set `Free` are lemmas.
* `StampsAlwaysTellTruth`: `StampInv` adds the stamps of pages that are in a call, that no page
  in use or about to be stamped is older than the time to live, and that what a scan has collected
  is lost. The scanner being the allocator, no stamp is later than the time it read, so nothing wraps.

`PoolProofs` (`MutexPoolAssumption`, `NumaAssumption`):

* `FreeListAlwaysSound`: `MutexInv` (flags, list and counters agree, the list has no page twice) is
  kept by each turn of the loops of `free_pages` and `leak_scan`, for any list of ids, and so by
  induction on the turn by the operation. Callers are not disciplined.
* `PagesAlwaysGoHome`: for the one thread that allocates and scans and any number that free,
  `NumaInv` says that each page is at one place (`OnePlace`; the leader's hand and a batch on its
  way are places), and that `split` and `global_id` are
  inverse to each other is a lemma of arithmetic.

`CacheStoreProofs` (`CacheAssumption`; steps of L1 are projected away by `StepsOfDisk`):

* `GetsReturnPuts`: `DiskInv` says which inodes belong to a key, and that header and
  payload in them, and in the locals of a get, were put for that key. It holds with
  overlapping puts, failing writes and crashes.
* `PutsAlwaysAtomic`: `AtomicInv`, for each key undisturbed so far, says that one put
  at a time writes the `.tmp`, how far it has come, and that `.tmp` is never the inode of `.bin`.

`CacheStoreFastProofs` (`CacheAssumption`, `FastAssumption`: sizes and the limit are naturals):

* `AccountsInOrder`, `InsertionsFit`, `UsedEntriesGoLast`: `Turned` is the loop invariant of a
  clock pass (what is on the new list, what lies ahead, what is off the account, and what
  each bit has decided), proved by induction on the turns; two passes make room or evict
  everything. `Accounted` is then an invariant of L1.
* `TiersAlwaysAgree`: `TierInv`, for each key without a clash so far, says that no get and put
  overlap, what a get has read, and that L1 has what the file has. It rests on `AtomicInv`.

`RuntimeProofs` (`HostAssumption`, `BarriersMatch`, `LayerAssumption`; any
number of ranks and faults, every backend and library):

* `OnlyThrowsLeak`: `RunInv` says what a thread owns at each place of the code, that its place agrees
  with its program, and that a live communicator has its destroy ahead of it.
* `BarriersAlwaysHold`: `BarrierInv` says that there is a call up to which all ranks have run
  their barriers: what a rank has entered after it is on its stream, in order, and it has left none.
  A collective runs on all ranks at once, so that call moves for all of them.
* `ReductionsFollowProducts`, with two hypotheses, that callers take turns in `gemm`
  (`Serialised`) and that no setup is the fallback with a type it skips: `ProductInv` says that a
  product is done or in front of every all-reduce on its rank's own stream; for rocBLAS it needs
  the handle's binding, which taking turns preserves (`TurnsKept`).

`KernelProofs` (`FlashAssumption`, `SpecAssumption`, `TuneAssumption`, `ComputeAssumption`; the
kernels for every launch in `GemmJobs` and `FlashJobs`: any sizes of matrices, tiles and
blocks, where XMX tiles divide the matrix, key tiles are made of whole query tiles and
`num_kv_heads` divides `num_q_heads`, as the launch functions and the kernels have it; addresses
are naturals, that is, no launch is so large as to wrap an `int`):

* `GemmCorrect`: `GemmInv` adds to `GemmExact` the phase of the block between two barriers: all
  threads are in the same turn of the loop over k, those at the barrier have loaded their
  share of the tiles (`Loading`) or added their products (`Multiplying`), and every accumulator
  has come to the same k (`SumsAt`). That strided loads leave no element of a tile out, and
  that each element of C belongs to one cell of one block, is arithmetic of division.
* `FlashCorrect`: `FlashInv` does the same for the four phases of attention. The causal break
  is what is hard: a warp leaves the loop by its own row, and has seen every key it may by then.
  It is about rows of full query tiles, like `FlashExact`.
* `BarriersStayUniform`: `Lockstep` says that the warps of a block, those without a row excepted,
  are always in the same phase and turn, because key tiles are whole query tiles.
* `TunersPickBest`: both searches keep, turn by turn, the fastest configuration seen that
  launches, and what they return passes the launch function's checks. `ComputeAssumption` lets the
  device refuse FP32 tiles; the theorem's hypothesis is that it refuses none (`Refused = {}`).
* `CallsImplementKernels`: the calls `MCCompute` makes, with the sizes the launch functions compute,
  are steps of `GemmSpec` and `FlashSpec`, so that the theorems above hold of them.
* `HalvingKeepsFastest`: in `HalvingInv` no candidate dropped is faster than one that is kept.
* `DraftsAlwaysCounted`: `CountInv` adds the drafts of the call under way that are undecided.
* `OutputAlwaysFollowsTarget`: the rejection sampling theorem, by counting draws. A token is
  emitted by acceptance for min(pt, pd) of the draws, and by resampling for its share of
  the mass by which target exceeds draft; the mass rejected is the mass missing
  (`AboveBelow`), and the sum is pt. The sums are recursive functions over the vocabulary.
* `EncodingAlwaysNearest`: `FpInv` says what is converted. An encoder's code and the codes whose upper
  midpoint the float has passed are computed separately (`Normal4`, `Subnormal4`, `Overflow4`;
  `Passed4`, and the same for E5M2) and compared; the codes below a code are as many as it says. It
  holds for every `Fine` and `MaxExp`, a float's among them.

Loops are recursive functions, and induction over their turns is done without the library's
induction theorems (which take an operator): the set of turns up to which a claim holds is
shown to be all of `0..n` from the well-foundedness of the naturals, and that a recursive
function exists is proved where it is used (`TurnsExist` and the like).

Model-checked only: liveness (`RequestsComplete`, `LeakedPagesReclaimed`, `WritesPersist`,
`LoneFlushReturns`, `GridFinishes`, `HalvingFindsBest` with its bound on the measurements,
`RanksFinish`), as the prover has no rules for fairness. Every invariant and every other action
property of the passing runs is a theorem.

## 5. Abstractions and what is not modelled

* Scheduler: statistics, token values (a token is EOS or not), SWAPPED state and the
  swap and shortest-remaining-time options (declared, used nowhere). Callbacks that
  call back into the scheduler (they would self-deadlock on `mtx_`).
* Pool: the order of ids in a vector; weak memory (with one allocator the
  acquire/release pairs on a head order the relaxed accesses to `next_`); device memory.
* Caches: contents are numbered, and different contents are taken to have different
  checksums; in `CacheStoreAsync` a `get` that hits L1 only counts and the disk does
  not fail. `fingerprint` and `size` change no state. Statistics.
* NUMA and mutex pools: statistics; which core a thread runs on (any node, or none);
  negative thread numbers, which would index outside `per_node_`.
* Kernels: rounding; lanes of a warp in `FlashAttn` run in step, as the code requires (it
  replaces scores in place); the throughput-only autotuners for BF16, FP8 and SYCL; `has_*`
  capability checks; FP16 data, which the FP16 launcher hands to the BF16 kernel. Rows of a partly filled
  query tile are computed from memory that was never loaded; `FlashExact` says nothing of them.
* Speculative decoding: `TokenDist::probs` (a softmax with a cache).
* FP8: the sign bit. Collectives: `comm_init_all`, `comm_get_unique_id`; element counts and
  types. Vendor GEMM: leading dimensions, scaling factors; `batch_gemm` is a loop of `gemm`.
* Scripts: processes that run one after the other on files in one directory; what they
  compute is text. The pipeline never rolls back (it has no such step), and
  `MAX_FIX_ROUNDS` is not used.
* Device tables, profiler macros, plugin ABI, web front end, tests, notebooks, build files.

Hazards met that no property covers, besides those with a note in `PROJECT.json`:

| Where | What | Why not |
|---|---|---|
| `src/scheduler.cpp:106` | a head of the queue that can never fit blocks the others for ever | by design of FCFS; the liveness run uses requests that fit |
| `src/scheduler.cpp:140` | an empty prompt stays in PREFILL for ever | `RequestsComplete` is stated for non-empty prompts |
| `src/scheduler.cpp:212` | a completion callback that calls the scheduler locks `mtx_` twice | what it does is the embedder's |
| `src/scheduler.cpp:26` | ids are drawn before the lock | nothing compares ids |
| `src/pool_fast.cpp:88` | the owner of a page that is too old frees or touches it between `leak_scan`'s loop and its frees | callers are timely in this module; `sched_leakscan` has late ones |
| `src/pool_fast.cpp:86` | a page stamped after `leak_scan` read the time looks infinitely old | one thread allocates and scans; see the table in section 3 |
| `src/cache_async.cpp:30` | a `get` promotes what it read from disk over the contents of a later `put`; two puts of a key fill L1 and the queue in different orders | the code does so: `L1DiskAgree` is about keys whose calls do not overlap |
| `src/cache_fast.cpp:63` | a `get` promotes what it read from disk over the contents of a later `put`; two puts of a key end in different orders in L1 and on disk | the code does so: `TiersAgree` is about keys whose calls do not overlap |
| `src/gemm_vendor.cpp:169` | `CUBLAS_CHECK` throws past the calls that release descriptors, scale buffers and communicator | the code does so: `LeaksOnlyByThrow` is about the paths without an exception |
| `src/collective.cpp:235` | `comm_init_all` initialises oneCCL's communicators one after the other in one thread | the operation is not modelled |
| `include/fp8.hpp:49` | between the largest subnormal number and the smallest normal one the code is clamped, which rounds down | the code does so: `Fp8Nearest` excepts these floats |
| `include/autotune_sh.hpp:45` | `eta` of 1 never drops a candidate, 0 divides by zero | `TuneAssumption` is eta of 2 or more, the default is 3 |
| `src/gemm_vendor.cpp:304` | device pointers dereferenced on the host | undefined: the model lets the process die or go on |
| `kernels/flash_attn.cu:238` | `max_smem` is cached from the first call's device | one device |
| `kernels/flash_attn.cu:368` | a launch that fails only in the timed part ends the search | warm-ups and repetitions fail alike |
| `kernels/matmul.cu:21` | an early return leaves a profiler range open | no profiler ranges |
| `src/gemm_vendor.cpp:230` | GEMMs on two streams share the workspace | invisible from this code |
| `src/gemm_vendor.cpp:117` | `set_workspace` forgets the old one, the destructor frees the caller's | ownership is written down nowhere |
| `src/collective.cpp:145` | no operation looks at `initialized` | programs initialise first |
| `src/speculative.cpp:39` | a draw of exactly 0 accepts a token of probability 0 | a draw that hardly ever happens; the property is over the others |
| `include/speculative.hpp:60` | `probs` keeps the softmax of the first temperature | one temperature per engine |
| `scripts/amp_fix.py:58` | the suggested text overwrites what was edited since; a second fix overwrites the first `.bak` | scripts are not modelled |

## 6. What could follow

* Rounding in the kernels: accumulators are exact here, so nothing is said of error bounds.
* The scripts, should they come to run concurrently on one source tree.
* Weak memory in `PagePoolFast`, where atomic accesses are taken to be in one order.
