----------------------------- MODULE Scheduler -----------------------------
(***************************************************************************)
(* The continuous-batching scheduler of include/scheduler.hpp and          *)
(* src/scheduler.cpp.  Client threads add and abort requests; one engine   *)
(* thread alternates schedule() and step_complete() around a forward pass. *)
(* All four take the mutex mtx_.                                           *)
(*                                                                         *)
(* schedule() and step_complete() are modelled one loop iteration at a     *)
(* time; pc says where the engine is.  The mutex is held in every pc but   *)
(* "idle" and "forward", so clients interleave only there, which is        *)
(* exactly the window between schedule() and step_complete().              *)
(*                                                                         *)
(* A request is named by its place in the order in which add_request gets  *)
(* mtx_.  (The code's id is drawn from next_id_ before the lock, so ids of *)
(* concurrent callers may be queued in another order; nothing compares     *)
(* ids.)  waiting_ and running_ are appended at the back and erased from   *)
(* without reordering, so a queue is the set of its members: its front is  *)
(* the least and its back the greatest of them.                            *)
(*                                                                         *)
(* The page pool (PagePoolFast, whose every call but stats() is made under *)
(* mtx_) is the set of its free pages and the age of every page's          *)
(* touch_us stamp in clock ticks.  That is exact as long as no page is     *)
(* pushed on the free stack twice, i.e. as long as PagesExclusive holds.   *)
(*                                                                         *)
(* Left out: the statistics counters, and token values: a decoded token    *)
(* either is the request's EOS token or is not.                            *)
(***************************************************************************)
EXTENDS Integers, Sequences, FiniteSets

CONSTANTS
    Pages,            \* the KV pages of the pool (cfg.max_pages_total of them)
    Yields(_, _),     \* Yields(A, F): with F free, the stacks may hand out A
    PageSize,         \* cfg.kv_page_size_tokens
    MaxBatchTokens,   \* cfg.max_batch_tokens
    MaxSeqsRunning,   \* cfg.max_seqs_running
    MaxWaitingSeqs,   \* cfg.max_waiting_seqs
    MaxPrefill,       \* cfg.max_prefill_tokens_per_step
    TTL,              \* the 30000 ms of step_complete's leak_scan, in ticks
    PromptLens,       \* prompt lengths of the requests clients submit
    MaxNews,          \* max_new_tokens of the requests clients submit
    MaxRequests       \* bound: how many times add_request is called

ASSUME ConfigAssumption ==
    /\ IsFiniteSet(Pages)
    /\ PageSize \in Nat \ {0}
    /\ MaxBatchTokens \in Nat \ {0}
    /\ MaxSeqsRunning \in Nat
    /\ MaxWaitingSeqs \in Nat
    /\ MaxPrefill \in Nat \ {0}
    /\ TTL \in Nat
    /\ PromptLens \subseteq Nat
    /\ MaxNews \subseteq Nat
    /\ MaxRequests \in Nat

Ids == 1..MaxRequests

(* touch_us = 0: "freed" *)
Freed == -1

SeqStates == {"NONE", "WAITING", "PREFILL", "DECODE", "DONE", "ABORTED"}

VARIABLES
    nextId,      \* next_id_
    waiting,     \* ids in waiting_
    running,     \* ids in running_
    state,       \* Sequence::state ("NONE": no such sequence was ever queued)
    prompt,      \* prompt_tokens.size()
    maxNew,      \* max_new_tokens
    cursor,      \* prefill_cursor
    out,         \* output_tokens.size()
    pages,       \* kv_page_ids
    free,        \* pages on the pool's free stacks
    touch,       \* age of touch_us, or Freed
    completions, \* how often the completion callback ran for an id
    pc,          \* where the engine thread is
    budget,      \* tokens_budget
    prefillTodo, \* what is left of prefill_seqs
    decodeTodo,  \* what is left of decode_seqs
    entries      \* batch.entries

seqVars  == <<nextId, waiting, running, state, prompt, maxNew, cursor, out>>
poolVars == <<pages, free, touch>>
engVars  == <<pc, budget, prefillTodo, decodeTodo, entries>>
vars     == <<nextId, waiting, running, state, prompt, maxNew, cursor, out,
              pages, free, touch, completions,
              pc, budget, prefillTodo, decodeTodo, entries>>

-----------------------------------------------------------------------------
(* Sequences and the pool *)

Live == waiting \cup running

LockFree == pc \in {"idle", "forward"}

total_tokens(s) == prompt[s] + out[s]

remaining_prefill(s) == prompt[s] - cursor[s]

(* Mutant: the new tokens are not counted. *)
PagesForOldTokens(s, n) == (total_tokens(s) + PageSize - 1) \div PageSize

pages_needed_for(s, n) == (total_tokens(s) + n + PageSize - 1) \div PageSize

(* The front of a queue, and the back of one. *)
IsFront(s, Q) == s \in Q /\ \A t \in Q : s <= t
IsBack(s, Q)  == s \in Q /\ \A t \in Q : t <= s

min(a, b) == IF a <= b THEN a ELSE b

(* try_alloc_pages asks the pool for the missing pages, all or none. *)
Missing(s, n) ==
    LET lack == pages_needed_for(s, n) - Cardinality(pages[s])
    IN  IF lack > 0 THEN lack ELSE 0

CanAlloc(s, n) == Missing(s, n) <= Cardinality(free)

AllocPages(s, n) ==
    \E A \in SUBSET free :
        /\ Cardinality(A) = Missing(s, n)
        /\ Yields(A, free)
        /\ free' = free \ A
        /\ pages' = [pages EXCEPT ![s] = @ \cup A]
        /\ touch' = [p \in Pages |-> IF p \in A THEN 0 ELSE touch[p]]

(* Mutant: kv_page_ids is not cleared. *)
FreeWithoutClear(s) ==
    /\ free' = free \cup pages[s]
    /\ touch' = [p \in Pages |-> IF p \in pages[s] THEN Freed ELSE touch[p]]
    /\ UNCHANGED pages

free_pages(s) ==
    /\ free' = free \cup pages[s]
    /\ touch' = [p \in Pages |-> IF p \in pages[s] THEN Freed ELSE touch[p]]
    /\ pages' = [pages EXCEPT ![s] = {}]

(* The preempted sequence keeps its place in running_. *)
preempt_sequence(s) ==
    /\ free_pages(s)
    /\ state' = [state EXCEPT ![s] = "WAITING"]
    /\ cursor' = [cursor EXCEPT ![s] = 0]
    /\ out' = [out EXCEPT ![s] = 0]
    /\ UNCHANGED <<nextId, waiting, running, prompt, maxNew>>

-----------------------------------------------------------------------------
(* Clients *)

(* The id is taken before the queue-full check, which throws. *)
add_request(p, m) ==
    /\ LockFree
    /\ nextId <= MaxRequests
    /\ nextId' = nextId + 1
    /\ \/ /\ Cardinality(waiting) >= MaxWaitingSeqs
          /\ UNCHANGED <<waiting, state, prompt, maxNew>>
       \/ /\ Cardinality(waiting) < MaxWaitingSeqs
          /\ waiting' = waiting \cup {nextId}
          /\ state' = [state EXCEPT ![nextId] = "WAITING"]
          /\ prompt' = [prompt EXCEPT ![nextId] = p]
          /\ maxNew' = [maxNew EXCEPT ![nextId] = m]
    /\ UNCHANGED <<running, cursor, out, completions>>
    /\ UNCHANGED <<poolVars, engVars>>

(* Mutant: the pages are not returned. *)
AbortKeepsPages(s) ==
    /\ LockFree
    /\ s \in Live
    /\ state' = [state EXCEPT ![s] = "ABORTED"]
    /\ waiting' = waiting \ {s}
    /\ running' = running \ {s}
    /\ UNCHANGED <<nextId, prompt, maxNew, cursor, out, completions>>
    /\ UNCHANGED <<poolVars, engVars>>

(* Destroys the Sequence: batch entries that point to it are left dangling. *)
abort_request(s) ==
    /\ LockFree
    /\ s \in Live
    /\ free_pages(s)
    /\ state' = [state EXCEPT ![s] = "ABORTED"]
    /\ waiting' = waiting \ {s}
    /\ running' = running \ {s}
    /\ UNCHANGED <<nextId, prompt, maxNew, cursor, out, completions, engVars>>

-----------------------------------------------------------------------------
(* Engine: schedule() *)

ScheduleBegin ==
    /\ pc = "idle"
    /\ pc' = "promote"
    /\ entries' = <<>>
    /\ UNCHANGED <<seqVars, poolVars, completions>>
    /\ UNCHANGED <<budget, prefillTodo, decodeTodo>>

(* Mutant: the newest request is promoted first. *)
PromotableLIFO(s) ==
    /\ IsBack(s, waiting)
    /\ Cardinality(running) < MaxSeqsRunning
    /\ CanAlloc(s, PageSize)

Promotable(s) ==
    /\ IsFront(s, waiting)
    /\ Cardinality(running) < MaxSeqsRunning
    /\ CanAlloc(s, PageSize)

promote_waiting(s) ==
    /\ pc = "promote"
    /\ Promotable(s)
    /\ AllocPages(s, PageSize)
    /\ state' = [state EXCEPT ![s] = "PREFILL"]
    /\ running' = running \cup {s}
    /\ waiting' = waiting \ {s}
    /\ UNCHANGED <<nextId, prompt, maxNew, cursor, out, completions, engVars>>

(* The queue is empty, running_ is full or the front does not fit. *)
PromoteEnd ==
    /\ pc = "promote"
    /\ \A s \in waiting : ~Promotable(s)
    /\ pc' = "prefill"
    /\ budget' = MaxBatchTokens
    /\ prefillTodo' = {s \in running : state[s] = "PREFILL"}
    /\ decodeTodo' = {s \in running : state[s] = "DECODE"}
    /\ UNCHANGED <<seqVars, poolVars, completions, entries>>

Chunk(s) == min(remaining_prefill(s), min(MaxPrefill, budget))

NextPrefill(s) == pc = "prefill" /\ budget > 0 /\ IsFront(s, prefillTodo)

AddEntry(s, n, isPrefill) ==
    /\ entries' = Append(entries,
                    [seq |-> s, n |-> n, is_prefill |-> isPrefill,
                     start |-> IF isPrefill THEN cursor[s] ELSE 0])
    /\ budget' = budget - n

(* Mutant: an empty chunk is not skipped. *)
PrefillBatchEmpty(s) ==
    /\ NextPrefill(s)
    /\ CanAlloc(s, Chunk(s))
    /\ AllocPages(s, Chunk(s))
    /\ AddEntry(s, Chunk(s), TRUE)
    /\ prefillTodo' = prefillTodo \ {s}
    /\ UNCHANGED <<seqVars, completions, pc, decodeTodo>>

(* The chunk fits in the pages the pool can give. *)
PrefillBatch(s) ==
    /\ NextPrefill(s)
    /\ Chunk(s) > 0
    /\ CanAlloc(s, Chunk(s))
    /\ AllocPages(s, Chunk(s))
    /\ AddEntry(s, Chunk(s), TRUE)
    /\ prefillTodo' = prefillTodo \ {s}
    /\ UNCHANGED <<seqVars, completions, pc, decodeTodo>>

(* Nothing to prefill, or out of pages with no decode sequence to preempt. *)
PrefillSkip(s) ==
    /\ NextPrefill(s)
    /\ \/ Chunk(s) <= 0
       \/ ~CanAlloc(s, Chunk(s)) /\ decodeTodo = {}
    /\ prefillTodo' = prefillTodo \ {s}
    /\ UNCHANGED <<seqVars, poolVars, completions>>
    /\ UNCHANGED <<pc, budget, decodeTodo, entries>>

(* Mutant: the victim stays in decode_seqs. *)
PreemptWithoutPop(s, v) ==
    /\ NextPrefill(s)
    /\ Chunk(s) > 0
    /\ ~CanAlloc(s, Chunk(s))
    /\ IsBack(v, decodeTodo)
    /\ preempt_sequence(v)
    /\ pc' = "retry"
    /\ UNCHANGED <<completions, budget, prefillTodo, decodeTodo, entries>>

(* Out of pages: the last decode sequence is preempted ... *)
PrefillPreempt(s, v) ==
    /\ NextPrefill(s)
    /\ Chunk(s) > 0
    /\ ~CanAlloc(s, Chunk(s))
    /\ IsBack(v, decodeTodo)
    /\ preempt_sequence(v)
    /\ decodeTodo' = decodeTodo \ {v}
    /\ pc' = "retry"
    /\ UNCHANGED <<completions, budget, prefillTodo, entries>>

(* ... and the allocation retried once. *)
PrefillRetry(s) ==
    /\ pc = "retry"
    /\ IsFront(s, prefillTodo)
    /\ \/ /\ CanAlloc(s, Chunk(s))
          /\ AllocPages(s, Chunk(s))
          /\ AddEntry(s, Chunk(s), TRUE)
       \/ /\ ~CanAlloc(s, Chunk(s))
          /\ UNCHANGED <<poolVars, entries, budget>>
    /\ prefillTodo' = prefillTodo \ {s}
    /\ pc' = "prefill"
    /\ UNCHANGED <<seqVars, completions, decodeTodo>>

PrefillEnd ==
    /\ pc = "prefill"
    /\ prefillTodo = {} \/ budget <= 0
    /\ pc' = "decode"
    /\ prefillTodo' = {}
    /\ UNCHANGED <<seqVars, poolVars, completions>>
    /\ UNCHANGED <<budget, decodeTodo, entries>>

NextDecode(s) == pc = "decode" /\ budget > 0 /\ IsFront(s, decodeTodo)

DecodeBatch(s) ==
    /\ NextDecode(s)
    /\ CanAlloc(s, 1)
    /\ AllocPages(s, 1)
    /\ AddEntry(s, 1, FALSE)
    /\ decodeTodo' = decodeTodo \ {s}
    /\ UNCHANGED <<seqVars, completions, pc, prefillTodo>>

(* Out of pages: the decode sequence itself is preempted. *)
DecodePreempt(s) ==
    /\ NextDecode(s)
    /\ ~CanAlloc(s, 1)
    /\ preempt_sequence(s)
    /\ decodeTodo' = decodeTodo \ {s}
    /\ UNCHANGED <<completions, pc, budget, prefillTodo, entries>>

(* schedule() returns the batch and unlocks; the forward pass runs. *)
DecodeEnd ==
    /\ pc = "decode"
    /\ decodeTodo = {} \/ budget <= 0
    /\ pc' = "forward"
    /\ decodeTodo' = {}
    /\ UNCHANGED <<seqVars, poolVars, completions>>
    /\ UNCHANGED <<budget, prefillTodo, entries>>

-----------------------------------------------------------------------------
(* Engine: step_complete() *)

StepBegin ==
    /\ pc = "forward"
    /\ pc' = "complete"
    /\ UNCHANGED <<seqVars, poolVars, completions>>
    /\ UNCHANGED <<budget, prefillTodo, decodeTodo, entries>>

(* Mutant: a finished prefill does not move on to DECODE. *)
PrefillNeverEnds(e) ==
    /\ pc = "complete"
    /\ entries # <<>> /\ e = Head(entries) /\ e.is_prefill
    /\ e.seq \in running
    /\ cursor' = [cursor EXCEPT ![e.seq] = @ + e.n]
    /\ state' = [state EXCEPT
                   ![e.seq] = IF prompt[e.seq] - (cursor[e.seq] + e.n) < 0
                              THEN "DECODE" ELSE @]
    /\ entries' = Tail(entries)
    /\ UNCHANGED <<nextId, waiting, running, prompt, maxNew, out, poolVars>>
    /\ UNCHANGED <<completions, pc, budget, prefillTodo, decodeTodo>>

CompletePrefill(e) ==
    /\ pc = "complete"
    /\ entries # <<>> /\ e = Head(entries) /\ e.is_prefill
    /\ e.seq \in running
    /\ cursor' = [cursor EXCEPT ![e.seq] = @ + e.n]
    /\ state' = [state EXCEPT
                   ![e.seq] = IF prompt[e.seq] - (cursor[e.seq] + e.n) <= 0
                              THEN "DECODE" ELSE @]
    /\ entries' = Tail(entries)
    /\ UNCHANGED <<nextId, waiting, running, prompt, maxNew, out, poolVars>>
    /\ UNCHANGED <<completions, pc, budget, prefillTodo, decodeTodo>>

(* Mutant: the new token is not counted. *)
IsLastOffByOne(s, isEos) == out[s] >= maxNew[s] \/ isEos

(* Is the sequence done once it has its next token? *)
IsLast(s, isEos) == out[s] + 1 >= maxNew[s] \/ isEos

(* isEos: the token the forward pass produced is the request's EOS. *)
CompleteDecode(e, isEos) ==
    LET done == IsLast(e.seq, isEos)
    IN  /\ pc = "complete"
        /\ entries # <<>> /\ e = Head(entries) /\ ~e.is_prefill
        /\ e.seq \in running
        /\ out' = [out EXCEPT ![e.seq] = @ + 1]
        /\ touch' = [p \in Pages |-> IF p \in pages[e.seq] THEN 0 ELSE touch[p]]
        /\ state' = [state EXCEPT ![e.seq] = IF done THEN "DONE" ELSE @]
        /\ completions' = [completions EXCEPT ![e.seq] = IF done THEN @ + 1 ELSE @]
        /\ entries' = Tail(entries)
        /\ UNCHANGED <<nextId, waiting, running, prompt, maxNew, cursor>>
        /\ UNCHANGED <<pages, free, pc, budget, prefillTodo, decodeTodo>>

(* The entry's Sequence was aborted and destroyed during the forward pass. *)
(* Using it is undefined: the stale object may still look like one that    *)
(* has just finished, and then its completion callback runs.               *)
CompleteDangling(e) ==
    /\ pc = "complete"
    /\ entries # <<>> /\ e = Head(entries)
    /\ e.seq \notin running
    /\ \/ UNCHANGED completions
       \/ ~e.is_prefill /\ completions' = [completions EXCEPT ![e.seq] = @ + 1]
    /\ entries' = Tail(entries)
    /\ UNCHANGED <<seqVars, poolVars, pc, budget, prefillTodo, decodeTodo>>

(* What leak_scan reclaims. *)
Orphans == {p \in Pages : touch[p] # Freed /\ touch[p] > TTL}

(* Mutant: no leak_scan. *)
StepEndNoScan ==
    /\ pc = "complete"
    /\ entries = <<>>
    /\ running' = {s \in running : state[s] # "DONE"}
    /\ pages' = [s \in Ids |-> IF s \in running /\ state[s] = "DONE"
                               THEN {} ELSE pages[s]]
    /\ pc' = "idle"
    /\ budget' = 0
    /\ UNCHANGED <<nextId, waiting, state, prompt, maxNew, cursor, out>>
    /\ UNCHANGED <<free, touch, completions, prefillTodo, decodeTodo, entries>>

(* Done sequences leave running_ and are destroyed; nobody frees their     *)
(* pages, which stay stamped until leak_scan finds them stale.             *)
StepEnd ==
    /\ pc = "complete"
    /\ entries = <<>>
    /\ running' = {s \in running : state[s] # "DONE"}
    /\ pages' = [s \in Ids |-> IF s \in running /\ state[s] = "DONE"
                               THEN {} ELSE pages[s]]
    /\ free' = free \cup Orphans
    /\ touch' = [p \in Pages |-> IF p \in Orphans THEN Freed ELSE touch[p]]
    /\ pc' = "idle"
    /\ budget' = 0
    /\ UNCHANGED <<nextId, waiting, state, prompt, maxNew, cursor, out>>
    /\ UNCHANGED <<completions, prefillTodo, decodeTodo, entries>>

-----------------------------------------------------------------------------
(* Time *)

(* A tick of steady_clock.  Ages past the TTL are all alike. *)
Tick ==
    /\ \E p \in Pages : touch[p] # Freed /\ touch[p] <= TTL
    /\ touch' = [p \in Pages |-> IF touch[p] = Freed THEN Freed
                                 ELSE min(touch[p] + 1, TTL + 1)]
    /\ UNCHANGED <<seqVars, pages, free, completions, engVars>>

-----------------------------------------------------------------------------

Init ==
    /\ nextId = 1
    /\ waiting = {} /\ running = {}
    /\ state = [s \in Ids |-> "NONE"]
    /\ prompt = [s \in Ids |-> 0]
    /\ maxNew = [s \in Ids |-> 0]
    /\ cursor = [s \in Ids |-> 0]
    /\ out = [s \in Ids |-> 0]
    /\ pages = [s \in Ids |-> {}]
    /\ free = Pages
    /\ touch = [p \in Pages |-> Freed]
    /\ completions = [s \in Ids |-> 0]
    /\ pc = "idle"
    /\ budget = 0
    /\ prefillTodo = {} /\ decodeTodo = {}
    /\ entries = <<>>

schedule ==
    \/ ScheduleBegin
    \/ \E s \in waiting : promote_waiting(s)
    \/ PromoteEnd
    \/ \E s \in prefillTodo : PrefillBatch(s)
    \/ \E s \in prefillTodo : PrefillSkip(s)
    \/ \E s \in prefillTodo, v \in decodeTodo : PrefillPreempt(s, v)
    \/ \E s \in prefillTodo : PrefillRetry(s)
    \/ PrefillEnd
    \/ \E s \in decodeTodo : DecodeBatch(s)
    \/ \E s \in decodeTodo : DecodePreempt(s)
    \/ DecodeEnd

step_complete ==
    \/ StepBegin
    \/ entries # <<>> /\ CompletePrefill(Head(entries))
    \/ entries # <<>> /\ \E eos \in BOOLEAN : CompleteDecode(Head(entries), eos)
    \/ StepEnd

Engine == schedule \/ step_complete

(* What the code lets its callers and the clock do. *)
Next ==
    \/ \E p \in PromptLens, m \in MaxNews : add_request(p, m)
    \/ \E s \in Ids : abort_request(s)
    \/ Engine
    \/ entries # <<>> /\ CompleteDangling(Head(entries))
    \/ Tick

Spec == Init /\ [][Next]_vars

(***************************************************************************)
(* A disciplined environment: no request is aborted while the batch in     *)
(* flight holds it, and no sequence is left alone for so long that its     *)
(* pages' stamps pass the TTL.                                             *)
(***************************************************************************)
InBatch == {entries[i].seq : i \in 1..Len(entries)}

AbortBetweenSteps(s) == s \notin InBatch /\ abort_request(s)

TimelyTick ==
    /\ \A s \in Live : \A p \in pages[s] : touch[p] < TTL
    /\ Tick

DisciplinedNext ==
    \/ \E p \in PromptLens, m \in MaxNews : add_request(p, m)
    \/ \E s \in Ids : AbortBetweenSteps(s)
    \/ Engine
    \/ TimelyTick

DisciplinedSpec == Init /\ [][DisciplinedNext]_vars

(* The engine loop keeps running and time passes; clients owe nothing. *)
FairSpec == DisciplinedSpec /\ WF_vars(Engine) /\ WF_vars(TimelyTick)

-----------------------------------------------------------------------------
(* Properties *)

Entry == [seq : Ids, n : Nat \ {0}, is_prefill : BOOLEAN, start : Nat]

SeqTypeOK ==
    /\ nextId \in 1..(MaxRequests + 1)
    /\ waiting \subseteq Ids /\ running \subseteq Ids
    /\ state \in [Ids -> SeqStates]
    /\ prompt \in [Ids -> Nat] /\ maxNew \in [Ids -> Nat]
    /\ cursor \in [Ids -> Nat] /\ out \in [Ids -> Nat]
    /\ completions \in [Ids -> Nat]

PoolTypeOK ==
    /\ pages \in [Ids -> SUBSET Pages]
    /\ free \subseteq Pages
    /\ touch \in [Pages -> {Freed} \cup 0..(TTL + 1)]

EngineTypeOK ==
    /\ pc \in {"idle", "promote", "prefill", "retry", "decode", "forward", "complete"}
    /\ budget \in 0..MaxBatchTokens
    /\ prefillTodo \subseteq Ids /\ decodeTodo \subseteq Ids
    /\ entries \in Seq(Entry)

(* Every variable ranges over what its C++ counterpart can hold; a batch   *)
(* entry stands for at least one token and the budget never goes negative. *)
TypeOK == SeqTypeOK /\ PoolTypeOK /\ EngineTypeOK

(* A KV page belongs to one sequence at a time: the kv_page_ids of two     *)
(* sequences never overlap, and a page a sequence holds is not on the      *)
(* pool's free stack.  try_alloc_pages, free_pages, preemption, abort and  *)
(* leak_scan must keep it so between them.                                 *)
PagesExclusive ==
    /\ \A s \in Ids : pages[s] \cap free = {}
    /\ \A s, t \in Ids : s # t => pages[s] \cap pages[t] = {}

(* touch_us is 0 exactly for the pages on the free stack.  leak_scan and   *)
(* stats().in_use go by the stamp alone, so a stamped free page would be   *)
(* pushed twice and an unstamped used one never reclaimed.                 *)
StampMatchesFree == \A p \in Pages : p \in free <=> touch[p] = Freed

(* Whoever is not queued holds no pages: what a finished or an aborted     *)
(* request held is on the free stack or waits for leak_scan.               *)
OnlyLiveHoldPages == \A s \in Ids : pages[s] # {} => s \in running

(* No page of a sequence is stale: what leak_scan reclaims, no sequence    *)
(* holds.  Timely callers buy this; it is what makes PagesExclusive hold.  *)
LiveStampsFresh == \A s \in Ids : \A p \in pages[s] : touch[p] <= TTL

EntryStillValid(e) ==
    /\ e.seq \in running
    /\ e.is_prefill => /\ state[e.seq] = "PREFILL"
                       /\ e.start = cursor[e.seq]
                       /\ e.n <= remaining_prefill(e.seq)
    /\ ~e.is_prefill => state[e.seq] = "DECODE" /\ e.n = 1

(* A batched sequence stays as schedule() saw it until step_complete()     *)
(* handles its entry: it is still in running_, in the state the entry      *)
(* assumes, with the prefill cursor the entry starts from, although        *)
(* schedule() preempts sequences after it began to fill the batch; and it  *)
(* has no second entry.                                                    *)
BatchStillValid ==
    \A i \in 1..Len(entries) :
        /\ EntryStillValid(entries[i])
        /\ \A j \in 1..Len(entries) :
              entries[j].seq = entries[i].seq => j = i

(* The forward pass writes the KV of every batched token into a page the   *)
(* sequence holds: its pages cover the prompt up to the end of the chunk,  *)
(* or the prompt, the output so far and the new token.                     *)
BatchCovered ==
    \A i \in 1..Len(entries) :
        LET e == entries[i]
            last == IF e.is_prefill THEN e.start + e.n ELSE total_tokens(e.seq) + 1
        IN  last <= PageSize * Cardinality(pages[e.seq])

(* Requests leave waiting_ in the order they came: one still waiting came  *)
(* after every one that was promoted.                                      *)
FCFSOrder == \A r \in running, w \in waiting : r < w

(* The completion callback runs once for a request that is DONE and never  *)
(* for another, an aborted one included; a request generates at most       *)
(* max_new_tokens tokens (and at least one).                               *)
CompletedOnce ==
    \A s \in Ids :
        /\ completions[s] = IF state[s] = "DONE" THEN 1 ELSE 0
        /\ out[s] <= IF maxNew[s] = 0 THEN 1 ELSE maxNew[s]

(* Every queued request with a non-empty prompt is completed or aborted.   *)
RequestsComplete ==
    \A s \in Ids :
        (s \in Live /\ prompt[s] > 0) ~> state[s] \in {"DONE", "ABORTED"}

(* A page nobody holds any more comes back to the pool. *)
LeakedPagesReclaimed ==
    \A p \in Pages :
        (p \notin free /\ \A s \in Ids : p \notin pages[s]) ~> p \in free

(* A preempted sequence goes back to the waiting queue (scheduler.hpp      *)
(* draws SWAPPED -> WAITING "re-queued for retry"), so it is prefilled     *)
(* again or aborted.                                                       *)
PreemptedRetried ==
    \A s \in Ids :
        (s \in running /\ state[s] = "WAITING")
            ~> state[s] \in {"PREFILL", "ABORTED"}

=============================================================================
