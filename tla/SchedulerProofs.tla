-------------------------- MODULE SchedulerProofs --------------------------
(***************************************************************************)
(* Theorems about Scheduler, for every pool, configuration and number of   *)
(* requests: who owns a page, and what the scheduler owes a request (it is *)
(* promoted in its turn, its tokens have KV pages to go to, its callback   *)
(* runs once).                                                             *)
(***************************************************************************)
EXTENDS Scheduler, FiniteSetTheorems, TLAPS

-----------------------------------------------------------------------------
(* Page ownership *)

(* PagesExclusive is not inductive: leak_scan goes by the stamps, so it    *)
(* keeps the ownership exclusive only if stamps and free stacks agree, no  *)
(* held page is stale and nobody outside running_ holds pages.             *)
PoolInv ==
    /\ running \subseteq Ids
    /\ PoolTypeOK
    /\ PagesExclusive
    /\ StampMatchesFree
    /\ OnlyLiveHoldPages
    /\ LiveStampsFresh

(* AllocPages, on behalf of a sequence that is or becomes running, keeps   *)
(* the pool's invariant.                                                   *)
LEMMA AllocKeepsPoolInv ==
    ASSUME PoolInv, NEW s \in Ids, NEW n, AllocPages(s, n),
           running' \subseteq Ids, running \subseteq running', s \in running'
    PROVE  PoolInv'
<1> USE DEF PoolInv
<1>1. PICK A \in SUBSET free :
        /\ free' = free \ A
        /\ pages' = [pages EXCEPT ![s] = @ \cup A]
        /\ touch' = [p \in Pages |-> IF p \in A THEN 0 ELSE touch[p]]
  BY DEF AllocPages
<1>2. A \subseteq Pages
  BY <1>1 DEF PoolTypeOK
<1>3. \A t \in Ids : pages'[t] = IF t = s THEN pages[s] \cup A ELSE pages[t]
  BY <1>1 DEF PoolTypeOK
<1>4. \A p \in Pages : touch'[p] = IF p \in A THEN 0 ELSE touch[p]
  BY <1>1
<1>5. PoolTypeOK'
  BY <1>1, <1>2, ConfigAssumption DEF PoolTypeOK
<1>6. PagesExclusive'
  BY <1>1, <1>3 DEF PagesExclusive
<1>7. StampMatchesFree'
  BY <1>1, <1>4 DEF StampMatchesFree, Freed
<1>8. OnlyLiveHoldPages'
  BY <1>3 DEF OnlyLiveHoldPages
<1>9. LiveStampsFresh'
  <2> SUFFICES ASSUME NEW t \in Ids, NEW p \in pages'[t]
               PROVE  touch'[p] <= TTL
    BY DEF LiveStampsFresh
  <2>1. p \in Pages
    BY <1>2, <1>3 DEF PoolTypeOK
  <2> QED
    BY <2>1, <1>3, <1>4, ConfigAssumption DEF LiveStampsFresh
<1> QED
  BY <1>5, <1>6, <1>7, <1>8, <1>9

(* So does free_pages, for a sequence that stays or leaves. *)
LEMMA FreeKeepsPoolInv ==
    ASSUME PoolInv, NEW s \in Ids, free_pages(s),
           running' \subseteq Ids, running \subseteq running' \cup {s}
    PROVE  PoolInv'
<1> USE DEF PoolInv
<1>1. /\ free' = free \cup pages[s]
      /\ touch' = [p \in Pages |-> IF p \in pages[s] THEN Freed ELSE touch[p]]
      /\ pages' = [pages EXCEPT ![s] = {}]
  BY DEF free_pages
<1>3. \A t \in Ids : pages'[t] = IF t = s THEN {} ELSE pages[t]
  BY <1>1 DEF PoolTypeOK
<1>4. \A p \in Pages : touch'[p] = IF p \in pages[s] THEN Freed ELSE touch[p]
  BY <1>1
<1>5. PoolTypeOK'
  BY <1>1, <1>3 DEF PoolTypeOK
<1>6. PagesExclusive'
  BY <1>1, <1>3 DEF PagesExclusive
<1>7. StampMatchesFree'
  BY <1>1, <1>4 DEF StampMatchesFree
<1>8. OnlyLiveHoldPages'
  BY <1>3 DEF OnlyLiveHoldPages
<1>9. LiveStampsFresh'
  <2> SUFFICES ASSUME NEW t \in Ids, NEW p \in pages'[t]
               PROVE  touch'[p] <= TTL
    BY DEF LiveStampsFresh
  <2>1. p \in Pages /\ t # s /\ p \in pages[t]
    BY <1>3 DEF PoolTypeOK
  <2>2. p \notin pages[s]
    BY <2>1 DEF PagesExclusive
  <2> QED
    BY <2>1, <2>2, <1>4 DEF LiveStampsFresh
<1> QED
  BY <1>5, <1>6, <1>7, <1>8, <1>9

(* Steps that leave the pool and the ownership alone. *)
LEMMA QuietKeepsPoolInv ==
    ASSUME PoolInv, UNCHANGED poolVars, running' = running
    PROVE  PoolInv'
BY DEF PoolInv, PoolTypeOK, PagesExclusive, StampMatchesFree,
       OnlyLiveHoldPages, LiveStampsFresh, poolVars

(* leak_scan takes stale pages only, and no sequence holds one. *)
LEMMA StepEndKeepsPoolInv ==
    ASSUME PoolInv, StepEnd
    PROVE  PoolInv'
<1> USE DEF PoolInv
<1>1. /\ running' = {s \in running : state[s] # "DONE"}
      /\ pages' = [s \in Ids |-> IF s \in running /\ state[s] = "DONE"
                                 THEN {} ELSE pages[s]]
      /\ free' = free \cup Orphans
      /\ touch' = [p \in Pages |-> IF p \in Orphans THEN Freed ELSE touch[p]]
  BY DEF StepEnd
<1>2. Orphans \subseteq Pages /\ \A s \in Ids : pages[s] \cap Orphans = {}
  BY ConfigAssumption DEF Orphans, LiveStampsFresh, PoolTypeOK, Freed
<1>3. \A s \in Ids : pages'[s] = {} \/ pages'[s] = pages[s]
  BY <1>1
<1>4. \A p \in Pages : touch'[p] = IF p \in Orphans THEN Freed ELSE touch[p]
  BY <1>1
<1>5. PoolTypeOK'
  BY <1>1, <1>2 DEF PoolTypeOK
<1>6. PagesExclusive'
  <2> SUFFICES ASSUME NEW s \in Ids
               PROVE  /\ pages'[s] \cap free' = {}
                      /\ \A t \in Ids : s # t => pages'[s] \cap pages'[t] = {}
    BY DEF PagesExclusive
  <2>1. pages'[s] \cap free' = {}
    BY <1>1, <1>2, <1>3 DEF PagesExclusive
  <2>2. ASSUME NEW t \in Ids, s # t PROVE pages'[s] \cap pages'[t] = {}
    <3>1. pages[s] \cap pages[t] = {}
      BY <2>2 DEF PagesExclusive
    <3> QED
      BY <3>1, <1>3
  <2> QED
    BY <2>1, <2>2
<1>7. StampMatchesFree'
  BY <1>1, <1>4 DEF StampMatchesFree
<1>8. OnlyLiveHoldPages'
  BY <1>1 DEF OnlyLiveHoldPages
<1>9. LiveStampsFresh'
  <2> SUFFICES ASSUME NEW s \in Ids, NEW p \in pages'[s]
               PROVE  touch'[p] <= TTL
    BY DEF LiveStampsFresh
  <2>1. p \in Pages /\ p \in pages[s] /\ p \notin Orphans
    BY <1>2, <1>3 DEF PoolTypeOK
  <2> QED
    BY <2>1, <1>4 DEF LiveStampsFresh
<1> QED
  BY <1>1, <1>5, <1>6, <1>7, <1>8, <1>9

(* A tick that finds every held page fresh enough leaves it fresh. *)
LEMMA TickKeepsPoolInv ==
    ASSUME PoolInv, TimelyTick
    PROVE  PoolInv'
<1> USE DEF PoolInv
<1>1. /\ touch' = [p \in Pages |-> IF touch[p] = Freed THEN Freed
                                   ELSE min(touch[p] + 1, TTL + 1)]
      /\ UNCHANGED <<running, pages, free>>
  BY DEF TimelyTick, Tick, seqVars
<1>2. \A p \in Pages : touch[p] \in {Freed} \cup 0..(TTL + 1)
  BY DEF PoolTypeOK
<1>3. \A p \in Pages : /\ touch[p] = Freed => touch'[p] = Freed
                       /\ touch[p] # Freed => touch'[p] \in 0..(TTL + 1)
  BY <1>1, <1>2, ConfigAssumption DEF min, Freed
<1>4. PoolTypeOK'
  <2>1. \A p \in Pages : touch'[p] \in {Freed} \cup 0..(TTL + 1)
    BY <1>3
  <2>2. touch' \in [Pages -> {Freed} \cup 0..(TTL + 1)]
    BY <1>1, <2>1
  <2> QED
    BY <1>1, <2>2 DEF PoolTypeOK
<1>5. StampMatchesFree'
  <2> SUFFICES ASSUME NEW p \in Pages
               PROVE  p \in free <=> touch'[p] = Freed
    BY <1>1 DEF StampMatchesFree
  <2> QED
    BY <1>3, ConfigAssumption DEF StampMatchesFree, Freed
<1>6. LiveStampsFresh'
  <2> SUFFICES ASSUME NEW s \in Ids, NEW p \in pages[s]
               PROVE  touch'[p] <= TTL
    BY <1>1 DEF LiveStampsFresh
  <2>1. p \in Pages /\ s \in Live /\ p \notin free
    BY DEF PoolTypeOK, OnlyLiveHoldPages, Live, PagesExclusive
  <2>2. touch[p] < TTL /\ touch[p] # Freed
    BY <2>1 DEF TimelyTick, StampMatchesFree
  <2> QED
    BY <2>1, <2>2, <1>1, <1>2, ConfigAssumption DEF min, Freed
<1> QED
  BY <1>1, <1>4, <1>5, <1>6 DEF PagesExclusive, OnlyLiveHoldPages

(* Touching the pages of a running sequence only makes them fresher. *)
LEMMA TouchKeepsPoolInv ==
    ASSUME PoolInv, NEW s \in Ids,
           touch' = [p \in Pages |-> IF p \in pages[s] THEN 0 ELSE touch[p]],
           UNCHANGED <<running, pages, free>>
    PROVE  PoolInv'
<1> USE DEF PoolInv
<1>1. \A p \in Pages : touch'[p] = IF p \in pages[s] THEN 0 ELSE touch[p]
  OBVIOUS
<1>2. PoolTypeOK'
  BY ConfigAssumption DEF PoolTypeOK
<1>3. StampMatchesFree'
  BY <1>1 DEF StampMatchesFree, PagesExclusive, Freed
<1>4. LiveStampsFresh'
  <2> SUFFICES ASSUME NEW t \in Ids, NEW p \in pages[t]
               PROVE  touch'[p] <= TTL
    BY DEF LiveStampsFresh
  <2> QED
    BY <1>1, ConfigAssumption DEF LiveStampsFresh, PoolTypeOK
<1> QED
  BY <1>2, <1>3, <1>4 DEF PagesExclusive, OnlyLiveHoldPages

(* The work lists of schedule() name running sequences. *)
TodoRunning == prefillTodo \subseteq running /\ decodeTodo \subseteq running

(* Every step of a disciplined environment keeps the pool's invariant. *)
LEMMA PoolInvInductive ==
    ASSUME PoolInv, TodoRunning, waiting \subseteq Ids, [DisciplinedNext]_vars
    PROVE  PoolInv'
<1> running \subseteq Ids
  BY DEF PoolInv
<1>1. ASSUME NEW p \in PromptLens, NEW m \in MaxNews, add_request(p, m)
      PROVE  PoolInv'
  BY <1>1, QuietKeepsPoolInv DEF add_request
<1>2. ASSUME NEW s \in Ids, AbortBetweenSteps(s)
      PROVE  PoolInv'
  BY <1>2, FreeKeepsPoolInv DEF AbortBetweenSteps, abort_request
<1>3. CASE ScheduleBegin
  BY <1>3, QuietKeepsPoolInv DEF ScheduleBegin, seqVars
<1>4. ASSUME NEW s \in waiting, promote_waiting(s)
      PROVE  PoolInv'
  BY <1>4, AllocKeepsPoolInv DEF promote_waiting
<1>5. CASE PromoteEnd
  BY <1>5, QuietKeepsPoolInv DEF PromoteEnd, seqVars
<1>6. ASSUME NEW s \in prefillTodo, PrefillBatch(s)
      PROVE  PoolInv'
  BY <1>6, AllocKeepsPoolInv DEF PrefillBatch, seqVars, TodoRunning
<1>7. ASSUME NEW s \in prefillTodo, PrefillSkip(s)
      PROVE  PoolInv'
  BY <1>7, QuietKeepsPoolInv DEF PrefillSkip, seqVars
<1>8. ASSUME NEW s \in prefillTodo, NEW v \in decodeTodo, PrefillPreempt(s, v)
      PROVE  PoolInv'
  BY <1>8, FreeKeepsPoolInv DEF PrefillPreempt, preempt_sequence, TodoRunning
<1>9. ASSUME NEW s \in prefillTodo, PrefillRetry(s)
      PROVE  PoolInv'
  BY <1>9, AllocKeepsPoolInv, QuietKeepsPoolInv
     DEF PrefillRetry, seqVars, TodoRunning
<1>10. CASE PrefillEnd
  BY <1>10, QuietKeepsPoolInv DEF PrefillEnd, seqVars
<1>11. ASSUME NEW s \in decodeTodo, DecodeBatch(s)
       PROVE  PoolInv'
  BY <1>11, AllocKeepsPoolInv DEF DecodeBatch, seqVars, TodoRunning
<1>12. ASSUME NEW s \in decodeTodo, DecodePreempt(s)
       PROVE  PoolInv'
  BY <1>12, FreeKeepsPoolInv DEF DecodePreempt, preempt_sequence, TodoRunning
<1>13. CASE DecodeEnd
  BY <1>13, QuietKeepsPoolInv DEF DecodeEnd, seqVars
<1>14. CASE StepBegin
  BY <1>14, QuietKeepsPoolInv DEF StepBegin, seqVars
<1>15. CASE entries # <<>> /\ CompletePrefill(Head(entries))
  BY <1>15, QuietKeepsPoolInv DEF CompletePrefill
<1>16. ASSUME NEW eos \in BOOLEAN, entries # <<>>,
              CompleteDecode(Head(entries), eos)
       PROVE  PoolInv'
  BY <1>16, TouchKeepsPoolInv DEF CompleteDecode
<1>17. CASE StepEnd
  BY <1>17, StepEndKeepsPoolInv
<1>18. CASE TimelyTick
  BY <1>18, TickKeepsPoolInv
<1>19. CASE UNCHANGED vars
  BY <1>19, QuietKeepsPoolInv DEF vars, poolVars
<1> QED
  BY <1>1, <1>2, <1>3, <1>4, <1>5, <1>6, <1>7, <1>8, <1>9, <1>10, <1>11,
     <1>12, <1>13, <1>14, <1>15, <1>16, <1>17, <1>18, <1>19
     DEF DisciplinedNext, Engine, schedule, step_complete

-----------------------------------------------------------------------------
(* The batch in flight *)

(* What schedule()'s local work lists say while it runs. *)
TodoInv ==
    /\ \A s \in prefillTodo :
          s \in running /\ state[s] = "PREFILL" /\ s \notin InBatch
    /\ \A s \in decodeTodo :
          s \in running /\ state[s] = "DECODE" /\ s \notin InBatch
    /\ pc \in {"idle", "promote", "forward", "complete"} =>
          prefillTodo = {} /\ decodeTodo = {}
    /\ pc = "decode" => prefillTodo = {}
    /\ pc \in {"idle", "promote"} => entries = <<>>
    /\ pc = "retry" =>
          budget > 0 /\ \A s \in prefillTodo :
                          IsFront(s, prefillTodo) => remaining_prefill(s) > 0

(* Queued requests were issued, the others were never touched; a prefill   *)
(* never overshoots its prompt.                                            *)
IdsIssued ==
    /\ \A s \in Live : s < nextId
    /\ \A s \in Ids : nextId <= s => cursor[s] = 0

(* A prefill does not run past its prompt. *)
CursorInPrompt == \A s \in Ids : cursor[s] <= prompt[s]

(* The inductive invariant of the batch. *)
BatchInv ==
    /\ SeqTypeOK
    /\ EngineTypeOK
    /\ IdsIssued
    /\ CursorInPrompt
    /\ TodoInv
    /\ BatchStillValid

(* Appending a valid entry for a sequence that has none yet. *)
LEMMA AppendEntry ==
    ASSUME entries \in Seq(Entry), BatchStillValid,
           NEW e \in Entry, EntryStillValid(e), e.seq \notin InBatch,
           entries' = Append(entries, e),
           UNCHANGED <<running, state, cursor, prompt>>
    PROVE  /\ entries' \in Seq(Entry)
           /\ BatchStillValid'
           /\ InBatch' = InBatch \cup {e.seq}
<1>1. /\ entries' \in Seq(Entry)
      /\ Len(entries') = Len(entries) + 1
      /\ entries'[Len(entries) + 1] = e
      /\ \A i \in 1..Len(entries) : entries'[i] = entries[i]
      /\ Len(entries) \in Nat
  OBVIOUS
<1>2. \A i \in 1..Len(entries') :
        \/ i \in 1..Len(entries) /\ entries'[i] = entries[i]
        \/ i = Len(entries) + 1 /\ entries'[i] = e
  BY <1>1
<1>3. \A i \in 1..Len(entries) : entries[i].seq # e.seq
  BY DEF InBatch
<1>5. BatchStillValid'
  <2> SUFFICES ASSUME NEW i \in 1..Len(entries')
               PROVE  /\ EntryStillValid(entries[i])'
                      /\ \A j \in 1..Len(entries') :
                            entries'[j].seq = entries'[i].seq => j = i
    BY DEF BatchStillValid
  <2>1. EntryStillValid(entries[i])'
    BY <1>2 DEF BatchStillValid, EntryStillValid, remaining_prefill
  <2>2. \A j \in 1..Len(entries') : entries'[j].seq = entries'[i].seq => j = i
    BY <1>2, <1>3 DEF BatchStillValid
  <2> QED
    BY <2>1, <2>2
<1>7. InBatch' = InBatch \cup {e.seq}
  <2>1. \A x : x \in InBatch' <=> \E i \in 1..Len(entries') : x = entries'[i].seq
    BY DEF InBatch
  <2>2. \A x : x \in InBatch <=> \E i \in 1..Len(entries) : x = entries[i].seq
    BY DEF InBatch
  <2>3. Len(entries) + 1 \in 1..Len(entries') /\ 1..Len(entries) \subseteq 1..Len(entries')
    BY <1>1
  <2>4. \A x : x \in InBatch' <=> x \in InBatch \cup {e.seq}
    BY <2>1, <2>2, <2>3, <1>1, <1>2
  <2> QED
    BY <2>4
<1> QED
  BY <1>1, <1>5, <1>7

(* Steps that leave the batch, and whatever it refers to, alone. *)
LEMMA SameEntries ==
    ASSUME BatchStillValid, entries' = entries,
           \A s \in InBatch : /\ s \in running => s \in running'
                              /\ state'[s] = state[s]
                              /\ cursor'[s] = cursor[s]
                              /\ prompt'[s] = prompt[s]
    PROVE  BatchStillValid' /\ InBatch' = InBatch
<1>1. InBatch' = InBatch
  BY DEF InBatch
<1>2. \A i \in 1..Len(entries) : entries[i].seq \in InBatch
  BY DEF InBatch
<1>3. BatchStillValid'
  BY <1>2 DEF BatchStillValid, EntryStillValid, remaining_prefill
<1> QED
  BY <1>1, <1>3

(* Handling the first entry may change its sequence, which has no other. *)
LEMMA TailEntries ==
    ASSUME entries \in Seq(Entry), entries # <<>>, BatchStillValid,
           entries' = Tail(entries), UNCHANGED <<running, prompt>>,
           \A s \in InBatch \ {Head(entries).seq} :
               state'[s] = state[s] /\ cursor'[s] = cursor[s]
    PROVE  entries' \in Seq(Entry) /\ BatchStillValid'
<1>1. /\ entries' \in Seq(Entry)
      /\ Len(entries) \in Nat /\ Len(entries) > 0
      /\ Len(entries') = Len(entries) - 1
      /\ \A i \in 1..Len(entries') : entries'[i] = entries[i + 1]
      /\ Head(entries) = entries[1]
  OBVIOUS
<1>2. \A i \in 1..Len(entries') :
        /\ i + 1 \in 1..Len(entries)
        /\ i + 1 # 1
        /\ entries'[i] = entries[i + 1]
  BY <1>1
<1>3. \A i \in 1..Len(entries') : entries[i + 1].seq \in InBatch \ {Head(entries).seq}
  BY <1>1, <1>2 DEF InBatch, BatchStillValid
<1>4. BatchStillValid'
  <2> SUFFICES ASSUME NEW i \in 1..Len(entries')
               PROVE  /\ EntryStillValid(entries[i])'
                      /\ \A j \in 1..Len(entries') :
                            entries'[j].seq = entries'[i].seq => j = i
    BY DEF BatchStillValid
  <2>1. EntryStillValid(entries[i])'
    BY <1>2, <1>3 DEF BatchStillValid, EntryStillValid, remaining_prefill
  <2>2. \A j \in 1..Len(entries') : entries'[j].seq = entries'[i].seq => j = i
    <3> TAKE j \in 1..Len(entries')
    <3> HAVE entries'[j].seq = entries'[i].seq
    <3>1. j + 1 = i + 1
      BY <1>2 DEF BatchStillValid
    <3> QED
      BY <3>1, <1>1
  <2> QED
    BY <2>1, <2>2
<1> QED
  BY <1>1, <1>4

(* The chunk of a prefill fits the budget and the rest of the prompt. *)
LEMMA ChunkBounds ==
    ASSUME SeqTypeOK, EngineTypeOK, CursorInPrompt, NEW s \in Ids
    PROVE  /\ remaining_prefill(s) \in Nat
           /\ Chunk(s) \in Nat
           /\ Chunk(s) <= remaining_prefill(s)
           /\ Chunk(s) <= budget
           /\ remaining_prefill(s) > 0 /\ budget > 0 => Chunk(s) > 0
           /\ Chunk(s) > 0 => remaining_prefill(s) > 0
<1>1. cursor[s] \in Nat /\ prompt[s] \in Nat /\ cursor[s] <= prompt[s]
  BY DEF SeqTypeOK, CursorInPrompt
<1>2. remaining_prefill(s) \in Nat
  BY <1>1 DEF remaining_prefill
<1>3. budget \in Nat /\ MaxPrefill \in Nat \ {0}
  BY ConfigAssumption DEF EngineTypeOK
<1> QED
  BY <1>2, <1>3 DEF Chunk, min

(* A running sequence gets its prefill chunk into the batch. *)
LEMMA PrefillEntry ==
    ASSUME BatchInv, NEW s \in prefillTodo, Chunk(s) > 0,
           AddEntry(s, Chunk(s), TRUE),
           prefillTodo' = prefillTodo \ {s},
           UNCHANGED <<seqVars, completions, decodeTodo>>,
           pc \in {"prefill", "retry"}, pc' = "prefill"
    PROVE  BatchInv'
<1> USE DEF BatchInv
<1>1. s \in Ids /\ s \in running /\ state[s] = "PREFILL" /\ s \notin InBatch
  BY DEF EngineTypeOK, TodoInv
<1>2. /\ Chunk(s) \in Nat \ {0} /\ Chunk(s) <= remaining_prefill(s)
      /\ Chunk(s) <= budget
  BY <1>1, ChunkBounds
<1> DEFINE e == [seq |-> s, n |-> Chunk(s), is_prefill |-> TRUE, start |-> cursor[s]]
<1>3. e \in Entry
  BY <1>1, <1>2 DEF Entry, SeqTypeOK
<1>4. EntryStillValid(e)
  BY <1>1, <1>2 DEF EntryStillValid
<1>5. entries' = Append(entries, e) /\ budget' = budget - Chunk(s)
  BY DEF AddEntry
<1>6. UNCHANGED <<nextId, waiting, running, state, prompt, maxNew, cursor, out>>
  BY DEF seqVars
<1> HIDE DEF e
<1>7. e.seq = s
  BY DEF e
<1>8. entries' \in Seq(Entry) /\ BatchStillValid' /\ InBatch' = InBatch \cup {s}
  BY <1>1, <1>3, <1>4, <1>5, <1>6, <1>7, AppendEntry DEF EngineTypeOK
<1>9. SeqTypeOK' /\ IdsIssued' /\ CursorInPrompt'
  BY <1>6 DEF SeqTypeOK, IdsIssued, CursorInPrompt, Live
<1>10. EngineTypeOK'
  BY <1>2, <1>5, <1>8, ConfigAssumption DEF EngineTypeOK
<1>11. TodoInv'
  BY <1>1, <1>6, <1>8 DEF TodoInv
<1> QED
  BY <1>8, <1>9, <1>10, <1>11

(* Preempting a decode sequence that is not batched leaves the batch be. *)
LEMMA PreemptKeeps ==
    ASSUME BatchInv, NEW v \in decodeTodo, preempt_sequence(v),
           entries' = entries, completions' = completions
    PROVE  /\ SeqTypeOK' /\ IdsIssued' /\ CursorInPrompt' /\ BatchStillValid'
           /\ InBatch' = InBatch
           /\ \A s \in Ids \ {v} : /\ state'[s] = state[s]
                                    /\ cursor'[s] = cursor[s]
           /\ UNCHANGED <<running, prompt>>
<1> USE DEF BatchInv
<1>1. v \in Ids /\ v \notin InBatch
  BY DEF EngineTypeOK, TodoInv
<1>2. /\ state' = [state EXCEPT ![v] = "WAITING"]
      /\ cursor' = [cursor EXCEPT ![v] = 0]
      /\ out' = [out EXCEPT ![v] = 0]
      /\ UNCHANGED <<nextId, waiting, running, prompt, maxNew>>
  BY DEF preempt_sequence
<1>3. SeqTypeOK'
  BY <1>2 DEF SeqTypeOK, SeqStates
<1>4. \A s \in Ids : /\ s # v => state'[s] = state[s] /\ cursor'[s] = cursor[s]
                     /\ s = v => cursor'[s] = 0
  BY <1>1, <1>2 DEF SeqTypeOK
<1>5. IdsIssued'
  BY <1>2, <1>4 DEF IdsIssued, Live
<1>6. CursorInPrompt'
  BY <1>2, <1>4 DEF CursorInPrompt, SeqTypeOK
<1>7. InBatch \subseteq Ids
  <2>1. \A i \in 1..Len(entries) : entries[i] \in Entry
    BY DEF EngineTypeOK
  <2> QED
    BY <2>1 DEF InBatch, Entry
<1>8. BatchStillValid' /\ InBatch' = InBatch
  BY <1>1, <1>2, <1>4, <1>7, SameEntries
<1> QED
  BY <1>2, <1>3, <1>4, <1>5, <1>6, <1>8

(* schedule() and step_complete() move on without touching a sequence. *)
LEMMA QuietKeepsBatchInv ==
    ASSUME BatchInv, UNCHANGED <<seqVars, completions, entries>>,
           EngineTypeOK', TodoInv'
    PROVE  BatchInv'
<1> USE DEF BatchInv
<1>1. UNCHANGED <<nextId, waiting, running, state, prompt, maxNew, cursor, out>>
  BY DEF seqVars
<1>2. BatchStillValid'
  BY <1>1, SameEntries
<1>3. SeqTypeOK' /\ IdsIssued' /\ CursorInPrompt'
  BY <1>1 DEF SeqTypeOK, IdsIssued, CursorInPrompt, Live
<1> QED
  BY <1>2, <1>3

(* ... and the invariant of the queues and the batch in flight. *)
LEMMA BatchInvInductive ==
    ASSUME BatchInv, [DisciplinedNext]_vars
    PROVE  BatchInv'
<1> USE DEF BatchInv
<1>0. /\ InBatch \subseteq running
      /\ entries = <<>> => InBatch = {}
  BY DEF InBatch, BatchStillValid, EntryStillValid
<1>1. ASSUME NEW p \in PromptLens, NEW m \in MaxNews, add_request(p, m)
      PROVE  BatchInv'
  <2>1. /\ nextId \in Ids /\ nextId' = nextId + 1 /\ nextId \notin Live
        /\ UNCHANGED <<running, cursor, out, completions, engVars>>
        /\ p \in Nat /\ m \in Nat
    BY <1>1, ConfigAssumption DEF add_request, SeqTypeOK, IdsIssued, Ids
  <2>2. \/ UNCHANGED <<waiting, state, prompt, maxNew>>
        \/ /\ waiting' = waiting \cup {nextId}
           /\ state' = [state EXCEPT ![nextId] = "WAITING"]
           /\ prompt' = [prompt EXCEPT ![nextId] = p]
           /\ maxNew' = [maxNew EXCEPT ![nextId] = m]
    BY <1>1 DEF add_request
  <2>3. \A s \in Ids \ {nextId} : state'[s] = state[s] /\ prompt'[s] = prompt[s]
    BY <2>1, <2>2 DEF SeqTypeOK
  <2>4. SeqTypeOK'
    <3>1. nextId' \in 1..(MaxRequests + 1)
      BY <2>1, ConfigAssumption DEF Ids
    <3>2. waiting' \subseteq Ids /\ state' \in [Ids -> SeqStates]
      BY <2>1, <2>2 DEF SeqTypeOK, SeqStates
    <3>3. prompt' \in [Ids -> Nat] /\ maxNew' \in [Ids -> Nat]
      BY <2>1, <2>2 DEF SeqTypeOK
    <3> QED
      BY <2>1, <3>1, <3>2, <3>3 DEF SeqTypeOK
  <2>5. IdsIssued'
    <3>1. \A t \in Live' : t \in Live \/ t = nextId
      BY <2>1, <2>2 DEF Live
    <3>2. \A t \in Ids : t \in Nat
      BY DEF Ids
    <3>3. nextId \in Nat
      BY <2>1, <3>2
    <3>4. \A t \in Live : t \in Nat
      BY <3>2 DEF Live, SeqTypeOK
    <3>5. \A t \in Live' : t < nextId'
      BY <2>1, <3>1, <3>3, <3>4 DEF IdsIssued
    <3>6. \A t \in Ids : nextId' <= t => cursor'[t] = 0
      BY <2>1, <3>2, <3>3 DEF IdsIssued
    <3> QED
      BY <3>5, <3>6 DEF IdsIssued
  <2>6. CursorInPrompt'
    <3> SUFFICES ASSUME NEW s \in Ids PROVE cursor[s] <= prompt'[s]
      BY <2>1 DEF CursorInPrompt
    <3>1. CASE s = nextId
      BY <3>1, <2>1, <2>4 DEF IdsIssued, SeqTypeOK
    <3>2. CASE s # nextId
      BY <3>2, <2>3 DEF CursorInPrompt
    <3> QED
      BY <3>1, <3>2
  <2>7. UNCHANGED <<pc, budget, prefillTodo, decodeTodo, entries>>
    BY <2>1 DEF engVars
  <2>8. BatchStillValid'
    BY <1>0, <2>1, <2>3, <2>7, SameEntries DEF Live, SeqTypeOK
  <2>9. prefillTodo = {} /\ decodeTodo = {} /\ pc # "retry"
    BY <1>1 DEF add_request, LockFree, TodoInv
  <2> QED
    BY <2>4, <2>5, <2>6, <2>7, <2>8, <2>9 DEF TodoInv, EngineTypeOK
<1>2. ASSUME NEW s \in Ids, AbortBetweenSteps(s)
      PROVE  BatchInv'
  <2>1. /\ s \notin InBatch /\ LockFree
        /\ state' = [state EXCEPT ![s] = "ABORTED"]
        /\ waiting' = waiting \ {s} /\ running' = running \ {s}
        /\ UNCHANGED <<nextId, prompt, maxNew, cursor, out, completions>>
        /\ UNCHANGED <<pc, budget, prefillTodo, decodeTodo, entries>>
    BY <1>2 DEF AbortBetweenSteps, abort_request, engVars
  <2>2. SeqTypeOK' /\ IdsIssued' /\ CursorInPrompt'
    BY <2>1 DEF SeqTypeOK, SeqStates, IdsIssued, CursorInPrompt, Live
  <2>3. \A t \in InBatch : t \in running' /\ state'[t] = state[t]
    BY <1>0, <2>1 DEF SeqTypeOK
  <2>4. BatchStillValid'
    BY <2>1, <2>3, SameEntries
  <2>5. prefillTodo = {} /\ decodeTodo = {} /\ pc # "retry"
    BY <2>1 DEF LockFree, TodoInv
  <2> QED
    BY <2>1, <2>2, <2>4, <2>5 DEF TodoInv, EngineTypeOK
<1>3. CASE ScheduleBegin
  BY <1>3, QuietKeepsBatchInv DEF ScheduleBegin, TodoInv, EngineTypeOK
<1>4. ASSUME NEW s \in waiting, promote_waiting(s)
      PROVE  BatchInv'
  <2>1. /\ pc = "promote"
        /\ state' = [state EXCEPT ![s] = "PREFILL"]
        /\ waiting' = waiting \ {s} /\ running' = running \cup {s}
        /\ UNCHANGED <<nextId, prompt, maxNew, cursor, out, completions>>
        /\ UNCHANGED <<pc, budget, prefillTodo, decodeTodo, entries>>
    BY <1>4 DEF promote_waiting, engVars
  <2>2. prefillTodo = {} /\ decodeTodo = {} /\ entries = <<>> /\ InBatch = {}
    BY <1>0, <2>1 DEF TodoInv
  <2>3. SeqTypeOK' /\ IdsIssued' /\ CursorInPrompt'
    BY <2>1 DEF SeqTypeOK, SeqStates, IdsIssued, CursorInPrompt, Live
  <2>4. BatchStillValid'
    BY <2>1, <2>2, SameEntries
  <2> QED
    BY <2>1, <2>2, <2>3, <2>4 DEF TodoInv, EngineTypeOK
<1>5. CASE PromoteEnd
  <2>1. InBatch' = {}
    BY <1>0, <1>5 DEF PromoteEnd, TodoInv, InBatch
  <2> QED
    BY <1>5, <2>1, QuietKeepsBatchInv, ConfigAssumption
       DEF PromoteEnd, TodoInv, EngineTypeOK, SeqTypeOK, seqVars
<1>6. ASSUME NEW s \in prefillTodo, PrefillBatch(s)
      PROVE  BatchInv'
  BY <1>6, PrefillEntry DEF PrefillBatch, NextPrefill
<1>7. ASSUME NEW s \in prefillTodo, PrefillSkip(s)
      PROVE  BatchInv'
  <2>1. InBatch' = InBatch
    BY <1>7 DEF PrefillSkip, InBatch
  <2> QED
    BY <1>7, <2>1, QuietKeepsBatchInv
       DEF PrefillSkip, NextPrefill, TodoInv, EngineTypeOK, seqVars
<1>8. ASSUME NEW s \in prefillTodo, NEW v \in decodeTodo, PrefillPreempt(s, v)
      PROVE  BatchInv'
  <2>1. /\ pc = "prefill" /\ budget > 0 /\ IsFront(s, prefillTodo) /\ Chunk(s) > 0
        /\ preempt_sequence(v)
        /\ decodeTodo' = decodeTodo \ {v} /\ pc' = "retry"
        /\ UNCHANGED <<completions, budget, prefillTodo, entries>>
    BY <1>8 DEF PrefillPreempt, NextPrefill
  <2>2. /\ SeqTypeOK' /\ IdsIssued' /\ CursorInPrompt' /\ BatchStillValid'
        /\ InBatch' = InBatch
        /\ \A t \in Ids \ {v} : state'[t] = state[t] /\ cursor'[t] = cursor[t]
        /\ UNCHANGED <<running, prompt>>
    BY <2>1, PreemptKeeps
  <2>3. EngineTypeOK'
    BY <2>1 DEF EngineTypeOK
  <2>4. prefillTodo \subseteq Ids \ {v} /\ decodeTodo' \subseteq Ids \ {v}
    BY <2>1 DEF TodoInv, EngineTypeOK
  <2>5. ASSUME NEW t \in prefillTodo, IsFront(t, prefillTodo)
        PROVE  remaining_prefill(t)' > 0
    <3>1. t = s
      BY <2>1, <2>5 DEF IsFront, EngineTypeOK, Ids
    <3>2. remaining_prefill(s) > 0 /\ s \in Ids \ {v}
      BY <2>1, <2>4, ChunkBounds
    <3> QED
      BY <3>1, <3>2, <2>2 DEF remaining_prefill
  <2>6. TodoInv'
    BY <2>1, <2>2, <2>4, <2>5 DEF TodoInv, IsFront
  <2> QED
    BY <2>2, <2>3, <2>6
<1>9. ASSUME NEW s \in prefillTodo, PrefillRetry(s)
      PROVE  BatchInv'
  <2>1. /\ pc = "retry" /\ pc' = "prefill" /\ IsFront(s, prefillTodo)
        /\ prefillTodo' = prefillTodo \ {s}
        /\ UNCHANGED <<seqVars, completions, decodeTodo>>
    BY <1>9 DEF PrefillRetry
  <2>2. Chunk(s) > 0
    BY <2>1, ChunkBounds DEF TodoInv, EngineTypeOK
  <2>3. CASE AddEntry(s, Chunk(s), TRUE)
    BY <2>1, <2>2, <2>3, PrefillEntry
  <2>4. CASE UNCHANGED <<poolVars, entries, budget>>
    <3>1. InBatch' = InBatch
      BY <2>4 DEF InBatch
    <3> QED
      BY <2>1, <2>4, <3>1, QuietKeepsBatchInv DEF TodoInv, EngineTypeOK, seqVars
  <2> QED
    BY <1>9, <2>3, <2>4 DEF PrefillRetry
<1>10. CASE PrefillEnd
  <2>1. InBatch' = InBatch
    BY <1>10 DEF PrefillEnd, InBatch
  <2> QED
    BY <1>10, <2>1, QuietKeepsBatchInv
       DEF PrefillEnd, TodoInv, EngineTypeOK, seqVars
<1>11. ASSUME NEW s \in decodeTodo, DecodeBatch(s)
       PROVE  BatchInv'
  <2> DEFINE e == [seq |-> s, n |-> 1, is_prefill |-> FALSE, start |-> 0]
  <2>1. /\ pc = "decode" /\ budget > 0
        /\ entries' = Append(entries, e) /\ budget' = budget - 1
        /\ decodeTodo' = decodeTodo \ {s}
        /\ UNCHANGED <<pc, prefillTodo, completions>>
        /\ UNCHANGED <<nextId, waiting, running, state, prompt, maxNew, cursor, out>>
    BY <1>11 DEF DecodeBatch, NextDecode, AddEntry, seqVars
  <2>2. s \in Ids /\ s \in running /\ state[s] = "DECODE" /\ s \notin InBatch
    BY DEF EngineTypeOK, TodoInv
  <2>3. e \in Entry /\ EntryStillValid(e) /\ e.seq = s
    BY <2>2 DEF Entry, EntryStillValid
  <2> HIDE DEF e
  <2>4. entries' \in Seq(Entry) /\ BatchStillValid' /\ InBatch' = InBatch \cup {s}
    BY <2>1, <2>2, <2>3, AppendEntry DEF EngineTypeOK
  <2>5. SeqTypeOK' /\ IdsIssued' /\ CursorInPrompt'
    BY <2>1 DEF SeqTypeOK, IdsIssued, CursorInPrompt, Live
  <2>6. EngineTypeOK'
    BY <2>1, <2>4, ConfigAssumption DEF EngineTypeOK
  <2>7. TodoInv'
    BY <2>1, <2>2, <2>4 DEF TodoInv
  <2> QED
    BY <2>4, <2>5, <2>6, <2>7
<1>12. ASSUME NEW s \in decodeTodo, DecodePreempt(s)
       PROVE  BatchInv'
  <2>1. /\ pc = "decode" /\ preempt_sequence(s) /\ decodeTodo' = decodeTodo \ {s}
        /\ UNCHANGED <<completions, pc, budget, prefillTodo, entries>>
    BY <1>12 DEF DecodePreempt, NextDecode
  <2>2. /\ SeqTypeOK' /\ IdsIssued' /\ CursorInPrompt' /\ BatchStillValid'
        /\ InBatch' = InBatch
        /\ \A t \in Ids \ {s} : state'[t] = state[t] /\ cursor'[t] = cursor[t]
        /\ UNCHANGED <<running, prompt>>
    BY <2>1, PreemptKeeps
  <2> QED
    BY <2>1, <2>2 DEF TodoInv, EngineTypeOK
<1>13. CASE DecodeEnd
  BY <1>13, QuietKeepsBatchInv DEF DecodeEnd, TodoInv, EngineTypeOK
<1>14. CASE StepBegin
  BY <1>14, QuietKeepsBatchInv DEF StepBegin, TodoInv, EngineTypeOK
<1>15. CASE entries # <<>> /\ CompletePrefill(Head(entries))
  <2> DEFINE e == Head(entries)
  <2>1. /\ pc = "complete" /\ e.is_prefill
        /\ cursor' = [cursor EXCEPT ![e.seq] = @ + e.n]
        /\ state' = [state EXCEPT
                       ![e.seq] = IF prompt[e.seq] - (cursor[e.seq] + e.n) <= 0
                                  THEN "DECODE" ELSE @]
        /\ entries' = Tail(entries)
        /\ UNCHANGED <<nextId, waiting, running, prompt, maxNew, out, completions>>
        /\ UNCHANGED <<pc, budget, prefillTodo, decodeTodo>>
    BY <1>15 DEF CompletePrefill
  <2>2. /\ e \in Entry /\ EntryStillValid(e)
    BY <1>15 DEF EngineTypeOK, BatchStillValid
  <2> HIDE DEF e
  <2>3. /\ e.seq \in Ids /\ e.n \in Nat /\ e.seq \in running
        /\ e.n <= prompt[e.seq] - cursor[e.seq]
    BY <2>1, <2>2 DEF Entry, EntryStillValid, remaining_prefill
  <2>4. \A t \in Ids : cursor'[t] = IF t = e.seq THEN cursor[t] + e.n ELSE cursor[t]
    BY <2>1, <2>3 DEF SeqTypeOK
  <2>5. SeqTypeOK'
    <3>1. cursor' \in [Ids -> Nat]
      BY <2>1, <2>3 DEF SeqTypeOK
    <3>2. state[e.seq] \in SeqStates /\ "DECODE" \in SeqStates
      BY <2>3 DEF SeqTypeOK, SeqStates
    <3>3. state' \in [Ids -> SeqStates]
      BY <2>1, <3>2 DEF SeqTypeOK
    <3> QED
      BY <2>1, <3>1, <3>3 DEF SeqTypeOK
  <2>6. IdsIssued'
    BY <2>1, <2>3, <2>4 DEF IdsIssued, Live, SeqTypeOK, Ids
  <2>7. CursorInPrompt'
    BY <2>1, <2>3, <2>4 DEF CursorInPrompt, SeqTypeOK
  <2>8. \A t \in InBatch \ {e.seq} : state'[t] = state[t] /\ cursor'[t] = cursor[t]
    BY <1>0, <2>1, <2>4 DEF SeqTypeOK
  <2>9. entries' \in Seq(Entry) /\ BatchStillValid'
    BY <1>15, <2>1, <2>8, TailEntries DEF EngineTypeOK, e
  <2> QED
    BY <2>1, <2>5, <2>6, <2>7, <2>9 DEF TodoInv, EngineTypeOK
<1>16. ASSUME NEW eos \in BOOLEAN, entries # <<>>,
              CompleteDecode(Head(entries), eos)
       PROVE  BatchInv'
  <2> DEFINE e == Head(entries)
             done == IsLast(e.seq, eos)
  <2>1. /\ pc = "complete" /\ e.seq \in running
        /\ out' = [out EXCEPT ![e.seq] = @ + 1]
        /\ state' = [state EXCEPT ![e.seq] = IF done THEN "DONE" ELSE @]
        /\ completions' = [completions EXCEPT ![e.seq] = IF done THEN @ + 1 ELSE @]
        /\ entries' = Tail(entries)
        /\ UNCHANGED <<nextId, waiting, running, prompt, maxNew, cursor>>
        /\ UNCHANGED <<pc, budget, prefillTodo, decodeTodo>>
    BY <1>16 DEF CompleteDecode
  <2> HIDE DEF e, done
  <2>2. SeqTypeOK'
    BY <2>1 DEF SeqTypeOK, SeqStates
  <2>3. IdsIssued' /\ CursorInPrompt'
    BY <2>1 DEF IdsIssued, CursorInPrompt, Live
  <2>4. \A t \in InBatch \ {e.seq} : state'[t] = state[t] /\ cursor'[t] = cursor[t]
    BY <1>0, <2>1 DEF SeqTypeOK
  <2>5. entries' \in Seq(Entry) /\ BatchStillValid'
    BY <1>16, <2>1, <2>4, TailEntries DEF EngineTypeOK, e
  <2> QED
    BY <2>1, <2>2, <2>3, <2>5 DEF TodoInv, EngineTypeOK
<1>17. CASE StepEnd
  <2>1. /\ pc = "complete" /\ entries = <<>> /\ entries' = entries
        /\ running' = {s \in running : state[s] # "DONE"}
        /\ pc' = "idle" /\ budget' = 0
        /\ UNCHANGED <<nextId, waiting, state, prompt, maxNew, cursor, out>>
        /\ UNCHANGED <<completions, prefillTodo, decodeTodo>>
    BY <1>17 DEF StepEnd
  <2>2. SeqTypeOK' /\ IdsIssued' /\ CursorInPrompt'
    BY <2>1 DEF SeqTypeOK, IdsIssued, CursorInPrompt, Live
  <2>3. BatchStillValid'
    BY <1>0, <2>1, SameEntries
  <2>4. EngineTypeOK'
    BY <2>1, ConfigAssumption DEF EngineTypeOK
  <2> QED
    BY <2>1, <2>2, <2>3, <2>4 DEF TodoInv
<1>18. CASE TimelyTick
  <2>1. UNCHANGED <<seqVars, completions, engVars>>
    BY <1>18 DEF TimelyTick, Tick
  <2>2. InBatch' = InBatch
    BY <2>1 DEF engVars, InBatch
  <2> QED
    BY <2>1, <2>2, QuietKeepsBatchInv
       DEF engVars, seqVars, TodoInv, EngineTypeOK, remaining_prefill, IsFront
<1>19. CASE UNCHANGED vars
  <2>1. UNCHANGED <<seqVars, completions, engVars>>
    BY <1>19 DEF vars, seqVars, engVars
  <2>2. InBatch' = InBatch
    BY <2>1 DEF engVars, InBatch
  <2> QED
    BY <2>1, <2>2, QuietKeepsBatchInv
       DEF engVars, seqVars, TodoInv, EngineTypeOK, remaining_prefill, IsFront
<1> QED
  BY <1>1, <1>2, <1>3, <1>4, <1>5, <1>6, <1>7, <1>8, <1>9, <1>10, <1>11,
     <1>12, <1>13, <1>14, <1>15, <1>16, <1>17, <1>18, <1>19
     DEF DisciplinedNext, Engine, schedule, step_complete

-----------------------------------------------------------------------------
(* The theorems *)

(* The constructor establishes both invariants: everything is free, nothing queued. *)
LEMMA InitInvs == Init => PoolInv /\ BatchInv
<1> SUFFICES ASSUME Init PROVE PoolInv /\ BatchInv
  OBVIOUS
<1>1. PoolInv
  BY ConfigAssumption
     DEF Init, PoolInv, PoolTypeOK, PagesExclusive, StampMatchesFree,
         OnlyLiveHoldPages, LiveStampsFresh
<1>2. SeqTypeOK /\ IdsIssued /\ CursorInPrompt
  BY ConfigAssumption DEF Init, SeqTypeOK, SeqStates, IdsIssued, CursorInPrompt, Live
<1>3. EngineTypeOK
  BY ConfigAssumption DEF Init, EngineTypeOK
<1>4. TodoInv /\ BatchStillValid
  BY DEF Init, TodoInv, BatchStillValid
<1> QED
  BY <1>1, <1>2, <1>3, <1>4 DEF BatchInv

(* Both hold in every state the scheduler reaches. *)
LEMMA InvsInvariant == DisciplinedSpec => [](PoolInv /\ BatchInv)
<1>1. Init => PoolInv /\ BatchInv
  BY InitInvs
<1>2. PoolInv /\ BatchInv /\ [DisciplinedNext]_vars => (PoolInv /\ BatchInv)'
  <2> SUFFICES ASSUME PoolInv, BatchInv, [DisciplinedNext]_vars
               PROVE  PoolInv' /\ BatchInv'
    OBVIOUS
  <2>1. TodoRunning /\ waiting \subseteq Ids
    BY DEF BatchInv, TodoInv, TodoRunning, SeqTypeOK
  <2> QED
    BY <2>1, PoolInvInductive, BatchInvInductive
<1> QED
  BY <1>1, <1>2, PTL DEF DisciplinedSpec

(* The scheduler's variables keep their types: the budget stays within     *)
(* 0..max_batch_tokens, every batch entry is for at least one token.       *)
THEOREM TypeCorrect == DisciplinedSpec => []TypeOK
<1>1. PoolInv /\ BatchInv => TypeOK
  BY DEF PoolInv, BatchInv, TypeOK
<1> QED
  BY <1>1, InvsInvariant, PTL

(* No KV page is ever held by two sequences, or held and free: whatever    *)
(* schedule(), step_complete(), abort_request() and leak_scan do, as long  *)
(* as the callers are timely.                                              *)
THEOREM PageOwnership == DisciplinedSpec => [](PagesExclusive /\ StampMatchesFree)
<1>1. PoolInv => PagesExclusive /\ StampMatchesFree
  BY DEF PoolInv
<1> QED
  BY <1>1, InvsInvariant, PTL

(* Whoever is not in running_ holds no pages. *)
THEOREM NoPagesOutsideRunning == DisciplinedSpec => []OnlyLiveHoldPages
<1>1. PoolInv => OnlyLiveHoldPages
  BY DEF PoolInv
<1> QED
  BY <1>1, InvsInvariant, PTL

(* What step_complete() finds in the batch is what schedule() put there:   *)
(* no preemption, promotion or abort in between invalidates an entry.      *)
THEOREM BatchIntegrity == DisciplinedSpec => []BatchStillValid
<1>1. BatchInv => BatchStillValid
  BY DEF BatchInv
<1> QED
  BY <1>1, InvsInvariant, PTL

-----------------------------------------------------------------------------
(* First come, first served *)

(* Ids are issued in order and queued at once.  This holds of Spec too:    *)
(* aborts in flight and late clocks do not disturb the queues.             *)
QueueInv ==
    /\ nextId \in Nat \ {0}
    /\ waiting \subseteq Ids /\ running \subseteq Ids
    /\ \A s \in Live : s < nextId
    /\ FCFSOrder

(* Only these four kinds of step change a queue. *)
LEMMA QueueSteps ==
    ASSUME [Next]_vars
    PROVE  \/ \E p \in PromptLens, m \in MaxNews : add_request(p, m)
           \/ UNCHANGED nextId /\ \E s \in waiting : promote_waiting(s)
           \/ UNCHANGED nextId /\ waiting' \subseteq waiting /\ running' \subseteq running
<1> USE DEF seqVars
<1>1. ASSUME NEW s \in Ids, abort_request(s)
      PROVE  UNCHANGED nextId /\ waiting' \subseteq waiting /\ running' \subseteq running
  BY <1>1 DEF abort_request
<1>2. CASE schedule
  BY <1>2 DEF schedule, ScheduleBegin, promote_waiting, PromoteEnd, PrefillBatch, PrefillSkip,
              PrefillPreempt, PrefillRetry, PrefillEnd, DecodeBatch, DecodePreempt,
              DecodeEnd, preempt_sequence
<1>3. CASE step_complete
  BY <1>3 DEF step_complete, StepBegin, CompletePrefill, CompleteDecode, StepEnd
<1>4. CASE entries # <<>> /\ CompleteDangling(Head(entries))
  BY <1>4 DEF CompleteDangling
<1>5. CASE Tick
  BY <1>5 DEF Tick
<1>6. CASE UNCHANGED vars
  BY <1>6 DEF vars
<1> QED
  BY <1>1, <1>2, <1>3, <1>4, <1>5, <1>6 DEF Next, Engine

(* Every step keeps the queues in order of arrival. *)
LEMMA QueueInvInductive ==
    ASSUME QueueInv, [Next]_vars
    PROVE  QueueInv'
<1> USE DEF QueueInv, Live, FCFSOrder
<1>0. Ids \subseteq Nat
  BY DEF Ids
<1>1. ASSUME NEW p \in PromptLens, NEW m \in MaxNews, add_request(p, m)
      PROVE  QueueInv'
  <2>1. /\ nextId <= MaxRequests /\ nextId' = nextId + 1 /\ running' = running
        /\ waiting' = waiting \/ waiting' = waiting \cup {nextId}
    BY <1>1 DEF add_request
  <2>2. nextId \in Ids
    BY <2>1, ConfigAssumption DEF Ids
  <2>3. waiting' \subseteq waiting \cup {nextId}
    BY <2>1
  <2>4. waiting' \subseteq Ids /\ running' \subseteq Ids
    BY <2>1, <2>2, <2>3
  <2>5. \A t \in Live' : t \in Nat /\ t < nextId'
    BY <1>0, <2>1, <2>3, <2>4
  <2>6. FCFSOrder'
    BY <1>0, <2>1, <2>3
  <2> QED
    BY <2>1, <2>4, <2>5, <2>6
<1>2. ASSUME NEW s \in waiting, promote_waiting(s), UNCHANGED nextId
      PROVE  QueueInv'
  <2>1. /\ \A t \in waiting : s <= t
        /\ running' = running \cup {s} /\ waiting' = waiting \ {s}
    BY <1>2 DEF promote_waiting, Promotable, IsFront
  <2> QED
    BY <1>0, <1>2, <2>1
<1>3. CASE UNCHANGED nextId /\ waiting' \subseteq waiting /\ running' \subseteq running
  BY <1>0, <1>3
<1> QED
  BY <1>1, <1>2, <1>3, QueueSteps

(* Whatever clients, engine and clock do, a request never overtakes one    *)
(* that came before it: promote_waiting takes the front of waiting_, and   *)
(* a preempted sequence never goes back behind later ones.                 *)
THEOREM FirstComeFirstServed == Spec => []FCFSOrder
<1>1. Init => QueueInv
  BY DEF Init, QueueInv, Live, FCFSOrder
<1>2. QueueInv /\ [Next]_vars => QueueInv'
  BY QueueInvInductive
<1>3. QueueInv => FCFSOrder
  BY DEF QueueInv
<1> QED
  BY <1>1, <1>2, <1>3, PTL DEF Spec

-----------------------------------------------------------------------------
(* Completion *)

(* The states of a sequence that has not finished. *)
Active == {"WAITING", "PREFILL", "DECODE"}

(* A sequence that is DONE stays in running_ only until step_complete()    *)
(* ends; one that is not has room for a token.  Ids not issued yet are     *)
(* untouched, so that add_request starts from nothing.                     *)
ServiceInv ==
    /\ \A s \in Ids : nextId <= s =>
          state[s] = "NONE" /\ out[s] = 0 /\ completions[s] = 0
    /\ \A s \in waiting : state[s] = "WAITING"
    /\ \A s \in running : state[s] \in Active \/ (state[s] = "DONE" /\ pc = "complete")
    /\ \A s \in Ids : state[s] \in Active => out[s] = 0 \/ out[s] < maxNew[s]
    /\ CompletedOnce

(* Steps that change no sequence and stay in or out of step_complete(). *)
LEMMA QuietKeepsServiceInv ==
    ASSUME ServiceInv, UNCHANGED <<seqVars, completions>>, pc = "complete" => pc' = "complete"
    PROVE  ServiceInv'
BY DEF ServiceInv, seqVars, CompletedOnce

(* A preempted sequence forgets its output and may start over. *)
LEMMA PreemptKeepsServiceInv ==
    ASSUME BatchInv, ServiceInv, NEW v \in running, state[v] = "DECODE",
           preempt_sequence(v), completions' = completions, pc # "complete"
    PROVE  ServiceInv'
<1>1. /\ state' = [state EXCEPT ![v] = "WAITING"]
      /\ out' = [out EXCEPT ![v] = 0]
      /\ UNCHANGED <<nextId, waiting, running, maxNew>>
  BY DEF preempt_sequence
<1>2. /\ v \in Ids /\ v < nextId /\ nextId \in Nat /\ Ids \subseteq Nat
      /\ state \in [Ids -> SeqStates] /\ out \in [Ids -> Nat] /\ maxNew \in [Ids -> Nat]
      /\ waiting \subseteq Ids /\ running \subseteq Ids
  BY DEF BatchInv, SeqTypeOK, IdsIssued, Live, Ids
<1>3. \A s \in Ids : /\ state'[s] = IF s = v THEN "WAITING" ELSE state[s]
                     /\ out'[s] = IF s = v THEN 0 ELSE out[s]
  BY <1>1, <1>2
<1>4. CompletedOnce'
  BY <1>1, <1>2, <1>3 DEF ServiceInv, CompletedOnce
<1> QED
  BY <1>1, <1>2, <1>3, <1>4 DEF ServiceInv, Active

(* The invariant is inductive. *)
LEMMA ServiceInvInductive ==
    ASSUME BatchInv, QueueInv, ServiceInv, [DisciplinedNext]_vars
    PROVE  ServiceInv'
<1>0. /\ nextId \in Nat /\ Ids \subseteq Nat
      /\ waiting \subseteq Ids /\ running \subseteq Ids
      /\ state \in [Ids -> SeqStates] /\ out \in [Ids -> Nat] /\ maxNew \in [Ids -> Nat]
      /\ completions \in [Ids -> Nat]
      /\ \A s \in Live : s < nextId
      /\ waiting \cap running = {}
      /\ \A s \in prefillTodo \cup decodeTodo : s \in running
      /\ \A s \in decodeTodo : state[s] = "DECODE"
  BY DEF BatchInv, SeqTypeOK, QueueInv, FCFSOrder, TodoInv, Ids
<1>1. ASSUME NEW p \in PromptLens, NEW m \in MaxNews, add_request(p, m)
      PROVE  ServiceInv'
  <2>1. /\ nextId <= MaxRequests /\ nextId' = nextId + 1 /\ running' = running
        /\ UNCHANGED <<running, out, completions, pc>>
        /\ \/ UNCHANGED <<waiting, state, maxNew>>
           \/ /\ waiting' = waiting \cup {nextId}
              /\ state' = [state EXCEPT ![nextId] = "WAITING"]
              /\ maxNew' = [maxNew EXCEPT ![nextId] = m]
    BY <1>1 DEF add_request, engVars
  <2>2. nextId \in Ids /\ nextId \notin waiting /\ nextId \notin running
    BY <1>0, <2>1, ConfigAssumption DEF QueueInv, Ids, Live
  <2>3. \A s \in Ids : s # nextId => state'[s] = state[s] /\ maxNew'[s] = maxNew[s]
    BY <1>0, <2>1
  <2>4. /\ state'[nextId] \in {"WAITING", "NONE"}
        /\ nextId \in waiting' => state'[nextId] = "WAITING"
        /\ maxNew'[nextId] \in Nat
        /\ out'[nextId] = 0 /\ completions'[nextId] = 0
    BY <1>0, <2>1, <2>2, ConfigAssumption DEF ServiceInv
  <2>5. waiting' \subseteq waiting \cup {nextId}
    BY <2>1
  <2>6. CompletedOnce'
    BY <1>0, <2>1, <2>3, <2>4 DEF ServiceInv, CompletedOnce
  <2> QED
    BY <1>0, <2>1, <2>2, <2>3, <2>4, <2>5, <2>6 DEF ServiceInv, Active
<1>2. ASSUME NEW s \in Ids, AbortBetweenSteps(s)
      PROVE  ServiceInv'
  <2>1. /\ s \in Live /\ pc # "complete"
        /\ state' = [state EXCEPT ![s] = "ABORTED"]
        /\ waiting' = waiting \ {s} /\ running' = running \ {s}
        /\ UNCHANGED <<nextId, maxNew, out, completions, pc>>
    BY <1>2 DEF AbortBetweenSteps, abort_request, engVars, LockFree
  <2>2. \A t \in Ids : state'[t] = IF t = s THEN "ABORTED" ELSE state[t]
    BY <1>0, <2>1
  <2>3. state[s] \in Active
    BY <2>1 DEF ServiceInv, Live, Active
  <2>4. CompletedOnce'
    BY <2>1, <2>2, <2>3 DEF ServiceInv, CompletedOnce, Active
  <2>5. ~(nextId <= s)
    BY <1>0, <2>1
  <2> QED
    BY <1>0, <2>1, <2>2, <2>4, <2>5 DEF ServiceInv, Active
<1>3. CASE ScheduleBegin
  BY <1>3, QuietKeepsServiceInv DEF ScheduleBegin
<1>4. ASSUME NEW s \in waiting, promote_waiting(s)
      PROVE  ServiceInv'
  <2>1. /\ state' = [state EXCEPT ![s] = "PREFILL"]
        /\ waiting' = waiting \ {s} /\ running' = running \cup {s}
        /\ UNCHANGED <<nextId, maxNew, out, completions, pc>>
    BY <1>4 DEF promote_waiting, engVars
  <2>2. \A t \in Ids : state'[t] = IF t = s THEN "PREFILL" ELSE state[t]
    BY <1>0, <2>1
  <2>3. state[s] = "WAITING" /\ s \in Ids /\ ~(nextId <= s)
    BY <1>0 DEF ServiceInv, Live
  <2>4. CompletedOnce'
    BY <2>1, <2>2, <2>3 DEF ServiceInv, CompletedOnce
  <2> QED
    BY <1>0, <2>1, <2>2, <2>3, <2>4 DEF ServiceInv, Active
<1>5. CASE PromoteEnd
  BY <1>5, QuietKeepsServiceInv DEF PromoteEnd
<1>6. ASSUME NEW s \in prefillTodo, PrefillBatch(s)
      PROVE  ServiceInv'
  BY <1>6, QuietKeepsServiceInv DEF PrefillBatch
<1>7. ASSUME NEW s \in prefillTodo, PrefillSkip(s)
      PROVE  ServiceInv'
  BY <1>7, QuietKeepsServiceInv DEF PrefillSkip
<1>8. ASSUME NEW s \in prefillTodo, NEW v \in decodeTodo, PrefillPreempt(s, v)
      PROVE  ServiceInv'
  BY <1>0, <1>8, PreemptKeepsServiceInv DEF PrefillPreempt, NextPrefill
<1>9. ASSUME NEW s \in prefillTodo, PrefillRetry(s)
      PROVE  ServiceInv'
  BY <1>9, QuietKeepsServiceInv DEF PrefillRetry
<1>10. CASE PrefillEnd
  BY <1>10, QuietKeepsServiceInv DEF PrefillEnd
<1>11. ASSUME NEW s \in decodeTodo, DecodeBatch(s)
       PROVE  ServiceInv'
  BY <1>11, QuietKeepsServiceInv DEF DecodeBatch
<1>12. ASSUME NEW s \in decodeTodo, DecodePreempt(s)
       PROVE  ServiceInv'
  BY <1>0, <1>12, PreemptKeepsServiceInv DEF DecodePreempt, NextDecode
<1>13. CASE DecodeEnd
  BY <1>13, QuietKeepsServiceInv DEF DecodeEnd
<1>14. CASE StepBegin
  BY <1>14, QuietKeepsServiceInv DEF StepBegin
<1>e. entries # <<>> => Head(entries) \in Entry /\ EntryStillValid(Head(entries))
  BY DEF BatchInv, EngineTypeOK, BatchStillValid
<1>15. CASE entries # <<>> /\ CompletePrefill(Head(entries))
  <2> DEFINE s == Head(entries).seq
  <2>1. /\ s \in Ids /\ s \in running /\ state[s] = "PREFILL"
        /\ state' = [state EXCEPT
                       ![s] = IF prompt[s] - (cursor[s] + Head(entries).n) <= 0
                              THEN "DECODE" ELSE @]
        /\ UNCHANGED <<nextId, waiting, running, maxNew, out, completions, pc>>
    BY <1>e, <1>15 DEF CompletePrefill, EntryStillValid, Entry
  <2> HIDE DEF s
  <2>2. /\ \A t \in Ids : t # s => state'[t] = state[t]
        /\ state'[s] \in {"PREFILL", "DECODE"}
    BY <1>0, <2>1
  <2>3. CompletedOnce'
    BY <2>1, <2>2 DEF ServiceInv, CompletedOnce
  <2>4. s \notin waiting /\ ~(nextId <= s)
    BY <1>0, <2>1 DEF Live
  <2> QED
    BY <1>0, <2>1, <2>2, <2>3, <2>4 DEF ServiceInv, Active
<1>16. ASSUME NEW eos \in BOOLEAN, entries # <<>>,
              CompleteDecode(Head(entries), eos)
       PROVE  ServiceInv'
  <2> DEFINE s == Head(entries).seq
             done == IsLast(s, eos)
  <2>1. /\ pc = "complete" /\ s \in Ids /\ s \in running /\ state[s] = "DECODE"
        /\ out' = [out EXCEPT ![s] = @ + 1]
        /\ state' = [state EXCEPT ![s] = IF done THEN "DONE" ELSE @]
        /\ completions' = [completions EXCEPT ![s] = IF done THEN @ + 1 ELSE @]
        /\ UNCHANGED <<nextId, waiting, running, maxNew, pc>>
    BY <1>e, <1>16 DEF CompleteDecode, EntryStillValid, Entry
  <2>a. ~done => ~(out[s] + 1 >= maxNew[s])
    BY Zenon DEF IsLast
  <2> HIDE DEF s, done
  <2>0. ~done => out[s] + 1 < maxNew[s]
    BY <1>0, <2>1, <2>a
  <2>2. \A t \in Ids : t # s => /\ state'[t] = state[t] /\ out'[t] = out[t]
                                /\ completions'[t] = completions[t]
    BY <1>0, <2>1
  <2>3. /\ out'[s] = out[s] + 1 /\ out[s] \in Nat /\ maxNew[s] \in Nat
        /\ done => state'[s] = "DONE" /\ completions'[s] = completions[s] + 1
        /\ ~done => state'[s] = "DECODE" /\ completions'[s] = completions[s]
    BY <1>0, <2>1
  <2>5. completions[s] = 0 /\ (out[s] = 0 \/ out[s] < maxNew[s])
    BY <2>1 DEF ServiceInv, CompletedOnce, Active
  <2>6. CompletedOnce'
    BY <2>0, <2>1, <2>2, <2>3, <2>5 DEF ServiceInv, CompletedOnce
  <2>4. s \notin waiting /\ ~(nextId <= s)
    BY <1>0, <2>1 DEF Live
  <2>7. ASSUME NEW t \in Ids, state'[t] \in Active
        PROVE  out'[t] = 0 \/ out'[t] < maxNew'[t]
    <3>1. CASE t = s
      <4>1. ~done
        BY <2>3, <2>7, <3>1 DEF Active
      <4> QED
        BY <2>0, <2>1, <2>3, <3>1, <4>1
    <3>2. CASE t # s
      BY <2>1, <2>2, <2>7, <3>2 DEF ServiceInv
    <3> QED
      BY <3>1, <3>2
  <2>8. \A t \in running : state'[t] \in Active \/ state'[t] = "DONE"
    BY <1>0, <2>1, <2>2, <2>3 DEF ServiceInv, Active
  <2> QED
    BY <1>0, <2>1, <2>2, <2>4, <2>6, <2>7, <2>8 DEF ServiceInv
<1>17. CASE StepEnd
  BY <1>0, <1>17 DEF StepEnd, ServiceInv, CompletedOnce
<1>18. CASE TimelyTick
  BY <1>18, QuietKeepsServiceInv DEF TimelyTick, Tick, engVars
<1>19. CASE UNCHANGED vars
  BY <1>19, QuietKeepsServiceInv DEF vars, seqVars
<1> QED
  BY <1>1, <1>2, <1>3, <1>4, <1>5, <1>6, <1>7, <1>8, <1>9, <1>10, <1>11,
     <1>12, <1>13, <1>14, <1>15, <1>16, <1>17, <1>18, <1>19
     DEF DisciplinedNext, Engine, schedule, step_complete

(* A disciplined step is a step. *)
LEMMA DisciplinedIsNext ==
    ASSUME [DisciplinedNext]_vars
    PROVE  [Next]_vars
BY DEF DisciplinedNext, Next, AbortBetweenSteps, TimelyTick

(* The invariants of the batch, the queues and the requests hold together. *)
LEMMA ServiceInvariant == DisciplinedSpec => [](BatchInv /\ QueueInv /\ ServiceInv)
<1>1. Init => QueueInv /\ ServiceInv
  BY ConfigAssumption
     DEF Init, QueueInv, Live, FCFSOrder, ServiceInv, CompletedOnce, Active
<1>2. BatchInv /\ QueueInv /\ ServiceInv /\ [DisciplinedNext]_vars
        => (QueueInv /\ ServiceInv)'
  BY DisciplinedIsNext, QueueInvInductive, ServiceInvInductive
<1> QED
  BY <1>1, <1>2, InvsInvariant, PTL DEF DisciplinedSpec

(* A request's completion callback runs exactly once if it finishes and    *)
(* never if it does not, and it never gets more than max_new_tokens        *)
(* tokens, over all preemptions, aborts and batches.                       *)
THEOREM CallbackOnce == DisciplinedSpec => []CompletedOnce
<1>1. ServiceInv => CompletedOnce
  BY DEF ServiceInv
<1> QED
  BY <1>1, ServiceInvariant, PTL

-----------------------------------------------------------------------------
(* KV pages for every batched token *)

(* pages_needed_for rounds up. *)
LEMMA RoundsUp ==
    ASSUME NEW x \in Nat
    PROVE  /\ (x + PageSize - 1) \div PageSize \in Nat
           /\ x <= PageSize * ((x + PageSize - 1) \div PageSize)
<1> DEFINE y == x + PageSize - 1
<1>1. PageSize \in Nat /\ PageSize > 0 /\ y \in Nat
  BY ConfigAssumption
<1> HIDE DEF y
<1>2. /\ y \div PageSize \in Nat /\ y % PageSize \in 0..(PageSize - 1)
      /\ y = PageSize * (y \div PageSize) + (y % PageSize)
  BY <1>1
<1>3. PageSize * (y \div PageSize) \in Nat
  BY <1>1, <1>2
<1>4. y - PageSize * (y \div PageSize) <= PageSize - 1
  BY <1>1, <1>2, <1>3
<1>5. x <= PageSize * (y \div PageSize)
  BY <1>1, <1>3, <1>4 DEF y
<1> QED
  BY <1>2, <1>5 DEF y

(* More pages cover more. *)
LEMMA CoverGrows ==
    ASSUME NEW a \in Nat, NEW b \in Nat, a <= b
    PROVE  PageSize * a <= PageSize * b
BY ConfigAssumption

(* After try_alloc_pages a sequence has pages for its tokens and n more,   *)
(* and no other sequence's pages have changed.                             *)
LEMMA AllocCovers ==
    ASSUME PoolInv, SeqTypeOK, NEW s \in Ids, NEW n \in Nat, AllocPages(s, n)
    PROVE  /\ total_tokens(s) + n <= PageSize * Cardinality(pages'[s])
           /\ \A t \in Ids : t # s => pages'[t] = pages[t]
<1>1. PICK A \in SUBSET free :
        /\ Cardinality(A) = Missing(s, n)
        /\ pages' = [pages EXCEPT ![s] = @ \cup A]
  BY DEF AllocPages
<1>2. /\ pages \in [Ids -> SUBSET Pages] /\ free \subseteq Pages
      /\ pages[s] \cap A = {}
      /\ total_tokens(s) + n \in Nat
  BY DEF PoolInv, PoolTypeOK, PagesExclusive, SeqTypeOK, total_tokens
<1> DEFINE need == pages_needed_for(s, n)
           had == Cardinality(pages[s])
           has == Cardinality(pages[s] \cup A)
<1>3. need \in Nat /\ total_tokens(s) + n <= PageSize * need
  BY <1>2, RoundsUp DEF pages_needed_for
<1>4. IsFiniteSet(pages[s]) /\ IsFiniteSet(A)
  BY <1>2, ConfigAssumption, FS_Subset
<1>5. had \in Nat /\ Cardinality(A) \in Nat
  BY <1>4, FS_CardinalityType
<1>6. has = had + Cardinality(A)
  BY <1>2, <1>4, <1>5, FS_Union, FS_EmptySet
<1>7. Missing(s, n) = IF need - had > 0 THEN need - had ELSE 0
  BY DEF Missing
<1> HIDE DEF need, had, has
<1>8. has \in Nat /\ need <= has
  BY <1>1, <1>3, <1>5, <1>6, <1>7
<1>9. PageSize * need <= PageSize * has
  BY <1>3, <1>8, CoverGrows
<1>10. PageSize * need \in Nat /\ PageSize * has \in Nat
  BY <1>3, <1>8, ConfigAssumption
<1>11. total_tokens(s) + n <= PageSize * has
  BY <1>2, <1>3, <1>9, <1>10
<1> QED
  BY <1>1, <1>2, <1>11 DEF has

(* The pages of the entry's sequence hold the tokens the forward pass will *)
(* have written for it.                                                    *)
EntryCovered(e) ==
    (IF e.is_prefill THEN e.start + e.n ELSE total_tokens(e.seq) + 1)
        <= PageSize * Cardinality(pages[e.seq])

(* A batch is covered if its entries are. *)
LEMMA CoveredEntries ==
    BatchCovered <=> \A i \in 1..Len(entries) : EntryCovered(entries[i])
BY DEF BatchCovered, EntryCovered

(* A batch whose sequences keep their tokens and pages stays covered. *)
LEMMA SameCovered ==
    ASSUME BatchCovered, entries' = entries,
           \A s \in InBatch : /\ pages'[s] = pages[s]
                              /\ prompt'[s] = prompt[s]
                              /\ out'[s] = out[s]
    PROVE  BatchCovered'
<1>1. \A i \in 1..Len(entries) : entries[i].seq \in InBatch
  BY DEF InBatch
<1>2. \A i \in 1..Len(entries') : EntryCovered(entries[i])'
  BY <1>1, CoveredEntries DEF EntryCovered, total_tokens
<1> QED
  BY <1>2 DEF BatchCovered, EntryCovered, total_tokens

(* Adding a covered entry. *)
LEMMA AppendCovered ==
    ASSUME BatchInv, BatchCovered, NEW s \in Ids, s \notin InBatch,
           NEW e \in Entry, e.seq = s, entries' = Append(entries, e),
           EntryCovered(e)',
           UNCHANGED <<prompt, out>>,
           \A t \in Ids : t # s => pages'[t] = pages[t]
    PROVE  BatchCovered'
<1>0. entries \in Seq(Entry)
  BY DEF BatchInv, EngineTypeOK
<1>1. \A i \in 1..Len(entries') :
        \/ i \in 1..Len(entries) /\ entries'[i] = entries[i]
        \/ entries'[i] = e
  BY <1>0
<1>2. \A i \in 1..Len(entries) : /\ entries[i].seq # s /\ entries[i].seq \in Ids
  <2>0. \A i \in 1..Len(entries) : entries[i] \in Entry
    BY <1>0
  <2>1. \A i \in 1..Len(entries) : entries[i].seq \in Ids
    BY <2>0 DEF Entry
  <2> QED
    BY <2>1 DEF InBatch
<1>3. \A i \in 1..Len(entries) : EntryCovered(entries[i])
  BY CoveredEntries
<1>4. ASSUME NEW i \in 1..Len(entries')
      PROVE  EntryCovered(entries[i])'
  <2>1. CASE entries'[i] = e
    BY <2>1 DEF EntryCovered, total_tokens
  <2>2. CASE i \in 1..Len(entries) /\ entries'[i] = entries[i]
    BY <2>2, <1>2, <1>3 DEF EntryCovered, total_tokens
  <2> QED
    BY <2>1, <2>2, <1>1
<1> QED
  BY <1>4 DEF BatchCovered, EntryCovered, total_tokens

(* Handling the first entry changes the tokens of its sequence only. *)
LEMMA TailCovered ==
    ASSUME BatchInv, BatchCovered, entries # <<>>, entries' = Tail(entries),
           UNCHANGED <<prompt, pages>>,
           \A t \in Ids : t # Head(entries).seq => out'[t] = out[t]
    PROVE  BatchCovered'
<1>0. entries \in Seq(Entry)
  BY DEF BatchInv, EngineTypeOK
<1>1. \A i \in 1..Len(entries') :
        i + 1 \in 1..Len(entries) /\ entries'[i] = entries[i + 1] /\ i + 1 # 1
  BY <1>0
<1>2. Head(entries) = entries[1] /\ 1 \in 1..Len(entries)
  BY <1>0
<1>3. \A i \in 1..Len(entries') : /\ entries[i + 1].seq # Head(entries).seq
                                   /\ entries[i + 1].seq \in Ids
  <2>0. \A i \in 1..Len(entries) : entries[i] \in Entry
    BY <1>0
  <2>1. \A i \in 1..Len(entries) : entries[i].seq \in Ids
    BY <2>0 DEF Entry
  <2> QED
    BY <1>1, <1>2, <2>1 DEF BatchInv, BatchStillValid
<1>4. \A i \in 1..Len(entries') : EntryCovered(entries[i])'
  BY <1>1, <1>3, CoveredEntries DEF EntryCovered, total_tokens
<1> QED
  BY <1>4 DEF BatchCovered, EntryCovered, total_tokens

(* A prefill chunk goes into the batch with the pages it needs. *)
LEMMA PrefillCovered ==
    ASSUME PoolInv, BatchInv, BatchCovered, NEW s \in prefillTodo,
           AllocPages(s, Chunk(s)), AddEntry(s, Chunk(s), TRUE), Chunk(s) > 0,
           UNCHANGED seqVars
    PROVE  BatchCovered'
<1>1. s \in Ids /\ s \notin InBatch
  BY DEF BatchInv, EngineTypeOK, TodoInv
<1>2. /\ Chunk(s) \in Nat /\ cursor[s] \in Nat /\ prompt[s] \in Nat /\ out[s] \in Nat
      /\ cursor[s] <= prompt[s]
  BY <1>1, ChunkBounds DEF BatchInv, SeqTypeOK, CursorInPrompt
<1>3. /\ total_tokens(s) + Chunk(s) <= PageSize * Cardinality(pages'[s])
      /\ \A t \in Ids : t # s => pages'[t] = pages[t]
  BY <1>1, <1>2, AllocCovers DEF BatchInv
<1>4. PICK e \in Entry :
        /\ entries' = Append(entries, e)
        /\ e.seq = s /\ e.is_prefill /\ e.start = cursor[s] /\ e.n = Chunk(s)
  <2> DEFINE e == [seq |-> s, n |-> Chunk(s), is_prefill |-> TRUE, start |-> cursor[s]]
  <2>1. e \in Entry
    BY <1>1, <1>2 DEF Entry
  <2>2. entries' = Append(entries, e)
    BY DEF AddEntry
  <2> QED
    BY <2>1, <2>2
<1>5. /\ pages'[s] \in SUBSET Pages
  BY <1>1, <1>2, AllocKeepsPoolInv DEF PoolInv, PoolTypeOK, BatchInv, TodoInv, seqVars
<1>6. PageSize * Cardinality(pages'[s]) \in Nat
  BY <1>5, ConfigAssumption, FS_Subset, FS_CardinalityType
<1>7. cursor[s] + Chunk(s) <= PageSize * Cardinality(pages'[s])
  BY <1>2, <1>3, <1>6 DEF total_tokens
<1>9. EntryCovered(e)'
  BY <1>4, <1>7 DEF EntryCovered
<1> QED
  BY <1>1, <1>3, <1>4, <1>9, AppendCovered DEF seqVars

(* The batch stays covered while schedule() fills it, through the forward  *)
(* pass and until step_complete() has handled its entries.                 *)
LEMMA BatchCoveredInductive ==
    ASSUME PoolInv, BatchInv, BatchCovered, [DisciplinedNext]_vars
    PROVE  BatchCovered'
<1> USE DEF seqVars, poolVars, engVars
<1>0. /\ InBatch \subseteq running
      /\ entries = <<>> => InBatch = {}
      /\ running \subseteq Ids
  <2>1. running \subseteq Ids
    BY DEF BatchInv, SeqTypeOK
  <2>2. InBatch \subseteq running /\ (entries = <<>> => InBatch = {})
    BY DEF InBatch, BatchInv, BatchStillValid, EntryStillValid
  <2> QED
    BY <2>1, <2>2
<1>q. ASSUME UNCHANGED <<pages, prompt, out, entries>> PROVE BatchCovered'
  BY <1>q, SameCovered
<1>p. ASSUME NEW v \in decodeTodo, preempt_sequence(v), entries' = entries
      PROVE  BatchCovered'
  <2>1. v \notin InBatch /\ v \in Ids
    BY DEF BatchInv, TodoInv, EngineTypeOK
  <2>2. /\ pages' = [pages EXCEPT ![v] = {}]
        /\ out' = [out EXCEPT ![v] = 0] /\ prompt' = prompt
    BY <1>p DEF preempt_sequence, free_pages
  <2>3. \A t \in InBatch : pages'[t] = pages[t] /\ out'[t] = out[t]
    BY <1>0, <2>1, <2>2 DEF PoolInv, PoolTypeOK, BatchInv, SeqTypeOK
  <2> QED
    BY <1>p, <2>2, <2>3, SameCovered
<1>1. ASSUME NEW p \in PromptLens, NEW m \in MaxNews, add_request(p, m)
      PROVE  BatchCovered'
  <2>1. /\ UNCHANGED <<pages, out, entries>>
        /\ prompt' = prompt \/ prompt' = [prompt EXCEPT ![nextId] = p]
    BY <1>1 DEF add_request
  <2>2. nextId \notin running /\ nextId \in Int /\ running \subseteq Ids
    BY <1>0 DEF BatchInv, IdsIssued, Live, SeqTypeOK, Ids
  <2>3. \A t \in InBatch : prompt'[t] = prompt[t]
    BY <1>0, <2>1, <2>2 DEF BatchInv, SeqTypeOK
  <2> QED
    BY <2>1, <2>3, SameCovered
<1>2. ASSUME NEW s \in Ids, AbortBetweenSteps(s)
      PROVE  BatchCovered'
  <2>1. /\ s \notin InBatch /\ UNCHANGED <<prompt, out, entries>>
        /\ pages' = [pages EXCEPT ![s] = {}]
    BY <1>2 DEF AbortBetweenSteps, abort_request, free_pages
  <2>2. \A t \in InBatch : pages'[t] = pages[t]
    BY <1>0, <2>1 DEF PoolInv, PoolTypeOK
  <2> QED
    BY <2>1, <2>2, SameCovered
<1>3. CASE ScheduleBegin
  BY <1>3 DEF ScheduleBegin, BatchCovered
<1>4. ASSUME NEW s \in waiting, promote_waiting(s)
      PROVE  BatchCovered'
  BY <1>0, <1>4, SameCovered DEF promote_waiting, BatchInv, TodoInv
<1>5. CASE PromoteEnd
  BY <1>5, <1>q DEF PromoteEnd
<1>6. ASSUME NEW s \in prefillTodo, PrefillBatch(s)
      PROVE  BatchCovered'
  BY <1>6, PrefillCovered DEF PrefillBatch
<1>7. ASSUME NEW s \in prefillTodo, PrefillSkip(s)
      PROVE  BatchCovered'
  BY <1>7, <1>q DEF PrefillSkip
<1>8. ASSUME NEW s \in prefillTodo, NEW v \in decodeTodo, PrefillPreempt(s, v)
      PROVE  BatchCovered'
  BY <1>8, <1>p DEF PrefillPreempt
<1>9. ASSUME NEW s \in prefillTodo, PrefillRetry(s)
      PROVE  BatchCovered'
  <2>1. Chunk(s) > 0
    BY <1>9, ChunkBounds DEF PrefillRetry, BatchInv, TodoInv, EngineTypeOK
  <2>2. UNCHANGED seqVars
    BY <1>9 DEF PrefillRetry
  <2>3. CASE AllocPages(s, Chunk(s)) /\ AddEntry(s, Chunk(s), TRUE)
    BY <2>1, <2>2, <2>3, PrefillCovered
  <2>4. CASE UNCHANGED <<poolVars, entries>>
    BY <2>2, <2>4, <1>q
  <2> QED
    BY <1>9, <2>3, <2>4 DEF PrefillRetry
<1>10. CASE PrefillEnd
  BY <1>10, <1>q DEF PrefillEnd
<1>11. ASSUME NEW s \in decodeTodo, DecodeBatch(s)
       PROVE  BatchCovered'
  <2>1. s \in Ids /\ s \notin InBatch
    BY DEF BatchInv, EngineTypeOK, TodoInv
  <2>2. /\ total_tokens(s) + 1 <= PageSize * Cardinality(pages'[s])
        /\ \A t \in Ids : t # s => pages'[t] = pages[t]
    BY <1>11, <2>1, AllocCovers DEF BatchInv, DecodeBatch
  <2>3. PICK e \in Entry : entries' = Append(entries, e) /\ e.seq = s /\ ~e.is_prefill
    <3> DEFINE e == [seq |-> s, n |-> 1, is_prefill |-> FALSE, start |-> 0]
    <3>1. e \in Entry
      BY <2>1 DEF Entry
    <3>2. entries' = Append(entries, e)
      BY <1>11 DEF DecodeBatch, AddEntry
    <3> QED
      BY <3>1, <3>2
  <2>4. UNCHANGED <<prompt, out>>
    BY <1>11 DEF DecodeBatch
  <2>5. EntryCovered(e)'
    BY <2>2, <2>3, <2>4 DEF EntryCovered, total_tokens
  <2> QED
    BY <2>1, <2>2, <2>3, <2>4, <2>5, AppendCovered
<1>12. ASSUME NEW s \in decodeTodo, DecodePreempt(s)
       PROVE  BatchCovered'
  BY <1>12, <1>p DEF DecodePreempt
<1>13. CASE DecodeEnd
  BY <1>13, <1>q DEF DecodeEnd
<1>14. CASE StepBegin
  BY <1>14, <1>q DEF StepBegin
<1>15. CASE entries # <<>> /\ CompletePrefill(Head(entries))
  BY <1>15, TailCovered DEF CompletePrefill
<1>16. ASSUME NEW eos \in BOOLEAN, entries # <<>>,
              CompleteDecode(Head(entries), eos)
       PROVE  BatchCovered'
  <2>1. /\ out' = [out EXCEPT ![Head(entries).seq] = @ + 1]
        /\ entries' = Tail(entries) /\ UNCHANGED <<prompt, pages>>
    BY <1>16 DEF CompleteDecode
  <2>2. \A t \in Ids : t # Head(entries).seq => out'[t] = out[t]
    BY <2>1 DEF BatchInv, SeqTypeOK
  <2> QED
    BY <1>16, <2>1, <2>2, TailCovered
<1>17. CASE StepEnd
  BY <1>17 DEF StepEnd, BatchCovered
<1>18. CASE TimelyTick
  BY <1>18, <1>q DEF TimelyTick, Tick
<1>19. CASE UNCHANGED vars
  BY <1>19, <1>q DEF vars
<1> QED
  BY <1>1, <1>2, <1>3, <1>4, <1>5, <1>6, <1>7, <1>8, <1>9, <1>10, <1>11,
     <1>12, <1>13, <1>14, <1>15, <1>16, <1>17, <1>18, <1>19
     DEF DisciplinedNext, Engine, schedule, step_complete

(* The forward pass never writes the KV of a batched token past the pages  *)
(* its sequence holds: pages_needed_for rounds up, preemption takes pages  *)
(* only from sequences that are not batched, and leak_scan from none.      *)
THEOREM KVAlwaysCovered == DisciplinedSpec => []BatchCovered
<1>1. Init => BatchCovered
  BY DEF Init, BatchCovered
<1>2. PoolInv /\ BatchInv /\ BatchCovered /\ [DisciplinedNext]_vars => BatchCovered'
  BY BatchCoveredInductive
<1> QED
  BY <1>1, <1>2, InvsInvariant, PTL DEF DisciplinedSpec

=============================================================================
